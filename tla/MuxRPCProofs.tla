---------------------------- MODULE MuxRPCProofs ----------------------------
(***************************************************************************)
(* Theorems about MuxRPC, for any number of requests and values.           *)
(*                                                                         *)
(* The inductive invariant adds to EveryRequestHandled that a number whose *)
(* envelope waits to be sent, or that has not been given out, was never    *)
(* sent under: Transmit puts the first and only envelope of a number on    *)
(* the wire.  From there Receive alone moves it, and moves it to the       *)
(* request handler, because CallbackFor refuses a request.                 *)
(*                                                                         *)
(* StreamsFaithful follows from OwnedInv, which says of a number the other *)
(* end has not given out where its frames can be, who still waits for them *)
(* and what is still to come.                                              *)
(***************************************************************************)
EXTENDS MuxRPC, SequenceTheorems, FiniteSetTheorems, TLAPS

(* A connection has two ends. *)
LEMMA OtherPeer ==
    ASSUME NEW p \in Peers
    PROVE  /\ Other(p) \in Peers /\ Other(p) # p
           /\ \A q \in Peers : q = p \/ q = Other(p)
           /\ Other(Other(p)) = p
<1>1. Other(p) \in Peers /\ Other(p) # p
  BY PeersAssumption DEF Other
<1>2. Other(Other(p)) \in Peers /\ Other(Other(p)) # Other(p)
  BY <1>1, PeersAssumption DEF Other
<1> QED BY <1>1, <1>2, PeersAssumption

SignedIDs == IDs \cup {-i : i \in IDs}

(* Request numbers, and their negatives in answers. *)
LEMMA Numbers ==
    /\ IDs \subseteq Nat \ {0}
    /\ \A p \in Peers : \A i \in Nat \ {0} : i <= Quota[p] => i \in IDs
    /\ \A i \in IDs : i \in SignedIDs /\ -i \in SignedIDs /\ -i \notin IDs
    /\ \A i \in SignedIDs : Abs(i) \in IDs /\ i \in Int
    /\ \A i \in IDs : Abs(i) = i
<1>1. IDs \subseteq Nat \ {0}
  BY PeersAssumption DEF IDs
<1>2. ASSUME NEW p \in Peers, NEW i \in Nat \ {0}, i <= Quota[p] PROVE i \in IDs
  <2>1. i \in 1 .. Quota[p]
    BY <1>2, PeersAssumption
  <2> QED BY <2>1 DEF IDs
<1>3. ASSUME NEW i \in SignedIDs PROVE Abs(i) \in IDs /\ i \in Int
  <2>1. CASE i \in IDs
    BY <2>1, <1>1 DEF Abs
  <2>2. CASE i \in {-j : j \in IDs}
    <3>1. PICK j \in IDs : i = -j
      BY <2>2
    <3>2. j \in Nat \ {0} /\ -j < 0 /\ -(-j) = j
      BY <1>1
    <3> QED BY <3>1, <3>2 DEF Abs
  <2> QED BY <2>1, <2>2 DEF SignedIDs
<1>4. ASSUME NEW i \in IDs
      PROVE  i \in SignedIDs /\ -i \in SignedIDs /\ -i \notin IDs /\ Abs(i) = i
  <2>1. i \in SignedIDs /\ -i \in SignedIDs
    BY DEF SignedIDs
  <2>2. i \in Nat \ {0} /\ -i \notin Nat
    BY <1>1
  <2>3. -i \notin IDs
    BY <1>1, <2>2
  <2>4. Abs(i) = i
    BY <2>2 DEF Abs
  <2> QED BY <2>1, <2>3, <2>4
<1> QED BY <1>1, <1>2, <1>3, <1>4

(* Frames and their fields. *)
LEMMA FrameFields ==
    /\ \A f \in Frames : /\ f.id \in SignedIDs /\ f.n \in Nat
                         /\ f.body \in {"request", "value", "done", "error"}
                         /\ f.stream \in BOOLEAN /\ f.end \in BOOLEAN
    /\ \A i \in SignedIDs, n \in Nat, s, e \in BOOLEAN :
          \A b \in {"request", "value", "done", "error"} :
             [id |-> i, body |-> b, n |-> n, stream |-> s, end |-> e] \in Frames
BY DEF Frames, SignedIDs

(* A frame that is sent joins the queue of the other end only.              *)
LEMMA Sent ==
    ASSUME wire \in [Peers -> Seq(Frames)], NEW p \in Peers, NEW f \in Frames, Send(p, f)
    PROVE  /\ wire' \in [Peers -> Seq(Frames)]
           /\ wire'[Other(p)] = Append(wire[Other(p)], f)
           /\ wire'[p] = wire[p]
<1>1. Append(wire[Other(p)], f) \in Seq(Frames)
  BY OtherPeer
<1> QED BY <1>1, OtherPeer DEF Send

(* A history that is extended at one place. *)
LEMMA Logged ==
    ASSUME NEW h \in Histories, NEW p \in Peers, NEW i \in IDs,
           NEW f \in Frames
    PROVE  /\ Log(h, p, i, f) \in Histories
           /\ Log(h, p, i, f)[p][i] = Append(h[p][i], f)
           /\ \A q \in Peers, j \in IDs :
                 q # p \/ j # i => Log(h, p, i, f)[q][j] = h[q][j]
<1>1. Append(h[p][i], f) \in Seq(Frames)
  BY DEF Histories
<1>2. [h[p] EXCEPT ![i] = Append(h[p][i], f)] \in [IDs -> Seq(Frames)]
  BY <1>1 DEF Histories
<1>3. Log(h, p, i, f) = [h EXCEPT ![p] = [h[p] EXCEPT ![i] = Append(h[p][i], f)]]
  BY DEF Log
<1> QED BY <1>2, <1>3 DEF Histories

(* The number of values sent is a number. *)
LEMMA Counts ==
    ASSUME NEW h \in Histories, NEW p \in Peers, NEW i \in IDs
    PROVE  SentValues(h, p, i) \in Nat
<1> DEFINE T == {k \in DOMAIN h[p][i] : h[p][i][k].body = "value"}
<1>1. h[p][i] \in Seq(Frames)
  BY DEF Histories
<1>2. DOMAIN h[p][i] = 1 .. Len(h[p][i]) /\ Len(h[p][i]) \in Nat
  BY <1>1
<1>3. IsFiniteSet(1 .. Len(h[p][i]))
  BY <1>2, FS_Interval
<1>4. IsFiniteSet(T)
  BY <1>2, <1>3, FS_Subset
<1> QED BY <1>4, FS_CardinalityType DEF SentValues

-----------------------------------------------------------------------------
(* Where the envelopes of a queue are after it grew or lost its head.       *)

(* The envelopes after a frame is added. *)
LEMMA Appended ==
    ASSUME NEW s \in Seq(Frames), NEW f \in Frames, NEW i
    PROVE  Envelopes(Append(s, f), i) =
             Envelopes(s, i) \cup IF f.body = "request" /\ f.id = i THEN {Len(s) + 1} ELSE {}
<1>1. /\ DOMAIN s = 1 .. Len(s) /\ Len(s) \in Nat
      /\ DOMAIN Append(s, f) = 1 .. (Len(s) + 1)
  OBVIOUS
<1>2. \A k \in 1 .. Len(s) : Append(s, f)[k] = s[k]
  OBVIOUS
<1>3. Append(s, f)[Len(s) + 1] = f
  OBVIOUS
<1> QED BY <1>1, <1>2, <1>3 DEF Envelopes

(* The envelopes after the first frame is taken. *)
LEMMA Dropped ==
    ASSUME NEW s \in Seq(Frames), s # <<>>, NEW i
    PROVE  /\ \A k \in Envelopes(Tail(s), i) : k + 1 \in Envelopes(s, i) /\ k \in Nat \ {0}
           /\ \A k \in Envelopes(s, i) : k \in Nat /\ (k # 1 => k - 1 \in Envelopes(Tail(s), i))
           /\ 1 \in Envelopes(s, i) <=> Head(s).body = "request" /\ Head(s).id = i
<1>1. /\ DOMAIN s = 1 .. Len(s) /\ Len(s) \in Nat \ {0}
      /\ DOMAIN Tail(s) = 1 .. (Len(s) - 1)
      /\ Head(s) = s[1]
  OBVIOUS
<1>2. \A k \in 1 .. (Len(s) - 1) : Tail(s)[k] = s[k + 1]
  OBVIOUS
<1> QED BY <1>1, <1>2 DEF Envelopes

-----------------------------------------------------------------------------
(* The inductive invariant. *)

(* What is not on the wire yet was never sent under its number.             *)
NotYetSent ==
    \A p \in Peers : \A i \in IDs :
        i \in unsent[p] \/ i >= nextID[p] => asked[p][i] = <<>>

Given(p) == \A i \in unsent[p] : i < nextID[p]

IInv ==
    /\ TypeOK
    /\ NotYetSent
    /\ \A p \in Peers : Given(p)
    /\ EveryRequestHandled

(* EveryRequestHandled of one number of one requester.                      *)
Handled(p, i, w, h, s) ==
    /\ InOnePlace(Envelopes(w, i), Envelopes(h, i))
    /\ s # <<>> <=> Envelopes(w, i) \cup Envelopes(h, i) # {}

(* EveryRequestHandled, one number at a time. *)
LEMMA HandledEverywhere ==
    /\ EveryRequestHandled <=>
          \A p \in Peers : \A i \in IDs :
             Handled(p, i, wire[Other(p)], handed[Other(p)][i], asked[p][i])
    /\ EveryRequestHandled' <=>
          \A p \in Peers : \A i \in IDs :
             Handled(p, i, wire'[Other(p)], handed'[Other(p)][i], asked'[p][i])
BY DEF EveryRequestHandled, Handled

(* A frame that is no envelope of i changes nothing for i.                  *)
LEMMA OtherFrame ==
    ASSUME NEW w \in Seq(Frames), NEW f \in Frames, NEW i,
           f.body # "request" \/ f.id # i
    PROVE  Envelopes(Append(w, f), i) = Envelopes(w, i)
<1>1. Envelopes(Append(w, f), i) =
        Envelopes(w, i) \cup IF f.body = "request" /\ f.id = i THEN {Len(w) + 1} ELSE {}
  BY Appended
<1> QED BY <1>1

(* Nothing has been sent in the beginning. *)
LEMMA InitInv == Init => IInv
<1> SUFFICES ASSUME Init PROVE IInv
  OBVIOUS
<1>1. \A p \in Peers : /\ nextID[p] = 1 /\ pending[p] = {} /\ unsent[p] = {}
                       /\ wire[p] = <<>>
                       /\ \A i \in IDs : /\ asked[p][i] = <<>>
                                         /\ handed[p][i] = <<>>
  BY DEF Init, Empty
<1>2. Empty \in Histories
  BY DEF Empty, Histories
<1>3. TypeOK
  BY <1>1, <1>2 DEF Init, TypeOK
<1>4. \A i : Envelopes(<<>>, i) = {}
  BY DEF Envelopes
<1>5. EveryRequestHandled
  BY <1>1, <1>4, OtherPeer DEF EveryRequestHandled, InOnePlace
<1> QED BY <1>1, <1>3, <1>5 DEF IInv, NotYetSent, Given

-----------------------------------------------------------------------------
(* Sending.  A step that sends a frame that is no envelope, and logs it as  *)
(* asked or answered, keeps the invariant.                                  *)

(* A number that is taken is new, and nothing of it is on the way. *)
LEMMA RegisterInv ==
    ASSUME IInv, NEW p \in Peers, Register(p)
    PROVE  IInv'
<1> DEFINE n == nextID[p]
<1>1. TypeOK /\ NotYetSent /\ EveryRequestHandled /\ \A q \in Peers : Given(q)
  BY DEF IInv
<1>2. n \in IDs /\ n \in Nat \ {0} /\ n + 1 \in Nat \ {0}
  BY <1>1, Numbers DEF Register, TypeOK
<1>3. nextID' = [nextID EXCEPT ![p] = n + 1] /\ nextID \in [Peers -> Nat \ {0}]
  BY <1>1 DEF Register, TypeOK
<1>4. pending' = [pending EXCEPT ![p] = pending[p] \cup {n}] /\ pending \in [Peers -> SUBSET IDs]
  BY <1>1 DEF Register, TypeOK
<1>5. unsent' = [unsent EXCEPT ![p] = unsent[p] \cup {n}] /\ unsent \in [Peers -> SUBSET IDs]
  BY <1>1 DEF Register, TypeOK
<1>6. isStream' \in [Peers -> [IDs -> BOOLEAN]]
  <2>1. PICK s \in BOOLEAN : isStream' = [isStream EXCEPT ![p][n] = s]
    BY DEF Register
  <2>2. [isStream[p] EXCEPT ![n] = s] \in [IDs -> BOOLEAN]
    BY <1>1, <1>2 DEF TypeOK
  <2> QED BY <1>1, <2>1, <2>2 DEF TypeOK
<1>7. UNCHANGED <<incoming, wire, open, asked, answered, called, handed>>
  BY DEF Register
<1> HIDE DEF n
<1>8. /\ nextID' \in [Peers -> Nat \ {0}]
      /\ pending' \in [Peers -> SUBSET IDs]
      /\ unsent' \in [Peers -> SUBSET IDs]
  BY <1>2, <1>3, <1>4, <1>5
<1>9. \A q \in Peers : \A i \in pending[q] : i < nextID[q]
  BY <1>1 DEF TypeOK
<1>10. \A q \in Peers : \A i \in pending'[q] : i < nextID'[q]
  <2> SUFFICES ASSUME NEW q \in Peers, NEW i \in pending'[q] PROVE i < nextID'[q]
    OBVIOUS
  <2>1. CASE q = p
    <3>1. i \in pending[p] \/ i = n
      BY <1>4, <2>1
    <3>2. nextID'[p] = n + 1 /\ nextID[p] = n
      BY <1>3 DEF n
    <3>3. i \in Nat
      BY <1>2, <1>4, <3>1, Numbers
    <3> QED BY <1>2, <1>9, <2>1, <3>1, <3>2, <3>3
  <2>2. CASE q # p
    BY <1>3, <1>4, <1>9, <2>2
  <2> QED BY <2>1, <2>2
<1>11. \A q \in Peers : Given(q)'
  <2> SUFFICES ASSUME NEW q \in Peers, NEW i \in unsent'[q] PROVE i < nextID'[q]
    BY DEF Given
  <2>1. CASE q = p
    <3>1. i \in unsent[p] \/ i = n
      BY <1>5, <2>1
    <3>2. nextID'[p] = n + 1 /\ nextID[p] = n
      BY <1>3 DEF n
    <3>3. i \in Nat
      BY <1>2, <1>5, <3>1, Numbers
    <3> QED BY <1>1, <1>2, <2>1, <3>1, <3>2, <3>3 DEF Given
  <2>2. CASE q # p
    BY <1>1, <1>3, <1>5, <2>2 DEF Given
  <2> QED BY <2>1, <2>2
<1>12. NotYetSent'
  <2> SUFFICES ASSUME NEW q \in Peers, NEW i \in IDs,
                      i \in unsent'[q] \/ i >= nextID'[q]
               PROVE  asked[q][i] = <<>>
    BY <1>7 DEF NotYetSent
  <2>1. i \in Nat /\ nextID[q] \in Nat /\ nextID'[q] >= nextID[q]
    BY <1>2, <1>3, Numbers DEF n
  <2>2. i \in unsent[q] \/ i >= nextID[q]
    <3>1. CASE i \in unsent'[q]
      <4>1. i \in unsent[q] \/ (q = p /\ i = n)
        BY <1>5, <3>1
      <4> QED BY <4>1, <2>1 DEF n
    <3>2. CASE i >= nextID'[q]
      BY <2>1, <3>2, <1>2, <1>3 DEF n
    <3> QED BY <3>1, <3>2
  <2> QED BY <1>1, <2>2 DEF NotYetSent
<1>13. EveryRequestHandled'
  BY <1>1, <1>7 DEF EveryRequestHandled
<1>14. TypeOK'
  BY <1>1, <1>6, <1>7, <1>8, <1>10 DEF TypeOK
<1> QED BY <1>11, <1>12, <1>13, <1>14 DEF IInv

(* The envelope of a registered number goes on the wire, the first time. *)
LEMMA TransmitInv ==
    ASSUME IInv, NEW p \in Peers, NEW i \in IDs, Transmit(p, i)
    PROVE  IInv'
<1> DEFINE f == [id |-> i, body |-> "request", n |-> 0,
                 stream |-> isStream[p][i], end |-> FALSE]
<1> USE DEF IInv, TypeOK
<1>1. f \in Frames /\ f.id = i /\ f.body = "request"
  <2>1. isStream[p][i] \in BOOLEAN /\ i \in SignedIDs
    BY Numbers
  <2> QED BY <2>1, FrameFields
<1>2. Send(p, f) /\ asked' = Log(asked, p, i, f)
  BY DEF Transmit
<1>3. UNCHANGED <<nextID, pending, incoming, open, isStream, answered, called, handed>>
  BY DEF Transmit
<1>4. /\ unsent' \in [Peers -> SUBSET IDs]
      /\ i \in unsent[p]
      /\ \A q \in Peers : unsent'[q] = IF q = p THEN unsent[q] \ {i} ELSE unsent[q]
  BY DEF Transmit
<1> HIDE DEF f
<1>5. /\ wire' \in [Peers -> Seq(Frames)]
      /\ wire'[Other(p)] = Append(wire[Other(p)], f)
      /\ wire'[p] = wire[p]
  BY <1>1, <1>2, Sent
<1>6. /\ asked' \in Histories
      /\ asked'[p][i] = Append(asked[p][i], f)
      /\ \A q \in Peers, j \in IDs : q # p \/ j # i => asked'[q][j] = asked[q][j]
  <2>1. asked \in Histories
    OBVIOUS
  <2> HIDE DEF IInv, TypeOK
  <2> QED BY <1>1, <1>2, <2>1, Logged
<1>7. TypeOK'
  BY <1>3, <1>4, <1>5, <1>6
<1>8. \A q \in Peers : Given(q)'
  BY <1>3, <1>4 DEF Given
<1>9. NotYetSent'
  <2> SUFFICES ASSUME NEW q \in Peers, NEW j \in IDs,
                      j \in unsent'[q] \/ j >= nextID[q]
               PROVE  asked'[q][j] = <<>>
    BY <1>3 DEF NotYetSent
  <2>1. q # p \/ j # i
    BY <1>4, Numbers DEF Given
  <2>2. j \in unsent[q] \/ j >= nextID[q]
    BY <1>4
  <2> QED BY <1>6, <2>1, <2>2 DEF NotYetSent
<1>10. asked[p][i] = <<>>
  BY <1>4 DEF NotYetSent
<1>11. Envelopes(wire[Other(p)], i) = {} /\ Envelopes(handed[Other(p)][i], i) = {}
  BY <1>10 DEF EveryRequestHandled
<1>12. Handled(p, i, wire'[Other(p)], handed'[Other(p)][i], asked'[p][i])
  <2>1. Envelopes(wire'[Other(p)], i) =
           {} \cup IF f.body = "request" /\ f.id = i THEN {Len(wire[Other(p)]) + 1} ELSE {}
    <3>1. wire[Other(p)] \in Seq(Frames)
      BY OtherPeer
    <3> HIDE DEF IInv, TypeOK
    <3>2. Envelopes(Append(wire[Other(p)], f), i) = Envelopes(wire[Other(p)], i) \cup
            IF f.body = "request" /\ f.id = i THEN {Len(wire[Other(p)]) + 1} ELSE {}
      BY <1>1, <3>1, Appended
    <3> QED BY <1>5, <1>11, <3>2
  <2>2. Envelopes(wire'[Other(p)], i) = {Len(wire[Other(p)]) + 1}
    BY <1>1, <2>1
  <2>3. asked'[p][i] # <<>>
    <3>1. asked[p][i] \in Seq(Frames)
      BY DEF Histories
    <3>2. Append(asked[p][i], f) # <<>>
      <4> HIDE DEF IInv, TypeOK
      <4>1. Len(Append(asked[p][i], f)) = Len(asked[p][i]) + 1 /\ Len(asked[p][i]) \in Nat
        BY <3>1, <1>1
      <4>2. Append(asked[p][i], f) = <<>> => Len(Append(asked[p][i], f)) = 0
        OBVIOUS
      <4> QED BY <4>1, <4>2
    <3> QED BY <1>6, <3>2
  <2>4. Envelopes(handed'[Other(p)][i], i) = {}
    BY <1>3, <1>11
  <2> QED BY <2>2, <2>3, <2>4 DEF Handled, InOnePlace
<1>13. EveryRequestHandled'
  <2> SUFFICES ASSUME NEW q \in Peers, NEW j \in IDs, q # p \/ j # i
               PROVE  Handled(q, j, wire'[Other(q)], handed'[Other(q)][j], asked'[q][j])
    BY <1>12, HandledEverywhere
  <2>1. Envelopes(wire'[Other(q)], j) = Envelopes(wire[Other(q)], j)
    <3>1. CASE q = p
      BY <3>1, <1>1, <1>5, OtherFrame, OtherPeer
    <3>2. CASE q = Other(p)
      BY <3>2, <1>5, OtherPeer
    <3> QED BY <3>1, <3>2, OtherPeer
  <2>2. asked'[q][j] = asked[q][j] /\ handed' = handed
    BY <1>3, <1>6
  <2>3. Handled(q, j, wire[Other(q)], handed[Other(q)][j], asked[q][j])
    BY HandledEverywhere
  <2> QED BY <2>1, <2>2, <2>3 DEF Handled
<1> QED BY <1>7, <1>8, <1>9, <1>13

(* A request that could not be sent leaves no envelope. *)
LEMMA RequestFailsInv ==
    ASSUME IInv, NEW p \in Peers, NEW i \in IDs, RequestFails(p, i)
    PROVE  IInv'
<1> USE DEF IInv, TypeOK
<1>1. UNCHANGED <<nextID, incoming, wire, open, isStream, asked, answered, called, handed>>
  BY DEF RequestFails, history
<1>2. /\ unsent' \in [Peers -> SUBSET IDs]
      /\ pending' \in [Peers -> SUBSET IDs]
      /\ \A q \in Peers : unsent'[q] \subseteq unsent[q] /\ pending'[q] \subseteq pending[q]
  BY DEF RequestFails
<1>3. TypeOK'
  BY <1>1, <1>2
<1>4. (\A q \in Peers : Given(q)') /\ NotYetSent' /\ EveryRequestHandled'
  BY <1>1, <1>2 DEF Given, NotYetSent, EveryRequestHandled
<1> QED BY <1>3, <1>4

(* A frame that is no envelope, sent by p in the exchange of number i.      *)
LEMMA AnswerInv ==
    ASSUME IInv, NEW p \in Peers, NEW i \in IDs,
           NEW body \in {"value", "done", "error"}, NEW st \in BOOLEAN, NEW e \in BOOLEAN,
           Answer(p, i, body, st, e),
           open' \in [Peers -> SUBSET IDs],
           UNCHANGED <<session, isStream, asked, called, handed>>
    PROVE  IInv'
<1> DEFINE n == IF body = "value" THEN SentValues(answered, p, i) + 1 ELSE 0
           f == [id |-> -i, body |-> body, n |-> n, stream |-> st, end |-> e]
<1>1. TypeOK /\ NotYetSent /\ EveryRequestHandled /\ \A q \in Peers : Given(q)
  BY DEF IInv
<1>2. n \in Nat
  BY <1>1, Counts DEF TypeOK
<1>3. Send(p, f) /\ answered' = Log(answered, p, i, f)
  BY DEF Answer
<1> HIDE DEF n
<1>4. f \in Frames /\ f.body # "request"
  BY <1>2, FrameFields, Numbers
<1> HIDE DEF f
<1>5. /\ wire' \in [Peers -> Seq(Frames)]
      /\ wire'[Other(p)] = Append(wire[Other(p)], f)
      /\ wire'[p] = wire[p]
      /\ wire \in [Peers -> Seq(Frames)]
  BY <1>1, <1>3, <1>4, Sent DEF TypeOK
<1>6. answered' \in Histories
  BY <1>1, <1>3, <1>4, Logged DEF TypeOK
<1>7. UNCHANGED <<nextID, pending, incoming, unsent, isStream, asked, called, handed>>
  BY DEF session
<1>8. TypeOK'
  BY <1>1, <1>5, <1>6, <1>7 DEF TypeOK
<1>9. NotYetSent' /\ \A q \in Peers : Given(q)'
  BY <1>1, <1>7 DEF NotYetSent, Given
<1>10. \A q \in Peers, j \in IDs : Envelopes(wire'[q], j) = Envelopes(wire[q], j)
  <2> SUFFICES ASSUME NEW q \in Peers, NEW j \in IDs
               PROVE  Envelopes(wire'[q], j) = Envelopes(wire[q], j)
    OBVIOUS
  <2>1. wire[Other(p)] \in Seq(Frames)
    BY <1>4, <1>5, OtherPeer
  <2>2. Envelopes(Append(wire[Other(p)], f), j) = Envelopes(wire[Other(p)], j)
    BY <1>4, <1>5, <2>1, OtherFrame
  <2> QED BY <1>4, <1>5, <2>2, OtherPeer
<1>11. EveryRequestHandled'
  BY <1>1, <1>7, <1>10, OtherPeer, HandledEverywhere DEF Handled
<1> QED BY <1>8, <1>9, <1>11 DEF IInv

(* Values are no envelopes. *)
LEMMA SendOwnValueInv ==
    ASSUME IInv, NEW p \in Peers, NEW i \in IDs, SendOwnValue(p, i)
    PROVE  IInv'
<1> DEFINE n == SentValues(asked, p, i) + 1
           f == [id |-> i, body |-> "value", n |-> n, stream |-> TRUE, end |-> FALSE]
<1>1. TypeOK /\ NotYetSent /\ EveryRequestHandled /\ \A q \in Peers : Given(q)
  BY DEF IInv
<1>2. n \in Nat
  BY <1>1, Counts DEF TypeOK
<1>3. Send(p, f) /\ asked' = Log(asked, p, i, f) /\ asked[p][i] # <<>>
  BY DEF SendOwnValue
<1>4. UNCHANGED <<nextID, pending, incoming, unsent, open, isStream, answered, called, handed>>
  BY DEF SendOwnValue, session
<1> HIDE DEF n
<1>5. f \in Frames /\ f.body # "request"
  BY <1>2, FrameFields, Numbers
<1> HIDE DEF f
<1>6. /\ wire' \in [Peers -> Seq(Frames)]
      /\ wire'[Other(p)] = Append(wire[Other(p)], f)
      /\ wire'[p] = wire[p]
      /\ wire \in [Peers -> Seq(Frames)]
  BY <1>1, <1>3, <1>5, Sent DEF TypeOK
<1>7. /\ asked' \in Histories
      /\ asked'[p][i] = Append(asked[p][i], f)
      /\ \A q \in Peers, j \in IDs : q # p \/ j # i => asked'[q][j] = asked[q][j]
  BY <1>1, <1>3, <1>5, Logged DEF TypeOK
<1>8. TypeOK'
  BY <1>1, <1>4, <1>6, <1>7 DEF TypeOK
<1>9. asked'[p][i] # <<>>
  <2>1. asked[p][i] \in Seq(Frames)
    BY <1>1 DEF TypeOK, Histories
  <2>2. Append(asked[p][i], f) # <<>>
    BY <2>1, <1>5
  <2> QED BY <1>7, <2>2
<1>10. NotYetSent' /\ \A q \in Peers : Given(q)'
  BY <1>1, <1>3, <1>4, <1>7 DEF NotYetSent, Given
<1>11. \A q \in Peers, j \in IDs : Envelopes(wire'[q], j) = Envelopes(wire[q], j)
  <2> SUFFICES ASSUME NEW q \in Peers, NEW j \in IDs
               PROVE  Envelopes(wire'[q], j) = Envelopes(wire[q], j)
    OBVIOUS
  <2>1. wire[Other(p)] \in Seq(Frames)
    BY <1>5, <1>6, OtherPeer
  <2>2. Envelopes(Append(wire[Other(p)], f), j) = Envelopes(wire[Other(p)], j)
    BY <1>5, <1>6, <2>1, OtherFrame
  <2> QED BY <1>5, <1>6, <2>2, OtherPeer
<1>12. \A q \in Peers, j \in IDs : asked'[q][j] # <<>> <=> asked[q][j] # <<>>
  BY <1>3, <1>7, <1>9
<1>13. EveryRequestHandled'
  BY <1>1, <1>4, <1>11, <1>12, OtherPeer, HandledEverywhere DEF Handled
<1> QED BY <1>8, <1>10, <1>13 DEF IInv

-----------------------------------------------------------------------------
(* Receiving.  The envelope at the head of the wire goes to the handler.    *)

(* A request envelope goes to the handler, whatever numbers collide. *)
LEMMA ReceiveInv ==
    ASSUME IInv, NEW p \in Peers, Receive(p)
    PROVE  IInv'
<1> DEFINE f == Head(wire[p])
           i == Abs(f.id)
<1>1. TypeOK /\ NotYetSent /\ EveryRequestHandled /\ \A q \in Peers : Given(q)
  BY DEF IInv
<1>2. wire[p] \in Seq(Frames) /\ wire[p] # <<>> /\ wire \in [Peers -> Seq(Frames)]
  BY <1>1 DEF Receive, TypeOK
<1>3. /\ f \in Frames /\ f = wire[p][1] /\ 1 \in DOMAIN wire[p]
      /\ i \in IDs /\ f.id \in SignedIDs
  <2>1. Len(wire[p]) \in Nat \ {0} /\ DOMAIN wire[p] = 1 .. Len(wire[p])
    BY <1>2
  <2>2. f = wire[p][1] /\ wire[p][1] \in Frames
    BY <1>2, <2>1
  <2>3. f.id \in SignedIDs
    BY <2>2, FrameFields
  <2>4. i \in IDs
    BY <2>3, Numbers
  <2> QED BY <2>1, <2>2, <2>3, <2>4
<1>4. wire' = [wire EXCEPT ![p] = Tail(wire[p])] /\ Tail(wire[p]) \in Seq(Frames)
  BY <1>2 DEF Receive
<1>5. UNCHANGED <<nextID, unsent, isStream, asked, answered>>
  BY DEF Receive
<1>6. \/ /\ i \in CallbackFor(p, f)
         /\ called' = Log(called, p, i, f)
         /\ pending' = IF Finished(f) THEN [pending EXCEPT ![p] = @ \ {i}] ELSE pending
         /\ UNCHANGED <<incoming, open, handed>>
      \/ /\ CallbackFor(p, f) = {}
         /\ handed' = Log(handed, p, i, f)
         /\ incoming' = [incoming EXCEPT ![p] =
                IF Finished(f) THEN @ \ {i}
                ELSE IF f.body = "request" THEN @ \cup {i} ELSE @]
         /\ open' = IF f.body = "request"
                    THEN [open EXCEPT ![p] = @ \cup {i}] ELSE open
         /\ UNCHANGED <<pending, called>>
  BY DEF Receive
<1> HIDE DEF f, i
<1>7. wire' \in [Peers -> Seq(Frames)]
  BY <1>2, <1>4
<1>8. NotYetSent' /\ \A q \in Peers : Given(q)'
  BY <1>1, <1>5 DEF NotYetSent, Given
<1>9. CASE i \in CallbackFor(p, f)
  <2>1. /\ called' = Log(called, p, i, f)
        /\ pending' = IF Finished(f) THEN [pending EXCEPT ![p] = @ \ {i}] ELSE pending
        /\ UNCHANGED <<incoming, open, handed>>
    BY <1>6, <1>9
  <2>2. f.body # "request"
    BY <1>9 DEF CallbackFor, IsIncomingRequest
  <2>3. called' \in Histories
    BY <1>1, <1>3, <2>1, Logged DEF TypeOK
  <2>4. /\ pending' \in [Peers -> SUBSET IDs]
        /\ \A q \in Peers : pending'[q] \subseteq pending[q]
    BY <1>1, <2>1 DEF TypeOK
  <2>5. TypeOK'
    BY <1>1, <1>5, <1>7, <2>1, <2>3, <2>4 DEF TypeOK
  <2>6. EveryRequestHandled'
    <3> SUFFICES ASSUME NEW q \in Peers, NEW j \in IDs
                 PROVE  Handled(q, j, wire'[Other(q)], handed[Other(q)][j], asked[q][j])
      BY <1>5, <2>1, HandledEverywhere
    <3>1. Handled(q, j, wire[Other(q)], handed[Other(q)][j], asked[q][j])
      BY <1>1, HandledEverywhere
    <3>2. CASE Other(q) # p
      BY <1>4, <3>1, <3>2, OtherPeer
    <3>3. CASE Other(q) = p
      <4>1. wire'[p] = Tail(wire[p])
        BY <1>2, <1>4
      <4>2. 1 \notin Envelopes(wire[p], j)
        BY <1>2, <2>2, Dropped DEF f
      <4>3. /\ \A k \in Envelopes(wire'[p], j) :
                   k \in Nat /\ k + 1 \in Envelopes(wire[p], j)
            /\ \A k \in Envelopes(wire[p], j) :
                   k \in Nat /\ k - 1 \in Envelopes(wire'[p], j)
        BY <1>2, <4>1, <4>2, Dropped
      <4> QED BY <3>1, <3>3, <4>3 DEF Handled, InOnePlace
    <3> QED BY <3>2, <3>3
  <2> QED BY <1>8, <2>5, <2>6 DEF IInv
<1>10. CASE i \notin CallbackFor(p, f)
  <2>1. /\ handed' = Log(handed, p, i, f)
        /\ incoming' = [incoming EXCEPT ![p] =
               IF Finished(f) THEN @ \ {i}
               ELSE IF f.body = "request" THEN @ \cup {i} ELSE @]
        /\ open' = IF f.body = "request"
                   THEN [open EXCEPT ![p] = @ \cup {i}] ELSE open
        /\ UNCHANGED <<pending, called>>
    BY <1>6, <1>10
  <2>2. /\ handed' \in Histories
        /\ handed'[p][i] = Append(handed[p][i], f)
        /\ \A q \in Peers, j \in IDs : q # p \/ j # i => handed'[q][j] = handed[q][j]
        /\ handed[p][i] \in Seq(Frames)
    <3>1. handed \in Histories
      BY <1>1 DEF TypeOK
    <3>2. handed[p][i] \in Seq(Frames)
      BY <1>3, <3>1 DEF Histories
    <3> QED BY <1>3, <2>1, <3>1, <3>2, Logged
  <2>3. incoming' \in [Peers -> SUBSET IDs] /\ open' \in [Peers -> SUBSET IDs]
    BY <1>1, <1>3, <2>1 DEF TypeOK
  <2>4. TypeOK'
    BY <1>1, <1>5, <1>7, <2>1, <2>2, <2>3 DEF TypeOK
  <2>5. EveryRequestHandled'
    <3> SUFFICES ASSUME NEW q \in Peers, NEW j \in IDs
                 PROVE  Handled(q, j, wire'[Other(q)], handed'[Other(q)][j], asked[q][j])
      BY <1>5, HandledEverywhere
    <3>1. Handled(q, j, wire[Other(q)], handed[Other(q)][j], asked[q][j])
      BY <1>1, HandledEverywhere
    <3>2. CASE Other(q) # p
      BY <1>4, <2>2, <3>1, <3>2, OtherPeer
    <3>3. CASE Other(q) = p
      <4>1. wire'[p] = Tail(wire[p])
        BY <1>2, <1>4
      <4>2. /\ \A k \in Envelopes(wire'[p], j) :
                   k \in Nat \ {0} /\ k + 1 \in Envelopes(wire[p], j)
            /\ \A k \in Envelopes(wire[p], j) :
                   k \in Nat /\ (k # 1 => k - 1 \in Envelopes(wire'[p], j))
            /\ 1 \in Envelopes(wire[p], j) <=> f.body = "request" /\ f.id = j
        BY <1>2, <4>1, Dropped DEF f
      <4>3. CASE f.body = "request" /\ f.id = j
        <5>1. i = j
          BY <4>3, Numbers DEF i
        <5>2. Envelopes(wire'[p], j) = {} /\ Envelopes(handed[p][j], j) = {}
          BY <3>1, <3>3, <4>2, <4>3 DEF Handled, InOnePlace
        <5>3. Envelopes(handed'[p][j], j) = {Len(handed[p][j]) + 1}
          <6>1. Envelopes(Append(handed[p][i], f), j) = Envelopes(handed[p][i], j) \cup
                  IF f.body = "request" /\ f.id = j THEN {Len(handed[p][i]) + 1} ELSE {}
            BY <1>3, <2>2, Appended
          <6> QED BY <2>2, <4>3, <5>1, <5>2, <6>1
        <5>4. asked[q][j] # <<>>
          BY <3>1, <3>3, <4>2, <4>3 DEF Handled
        <5> QED BY <3>3, <5>2, <5>3, <5>4 DEF Handled, InOnePlace
      <4>4. CASE f.body # "request" \/ f.id # j
        <5>1. Envelopes(handed'[p][j], j) = Envelopes(handed[p][j], j)
          <6>1. CASE i = j
            <7>1. Envelopes(Append(handed[p][i], f), j) = Envelopes(handed[p][i], j)
              BY <1>3, <2>2, <4>4, OtherFrame
            <7> QED BY <2>2, <6>1, <7>1
          <6>2. CASE i # j
            BY <2>2, <6>2
          <6> QED BY <6>1, <6>2
        <5>2. /\ \A k \in Envelopes(wire'[p], j) :
                     k \in Nat /\ k + 1 \in Envelopes(wire[p], j)
              /\ \A k \in Envelopes(wire[p], j) :
                     k \in Nat /\ k - 1 \in Envelopes(wire'[p], j)
          BY <4>2, <4>4
        <5> QED BY <3>1, <3>3, <5>1, <5>2 DEF Handled, InOnePlace
      <4> QED BY <4>3, <4>4
    <3> QED BY <3>2, <3>3
  <2> QED BY <1>8, <2>4, <2>5 DEF IInv
<1> QED BY <1>9, <1>10

(* Every step keeps IInv, action by action. *)
LEMMA NextInv == IInv /\ [Next]_vars => IInv'
<1> SUFFICES ASSUME IInv, [Next]_vars PROVE IInv'
  OBVIOUS
<1>1. CASE Next
  <2>1. PICK p \in Peers : Request(p) \/ Serve(p) \/ Receive(p)
    BY <1>1 DEF Next
  <2>2. CASE Request(p)
    BY <2>2, RegisterInv, TransmitInv, RequestFailsInv, SendOwnValueInv DEF Request
  <2>3. CASE Serve(p)
    <3>1. PICK i \in IDs : AnswerValue(p, i) \/ AnswerEnd(p, i) \/ AnswerAsync(p, i)
      BY <2>3 DEF Serve
    <3>2. open \in [Peers -> SUBSET IDs]
      BY DEF IInv, TypeOK
    <3>3. CASE AnswerValue(p, i)
      <4>1. /\ Answer(p, i, "value", TRUE, FALSE)
            /\ UNCHANGED <<session, isStream, asked, called, handed>> /\ open' = open
        BY <3>3 DEF AnswerValue
      <4> QED BY <3>2, <4>1, AnswerInv
    <3>4. CASE AnswerEnd(p, i)
      <4>1. PICK body \in {"done", "error"} : Answer(p, i, body, TRUE, TRUE)
        BY <3>4 DEF AnswerEnd
      <4>2. /\ open' \in [Peers -> SUBSET IDs]
            /\ UNCHANGED <<session, isStream, asked, called, handed>>
        BY <3>2, <3>4 DEF AnswerEnd
      <4> QED BY <4>1, <4>2, AnswerInv
    <3>5. CASE AnswerAsync(p, i)
      <4>1. PICK body \in {"value", "error"} : Answer(p, i, body, FALSE, TRUE)
        BY <3>5 DEF AnswerAsync
      <4>2. /\ open' \in [Peers -> SUBSET IDs]
            /\ UNCHANGED <<session, isStream, asked, called, handed>>
        BY <3>2, <3>5 DEF AnswerAsync
      <4> QED BY <4>1, <4>2, AnswerInv
    <3> QED BY <3>1, <3>3, <3>4, <3>5
  <2>4. CASE Receive(p)
    BY <2>4, ReceiveInv
  <2> QED BY <2>1, <2>2, <2>3, <2>4
<1>2. CASE UNCHANGED vars
  BY <1>2 DEF vars, session, history, IInv, TypeOK, NotYetSent, Given, EveryRequestHandled
<1> QED BY <1>1, <1>2

-----------------------------------------------------------------------------
(* The frames of one number on a wire, when only one end uses the number.   *)

(* The places of its frames, in either half. *)
Places(s, i) == {k \in DOMAIN s : Abs(s[k].id) = i}

(* They are all answers, and the one that finishes is the last. *)
Answers(s, i) ==
    \A k \in Places(s, i) :
        /\ s[k].id = -i /\ s[k].body # "request"
        /\ \A l \in Places(s, i) : k < l => ~Finished(s[k])
Unfinished(s, i) == \A k \in Places(s, i) : ~Finished(s[k])

(* They are all of the requester's half; its envelope is among them. *)
Requests(s, i) == \A k \in Places(s, i) : s[k].id = i
Envelope(s, i) == \E k \in Places(s, i) : s[k].body = "request"

(* Places are places. *)
LEMMA PlacesType ==
    ASSUME NEW s \in Seq(Frames), NEW i
    PROVE  /\ Places(s, i) \subseteq 1 .. Len(s)
           /\ Len(s) \in Nat
           /\ Places(s, i) \subseteq Nat \ {0}
           /\ \A k \in Places(s, i) : s[k] \in Frames /\ Abs(s[k].id) = i
<1>1. DOMAIN s = 1 .. Len(s) /\ Len(s) \in Nat /\ \A k \in 1 .. Len(s) : s[k] \in Frames
  OBVIOUS
<1> QED BY <1>1 DEF Places

(* A frame of the number joins the wire. *)
Joined(s, f, i) ==
    /\ Places(Append(s, f), i) = Places(s, i) \cup {Len(s) + 1}
    /\ \A k \in Places(s, i) : Append(s, f)[k] = s[k]
    /\ Append(s, f)[Len(s) + 1] = f

LEMMA OwnAdded ==
    ASSUME NEW s \in Seq(Frames), NEW f \in Frames, NEW i, Abs(f.id) = i
    PROVE  Joined(s, f, i)
<1> DEFINE t == Append(s, f)
<1>1. /\ DOMAIN s = 1 .. Len(s) /\ Len(s) \in Nat
      /\ DOMAIN t = 1 .. (Len(s) + 1)
      /\ \A k \in 1 .. Len(s) : t[k] = s[k]
      /\ t[Len(s) + 1] = f
  OBVIOUS
<1> HIDE DEF t
<1>2. 1 .. (Len(s) + 1) = (1 .. Len(s)) \cup {Len(s) + 1}
  BY <1>1
<1>3. Places(t, i) = Places(s, i) \cup {Len(s) + 1}
  BY <1>1, <1>2 DEF Places
<1>4. \A k \in Places(s, i) : t[k] = s[k]
  BY <1>1 DEF Places
<1> QED BY <1>1, <1>3, <1>4 DEF t, Joined

(* A frame of the number is taken from the wire. *)
LEMMA OwnTaken ==
    ASSUME NEW s \in Seq(Frames), s # <<>>, NEW i, Abs(Head(s).id) = i
    PROVE  /\ 1 \in Places(s, i) /\ s[1] = Head(s)
           /\ \A k \in Places(Tail(s), i) :
                 k + 1 \in Places(s, i) /\ Tail(s)[k] = s[k + 1]
           /\ \A k \in Places(s, i) : k # 1 => k - 1 \in Places(Tail(s), i)
<1> DEFINE t == Tail(s)
<1>1. /\ DOMAIN s = 1 .. Len(s) /\ Len(s) \in Nat \ {0}
      /\ DOMAIN t = 1 .. (Len(s) - 1)
      /\ \A k \in 1 .. (Len(s) - 1) : t[k] = s[k + 1]
      /\ s[1] = Head(s)
  OBVIOUS
<1> HIDE DEF t
<1>2. 1 \in Places(s, i)
  BY <1>1 DEF Places
<1>3. ASSUME NEW k \in Places(t, i) PROVE k + 1 \in Places(s, i) /\ t[k] = s[k + 1]
  BY <1>1 DEF Places
<1>4. ASSUME NEW k \in Places(s, i), k # 1 PROVE k - 1 \in Places(t, i)
  <2>1. k \in 1 .. Len(s) /\ k - 1 \in 1 .. (Len(s) - 1) /\ (k - 1) + 1 = k
    BY <1>1, <1>4 DEF Places
  <2>2. t[k - 1] = s[k]
    BY <1>1, <2>1
  <2> QED BY <1>1, <2>1, <2>2 DEF Places
<1> QED BY <1>1, <1>2, <1>3, <1>4 DEF t

(* The other frames may move up by d places. *)
Moved(s, t, i) ==
    \E d \in {0, 1} :
        /\ \A k \in Places(s, i) : k - d \in Places(t, i) /\ t[k - d] = s[k]
        /\ \A k \in Places(t, i) : k + d \in Places(s, i)

(* Nothing moves a frame on a wire but the frames before it that are taken. *)
LEMMA OthersMove ==
    ASSUME NEW s \in Seq(Frames), NEW i
    PROVE  /\ Moved(s, s, i)
           /\ \A f \in Frames : Abs(f.id) # i => Moved(s, Append(s, f), i)
           /\ s # <<>> /\ Abs(Head(s).id) # i => Moved(s, Tail(s), i)
<1>1. /\ DOMAIN s = 1 .. Len(s) /\ Len(s) \in Nat
      /\ \A k \in Places(s, i) : k \in 1 .. Len(s)
  BY DEF Places
<1>2. Moved(s, s, i)
  <2>1. \A k \in Places(s, i) : k - 0 = k /\ k + 0 = k
    BY <1>1
  <2> QED BY <2>1 DEF Moved
<1>3. ASSUME NEW f \in Frames, Abs(f.id) # i PROVE Moved(s, Append(s, f), i)
  <2> DEFINE t == Append(s, f)
  <2>1. /\ DOMAIN t = 1 .. (Len(s) + 1)
        /\ \A k \in 1 .. Len(s) : t[k] = s[k]
        /\ t[Len(s) + 1] = f
    OBVIOUS
  <2> HIDE DEF t
  <2>2. \A k \in Places(s, i) : k - 0 \in Places(t, i) /\ t[k - 0] = s[k]
    <3>1. \A k \in Places(s, i) : k - 0 = k /\ k \in 1 .. (Len(s) + 1)
      BY <1>1
    <3>2. \A k \in Places(s, i) : t[k] = s[k] /\ Abs(s[k].id) = i
      BY <1>1, <2>1 DEF Places
    <3>3. \A k \in Places(s, i) : k \in Places(t, i)
      BY <2>1, <3>1, <3>2 DEF Places
    <3> QED BY <3>1, <3>2, <3>3
  <2>3. ASSUME NEW k \in Places(t, i) PROVE k + 0 \in Places(s, i)
    <3>1. k \in 1 .. (Len(s) + 1) /\ Abs(t[k].id) = i
      BY <2>1 DEF Places
    <3>2. k # Len(s) + 1
      BY <1>3, <2>1, <3>1
    <3>3. k \in 1 .. Len(s) /\ k + 0 = k
      BY <1>1, <3>1, <3>2
    <3> QED BY <1>1, <2>1, <3>1, <3>3 DEF Places
  <2>4. Moved(s, t, i)
    BY <2>2, <2>3 DEF Moved
  <2> QED BY <2>4 DEF t
<1>4. ASSUME s # <<>>, Abs(Head(s).id) # i PROVE Moved(s, Tail(s), i)
  <2> DEFINE t == Tail(s)
  <2>1. /\ DOMAIN t = 1 .. (Len(s) - 1) /\ Len(s) # 0
        /\ \A k \in 1 .. (Len(s) - 1) : t[k] = s[k + 1]
        /\ s[1] = Head(s)
    BY <1>4
  <2> HIDE DEF t
  <2>2. ASSUME NEW k \in Places(s, i) PROVE k - 1 \in Places(t, i) /\ t[k - 1] = s[k]
    <3>1. k \in 1 .. Len(s) /\ Abs(s[k].id) = i
      BY <1>1 DEF Places
    <3>2. k # 1
      BY <1>4, <2>1, <3>1
    <3>3. k - 1 \in 1 .. (Len(s) - 1) /\ (k - 1) + 1 = k
      BY <1>1, <3>1, <3>2
    <3>4. t[k - 1] = s[k]
      BY <2>1, <3>3
    <3> QED BY <2>1, <3>1, <3>3, <3>4 DEF Places
  <2>3. ASSUME NEW k \in Places(t, i) PROVE k + 1 \in Places(s, i)
    <3>1. k \in 1 .. (Len(s) - 1) /\ Abs(t[k].id) = i
      BY <2>1 DEF Places
    <3>2. k + 1 \in 1 .. Len(s) /\ t[k] = s[k + 1]
      BY <1>1, <2>1, <3>1
    <3> QED BY <1>1, <3>1, <3>2 DEF Places
  <2>4. Moved(s, t, i)
    BY <2>2, <2>3 DEF Moved
  <2> QED BY <2>4 DEF t
<1> QED BY <1>2, <1>3, <1>4

(* What is known of the frames of a number is known of them after a move.   *)
LEMMA MovedKeep ==
    ASSUME NEW s \in Seq(Frames), NEW t \in Seq(Frames), NEW i, Moved(s, t, i)
    PROVE  /\ Answers(s, i) => Answers(t, i)
           /\ Unfinished(s, i) => Unfinished(t, i)
           /\ Requests(s, i) => Requests(t, i)
           /\ Envelope(t, i) => Envelope(s, i)
           /\ Places(t, i) # {} <=> Places(s, i) # {}
           /\ \A c, sent \in Seq(Frames) :
                 Delivered(c, s, Places(s, i), sent) => Delivered(c, t, Places(t, i), sent)
<1>1. PICK d \in {0, 1} :
        /\ \A k \in Places(s, i) : k - d \in Places(t, i) /\ t[k - d] = s[k]
        /\ \A k \in Places(t, i) : k + d \in Places(s, i)
  BY DEF Moved
<1>2. Places(s, i) \subseteq Nat \ {0} /\ Places(t, i) \subseteq Nat \ {0}
  BY PlacesType
<1>3. \A k \in Places(t, i) : t[k] = s[k + d] /\ k + d \in Places(s, i)
  <2>1. \A k \in Places(t, i) : (k + d) - d = k
    BY <1>2
  <2> QED BY <1>1, <2>1
<1>4. \A k, l \in Places(t, i) : k < l => k + d < l + d
  BY <1>2
<1>5. Answers(s, i) => Answers(t, i)
  BY <1>3, <1>4 DEF Answers
<1>6. Unfinished(s, i) => Unfinished(t, i)
  BY <1>3 DEF Unfinished
<1>7. Requests(s, i) => Requests(t, i)
  BY <1>3 DEF Requests
<1>8. Envelope(t, i) => Envelope(s, i)
  BY <1>3 DEF Envelope
<1>9. Places(t, i) # {} <=> Places(s, i) # {}
  BY <1>1, <1>3
<1>10. ASSUME NEW c \in Seq(Frames), NEW sent \in Seq(Frames),
              Delivered(c, s, Places(s, i), sent)
       PROVE  Delivered(c, t, Places(t, i), sent)
  <2> DEFINE rest == Len(c) + 1 .. Len(sent)
  <2>1. PICK at \in [rest -> Places(s, i)] :
          /\ \A l \in Places(s, i) : \E k \in DOMAIN at : at[k] = l
          /\ \A k, l \in DOMAIN at : k < l => at[k] < at[l]
          /\ \A k \in DOMAIN at : s[at[k]] = sent[k]
    BY <1>10 DEF Delivered
  <2> HIDE DEF rest
  <2> DEFINE to == [k \in rest |-> at[k] - d]
  <2>2. DOMAIN at = rest /\ DOMAIN to = rest
    BY <2>1
  <2>3. to \in [rest -> Places(t, i)]
    BY <1>1, <2>1
  <2>4. \A l \in Places(t, i) : \E k \in rest : to[k] = l
    <3> SUFFICES ASSUME NEW l \in Places(t, i) PROVE \E k \in rest : to[k] = l
      OBVIOUS
    <3>1. PICK k \in rest : at[k] = l + d
      BY <1>3, <2>1, <2>2
    <3>2. (l + d) - d = l
      BY <1>2
    <3> QED BY <3>1, <3>2
  <2>5. \A k, l \in rest : k < l => to[k] < to[l]
    <3> SUFFICES ASSUME NEW k \in rest, NEW l \in rest, k < l PROVE to[k] < to[l]
      OBVIOUS
    <3>1. at[k] < at[l] /\ at[k] \in Nat /\ at[l] \in Nat
      BY <1>2, <2>1, <2>2
    <3> QED BY <3>1
  <2>6. \A k \in rest : t[to[k]] = sent[k]
    BY <1>1, <2>1, <2>2
  <2> HIDE DEF to
  <2>7. \E at2 \in [rest -> Places(t, i)] :
          /\ \A l \in Places(t, i) : \E k \in DOMAIN at2 : at2[k] = l
          /\ \A k, l \in DOMAIN at2 : k < l => at2[k] < at2[l]
          /\ \A k \in DOMAIN at2 : t[at2[k]] = sent[k]
    BY <2>2, <2>3, <2>4, <2>5, <2>6
  <2> QED BY <1>10, <2>7 DEF Delivered, rest
<1> QED BY <1>5, <1>6, <1>7, <1>8, <1>9, <1>10

(* A frame that is sent and logged is still to be delivered. *)
LEMMA SentLater ==
    ASSUME NEW s \in Seq(Frames), NEW f \in Frames, NEW i, Abs(f.id) = i,
           NEW c \in Seq(Frames), NEW sent \in Seq(Frames),
           Delivered(c, s, Places(s, i), sent)
    PROVE  Delivered(c, Append(s, f), Places(Append(s, f), i), Append(sent, f))
<1>0. Joined(s, f, i)
  BY OwnAdded
<1> DEFINE t == Append(s, f)
           more == Append(sent, f)
           old == Len(c) + 1 .. Len(sent)
           new == Len(c) + 1 .. Len(more)
<1>1. /\ Places(t, i) = Places(s, i) \cup {Len(s) + 1}
      /\ \A k \in Places(s, i) : t[k] = s[k]
      /\ t[Len(s) + 1] = f
  BY <1>0 DEF Joined
<1>2. /\ Len(more) = Len(sent) + 1 /\ Len(sent) \in Nat /\ Len(c) \in Nat
      /\ DOMAIN c = 1 .. Len(c)
      /\ \A k \in 1 .. Len(sent) : more[k] = sent[k]
      /\ more[Len(sent) + 1] = f
  OBVIOUS
<1>3. /\ Len(c) <= Len(sent)
      /\ \A k \in DOMAIN c : c[k] = sent[k]
  BY DEF Delivered
<1>4. PICK at \in [old -> Places(s, i)] :
        /\ \A l \in Places(s, i) : \E k \in DOMAIN at : at[k] = l
        /\ \A k, l \in DOMAIN at : k < l => at[k] < at[l]
        /\ \A k \in DOMAIN at : s[at[k]] = sent[k]
  BY DEF Delivered
<1>5. Places(s, i) \subseteq 1 .. Len(s) /\ Len(s) \in Nat
  BY PlacesType
<1> HIDE DEF t, more
<1>6. /\ new = old \cup {Len(sent) + 1}
      /\ \A k \in old : k \in 1 .. Len(sent) /\ k # Len(sent) + 1
  BY <1>2, <1>3
<1>7. DOMAIN at = old
  BY <1>4
<1> HIDE DEF old, new
<1> DEFINE to == [k \in new |-> IF k = Len(sent) + 1 THEN Len(s) + 1 ELSE at[k]]
<1>8. /\ \A k \in old : to[k] = at[k] /\ at[k] \in Places(s, i)
      /\ to[Len(sent) + 1] = Len(s) + 1
      /\ DOMAIN to = new
  BY <1>4, <1>6
<1>9. to \in [new -> Places(t, i)]
  <2>1. \A k \in new : to[k] \in Places(t, i)
    BY <1>1, <1>6, <1>8
  <2> QED BY <2>1
<1> HIDE DEF to
<1>10. \A l \in Places(t, i) : \E k \in new : to[k] = l
  BY <1>1, <1>4, <1>6, <1>7, <1>8
<1>11. \A k, l \in new : k < l => to[k] < to[l]
  <2> SUFFICES ASSUME NEW k \in new, NEW l \in new, k < l PROVE to[k] < to[l]
    OBVIOUS
  <2>1. k # Len(sent) + 1
    <3>1. l \in 1 .. Len(sent) \/ l = Len(sent) + 1
      BY <1>6
    <3> QED BY <1>2, <3>1
  <2>2. k \in old /\ to[k] = at[k] /\ at[k] \in 1 .. Len(s)
    BY <1>5, <1>6, <1>8, <2>1
  <2>3. CASE l = Len(sent) + 1
    BY <1>5, <1>8, <2>2, <2>3
  <2>4. CASE l \in old
    BY <1>4, <1>7, <1>8, <2>2, <2>4
  <2> QED BY <1>6, <2>3, <2>4
<1>12. \A k \in new : t[to[k]] = more[k]
  <2>1. \A k \in old : t[to[k]] = sent[k] /\ more[k] = sent[k]
    BY <1>1, <1>2, <1>4, <1>6, <1>7, <1>8
  <2>2. t[to[Len(sent) + 1]] = more[Len(sent) + 1]
    BY <1>1, <1>2, <1>8
  <2> QED BY <1>6, <2>1, <2>2
<1>13. Len(c) <= Len(more) /\ \A k \in DOMAIN c : c[k] = more[k]
  BY <1>2, <1>3
<1>14. \E at2 \in [new -> Places(t, i)] :
         /\ \A l \in Places(t, i) : \E k \in DOMAIN at2 : at2[k] = l
         /\ \A k, l \in DOMAIN at2 : k < l => at2[k] < at2[l]
         /\ \A k \in DOMAIN at2 : t[at2[k]] = more[k]
  BY <1>8, <1>9, <1>10, <1>11, <1>12
<1> QED BY <1>13, <1>14 DEF Delivered, t, more, new

(* The first frame of a number on a wire is the next to be delivered. *)
LEMMA GivenNext ==
    ASSUME NEW s \in Seq(Frames), s # <<>>, NEW i, Abs(Head(s).id) = i,
           NEW c \in Seq(Frames), NEW sent \in Seq(Frames),
           Delivered(c, s, Places(s, i), sent)
    PROVE  Delivered(Append(c, Head(s)), Tail(s), Places(Tail(s), i), sent)
<1> DEFINE t == Tail(s)
           more == Append(c, Head(s))
           n == Len(c) + 1
           old == Len(c) + 1 .. Len(sent)
           new == Len(more) + 1 .. Len(sent)
<1>1. /\ 1 \in Places(s, i) /\ s[1] = Head(s)
      /\ \A k \in Places(t, i) : k + 1 \in Places(s, i) /\ t[k] = s[k + 1]
      /\ \A k \in Places(s, i) : k # 1 => k - 1 \in Places(t, i)
  BY OwnTaken
<1>2. /\ Head(s) \in Frames /\ more \in Seq(Frames)
      /\ Len(more) = n /\ Len(sent) \in Nat /\ Len(c) \in Nat
      /\ DOMAIN c = 1 .. Len(c) /\ DOMAIN more = 1 .. n
      /\ \A k \in 1 .. Len(c) : more[k] = c[k]
      /\ more[n] = Head(s)
  <2>1. Head(s) \in Frames
    OBVIOUS
  <2> QED BY <2>1
<1>3. /\ Len(c) <= Len(sent)
      /\ \A k \in DOMAIN c : c[k] = sent[k]
  BY DEF Delivered
<1>4. PICK at \in [old -> Places(s, i)] :
        /\ \A l \in Places(s, i) : \E k \in DOMAIN at : at[k] = l
        /\ \A k, l \in DOMAIN at : k < l => at[k] < at[l]
        /\ \A k \in DOMAIN at : s[at[k]] = sent[k]
  BY DEF Delivered
<1>5. Places(s, i) \subseteq Nat \ {0} /\ Places(t, i) \subseteq Nat \ {0}
  <2>1. t \in Seq(Frames)
    OBVIOUS
  <2> QED BY <2>1, PlacesType
<1> HIDE DEF t, more
<1>6. DOMAIN at = old
  BY <1>4
<1>7. PICK m \in old : at[m] = 1
  BY <1>1, <1>4, <1>6
<1>8. n \in old /\ n \in Nat /\ n <= m
  BY <1>2, <1>3
<1>9. n = m
  <2> SUFFICES ASSUME n < m PROVE FALSE
    <3>1. m \in Nat
      BY <1>2
    <3> QED BY <3>1, <1>8
  <2>1. at[n] < at[m]
    BY <1>4, <1>6, <1>8
  <2>2. at[n] \in Nat \ {0}
    BY <1>4, <1>5, <1>8
  <2> QED BY <1>7, <2>1, <2>2
<1>10. sent[n] = Head(s) /\ n <= Len(sent)
  <2>1. s[at[n]] = sent[n]
    BY <1>4, <1>6, <1>8
  <2>2. n <= Len(sent)
    BY <1>2, <1>8
  <2> QED BY <1>1, <1>7, <1>9, <2>1, <2>2
<1>11. /\ old = new \cup {n}
       /\ \A k \in new : k \in old /\ n < k
  BY <1>2, <1>10
<1>12. \A k \in new : at[k] \in Places(s, i) /\ at[k] \in Nat /\ at[k] > 1
  <2>1. \A k \in new : at[n] < at[k] /\ at[k] \in Places(s, i)
    BY <1>4, <1>6, <1>8, <1>11
  <2> QED BY <1>5, <1>7, <1>9, <2>1
<1>13. Len(more) <= Len(sent) /\ \A k \in DOMAIN more : more[k] = sent[k]
  <2>1. \A k \in 1 .. n : k \in 1 .. Len(c) \/ k = n
    BY <1>2
  <2> QED BY <1>2, <1>3, <1>10, <2>1
<1> HIDE DEF old, new, n
<1> DEFINE to == [k \in new |-> at[k] - 1]
<1>14. to \in [new -> Places(t, i)] /\ DOMAIN to = new
  <2>1. \A k \in new : at[k] - 1 \in Places(t, i)
    BY <1>1, <1>12
  <2> QED BY <2>1
<1>15. \A l \in Places(t, i) : \E k \in new : to[k] = l
  <2> SUFFICES ASSUME NEW l \in Places(t, i) PROVE \E k \in new : to[k] = l
    OBVIOUS
  <2>1. l \in Nat \ {0}
    BY <1>5
  <2>2. PICK k \in old : at[k] = l + 1
    BY <1>1, <1>4, <1>6
  <2>3. k # n
    BY <1>7, <1>9, <2>1, <2>2
  <2>4. k \in new /\ (l + 1) - 1 = l
    BY <1>11, <2>1, <2>3
  <2> QED BY <2>2, <2>4
<1>16. \A k, l \in new : k < l => to[k] < to[l]
  <2> SUFFICES ASSUME NEW k \in new, NEW l \in new, k < l PROVE to[k] < to[l]
    OBVIOUS
  <2>1. at[k] < at[l] /\ at[k] \in Nat /\ at[l] \in Nat
    BY <1>4, <1>6, <1>11, <1>12
  <2> QED BY <2>1
<1>17. \A k \in new : t[to[k]] = sent[k]
  <2> SUFFICES ASSUME NEW k \in new PROVE t[at[k] - 1] = sent[k]
    OBVIOUS
  <2>1. at[k] - 1 \in Places(t, i) /\ (at[k] - 1) + 1 = at[k]
    BY <1>1, <1>12
  <2>2. t[at[k] - 1] = s[at[k]]
    BY <1>1, <2>1
  <2> QED BY <1>4, <1>6, <1>11, <2>2
<1> HIDE DEF to
<1>18. \E at2 \in [new -> Places(t, i)] :
         /\ \A l \in Places(t, i) : \E k \in DOMAIN at2 : at2[k] = l
         /\ \A k, l \in DOMAIN at2 : k < l => at2[k] < at2[l]
         /\ \A k \in DOMAIN at2 : t[at2[k]] = sent[k]
  BY <1>14, <1>15, <1>16, <1>17
<1> QED BY <1>13, <1>18 DEF Delivered, t, more, new

-----------------------------------------------------------------------------
(* A number that the other end has not used.                                *)

(* Its end is handed nothing under it.  A callback waits for whatever the   *)
(* answerer has sent or still may send, and is told of the end last.  The   *)
(* answerer sends nothing before the envelope has arrived.                  *)
Owned(p, o, i) ==
    /\ i \notin incoming[p] /\ i \notin open[p]
    /\ Answers(wire[p], i) /\ Requests(wire[o], i)
    /\ Places(wire[p], i) # {} => i \in pending[p]
    /\ i \in open[o] => i \in pending[p] /\ Unfinished(wire[p], i)
    /\ i \in unsent[p] \/ Envelope(wire[o], i) =>
          i \in pending[p] /\ i \notin open[o] /\ Places(wire[p], i) = {}
    /\ Delivered(called[p][i], wire[p], Places(wire[p], i), answered[o][i])
    /\ Delivered(handed[o][i], wire[o], Places(wire[o], i), asked[p][i])

OwnedInv == \A p \in Peers : \A i \in IDs : i >= nextID[Other(p)] => Owned(p, Other(p), i)

Typed(p, i) ==
    /\ wire[p] \in Seq(Frames)
    /\ called[p][i] \in Seq(Frames) /\ answered[p][i] \in Seq(Frames)
    /\ handed[p][i] \in Seq(Frames) /\ asked[p][i] \in Seq(Frames)

(* Wires and histories are sequences of frames. *)
LEMMA TypesOf ==
    ASSUME NEW p \in Peers, NEW i \in IDs
    PROVE  (TypeOK => Typed(p, i)) /\ (TypeOK' => Typed(p, i)')
<1>1. ASSUME TypeOK PROVE Typed(p, i)
  BY <1>1 DEF TypeOK, Histories, Typed
<1>2. ASSUME TypeOK' PROVE Typed(p, i)'
  BY <1>2 DEF TypeOK, Histories, Typed
<1> QED BY <1>1, <1>2

(* A step that sends, receives and registers nothing of a number keeps what *)
(* is known of it.                                                          *)
LEMMA OtherNumber ==
    ASSUME TypeOK, TypeOK', NEW p \in Peers, NEW o \in Peers, NEW i \in IDs,
           Owned(p, o, i),
           \A q \in Peers : Moved(wire[q], wire'[q], i),
           i \notin incoming'[p] \/ i \in incoming[p],
           \A q \in Peers : i \in open'[q] => i \in open[q],
           i \in pending[p] => i \in pending'[p],
           i \in unsent'[p] => i \in unsent[p],
           \A q \in Peers : /\ called'[q][i] = called[q][i]
                            /\ answered'[q][i] = answered[q][i]
                            /\ handed'[q][i] = handed[q][i]
                            /\ asked'[q][i] = asked[q][i]
    PROVE  Owned(p, o, i)'
<1>1. o \in Peers
  OBVIOUS
<1>2. Typed(p, i) /\ Typed(o, i) /\ Typed(p, i)' /\ Typed(o, i)'
  BY TypesOf
<1>3. /\ i \notin incoming[p] /\ i \notin open[p]
      /\ Answers(wire[p], i) /\ Requests(wire[o], i)
      /\ Places(wire[p], i) # {} => i \in pending[p]
      /\ i \in open[o] => i \in pending[p] /\ Unfinished(wire[p], i)
      /\ i \in unsent[p] \/ Envelope(wire[o], i) =>
            i \in pending[p] /\ i \notin open[o] /\ Places(wire[p], i) = {}
      /\ Delivered(called[p][i], wire[p], Places(wire[p], i), answered[o][i])
      /\ Delivered(handed[o][i], wire[o], Places(wire[o], i), asked[p][i])
  BY DEF Owned
<1>4. /\ Answers(wire[p], i) => Answers(wire'[p], i)
      /\ Unfinished(wire[p], i) => Unfinished(wire'[p], i)
      /\ Places(wire'[p], i) # {} <=> Places(wire[p], i) # {}
      /\ \A c, sent \in Seq(Frames) :
            Delivered(c, wire[p], Places(wire[p], i), sent) =>
               Delivered(c, wire'[p], Places(wire'[p], i), sent)
  <2>1. wire[p] \in Seq(Frames) /\ wire'[p] \in Seq(Frames)
    BY <1>2 DEF Typed
  <2> QED BY <2>1, MovedKeep
<1>5. /\ Requests(wire[o], i) => Requests(wire'[o], i)
      /\ Envelope(wire'[o], i) => Envelope(wire[o], i)
      /\ \A c, sent \in Seq(Frames) :
            Delivered(c, wire[o], Places(wire[o], i), sent) =>
               Delivered(c, wire'[o], Places(wire'[o], i), sent)
  <2>1. wire[o] \in Seq(Frames) /\ wire'[o] \in Seq(Frames)
    BY <1>2 DEF Typed
  <2> QED BY <1>1, <2>1, MovedKeep
<1>6. Delivered(called'[p][i], wire'[p], Places(wire'[p], i), answered'[o][i])
  <2>1. /\ called'[p][i] = called[p][i] /\ answered'[o][i] = answered[o][i]
        /\ called[p][i] \in Seq(Frames) /\ answered[o][i] \in Seq(Frames)
    BY <1>1, <1>2 DEF Typed
  <2>2. Delivered(called[p][i], wire[p], Places(wire[p], i), answered[o][i])
    BY <1>3
  <2> QED BY <1>4, <2>1, <2>2
<1>7. Delivered(handed'[o][i], wire'[o], Places(wire'[o], i), asked'[p][i])
  <2>1. /\ handed'[o][i] = handed[o][i] /\ asked'[p][i] = asked[p][i]
        /\ handed[o][i] \in Seq(Frames) /\ asked[p][i] \in Seq(Frames)
    BY <1>1, <1>2 DEF Typed
  <2>2. Delivered(handed[o][i], wire[o], Places(wire[o], i), asked[p][i])
    BY <1>3
  <2> QED BY <1>5, <2>1, <2>2
<1>8. /\ i \in open'[p] => i \in open[p]
      /\ i \in open'[o] => i \in open[o]
  BY <1>1
<1>9. /\ i \notin incoming'[p] /\ i \notin open'[p]
      /\ Answers(wire'[p], i) /\ Requests(wire'[o], i)
      /\ Places(wire'[p], i) # {} => i \in pending'[p]
      /\ i \in open'[o] => i \in pending'[p] /\ Unfinished(wire'[p], i)
      /\ i \in unsent'[p] \/ Envelope(wire'[o], i) =>
            i \in pending'[p] /\ i \notin open'[o] /\ Places(wire'[p], i) = {}
  BY <1>3, <1>4, <1>5, <1>8, Zenon
<1> QED BY <1>6, <1>7, <1>9 DEF Owned

(* What is sent under other numbers, and an untouched wire, move nothing. *)
LEMMA SendMoves ==
    ASSUME wire \in [Peers -> Seq(Frames)], NEW a \in Peers, NEW f \in Frames, NEW i,
           Send(a, f), Abs(f.id) # i
    PROVE  \A q \in Peers : Moved(wire[q], wire'[q], i)
<1>1. /\ wire'[Other(a)] = Append(wire[Other(a)], f) /\ wire'[a] = wire[a]
      /\ wire[Other(a)] \in Seq(Frames) /\ wire[a] \in Seq(Frames)
  BY Sent, OtherPeer
<1>2. Moved(wire[Other(a)], Append(wire[Other(a)], f), i) /\ Moved(wire[a], wire[a], i)
  BY <1>1, OthersMove
<1> QED BY <1>1, <1>2, OtherPeer

LEMMA SilentMoves ==
    ASSUME wire \in [Peers -> Seq(Frames)], NEW i, UNCHANGED wire
    PROVE  \A q \in Peers : Moved(wire[q], wire'[q], i)
BY OthersMove

Ends(p, o) ==
    /\ o = Other(p) /\ p = Other(o) /\ o # p
    /\ \A q \in Peers : q = p \/ q = o

(* What the other end has not done under a number it has not given out.     *)
LEMMA NotUsed ==
    ASSUME IInv, NEW p \in Peers, NEW o \in Peers, NEW i \in IDs, i >= nextID[o]
    PROVE  i \notin pending[o] /\ i \notin unsent[o] /\ asked[o][i] = <<>>
<1>1. TypeOK /\ NotYetSent /\ Given(o)
  BY DEF IInv
<1>2. i \in Nat /\ nextID[o] \in Nat
  BY <1>1, Numbers DEF TypeOK
<1>3. \A j \in pending[o] \cup unsent[o] : j < nextID[o]
  BY <1>1 DEF TypeOK, Given
<1> QED BY <1>1, <1>2, <1>3 DEF NotYetSent

(* A history that has grown by one frame. *)
Grown(h, g, a, j, f) ==
    /\ g[a][j] = Append(h[a][j], f)
    /\ \A q \in Peers, k \in IDs : q # a \/ k # j => g[q][k] = h[q][k]

LEMMA LogGrows ==
    ASSUME NEW h \in Histories, NEW a \in Peers, NEW j \in IDs, NEW f \in Frames
    PROVE  Grown(h, Log(h, a, j, f), a, j, f)
BY Logged DEF Grown

(* The envelopes among the frames of one half. *)
LEMMA EnvelopeIs ==
    ASSUME NEW s, NEW i \in IDs, Requests(s, i)
    PROVE  /\ Envelope(s, i) => Envelopes(s, i) # {}
           /\ \A k \in Places(s, i) : s[k].body = "request" => k \in Envelopes(s, i)
BY DEF Envelope, Envelopes, Requests, Places

(* A number that is given out: nothing is known of it anywhere. *)
LEMMA OwnedRegister ==
    ASSUME IInv, IInv', NEW a \in Peers, Register(a),
           NEW p \in Peers, NEW o \in Peers, Ends(p, o), NEW i \in IDs,
           i >= nextID'[o], Owned(p, o, i)
    PROVE  Owned(p, o, i)'
<1> DEFINE n == nextID[a]
<1>1. TypeOK /\ TypeOK'
  BY DEF IInv
<1>2. /\ nextID[a] \in Nat \ {0} /\ i \in Nat
      /\ nextID'[a] = n + 1
      /\ pending' = [pending EXCEPT ![a] = pending[a] \cup {n}]
      /\ unsent' = [unsent EXCEPT ![a] = unsent[a] \cup {n}]
      /\ pending \in [Peers -> SUBSET IDs] /\ unsent \in [Peers -> SUBSET IDs]
  BY <1>1, Numbers DEF Register, TypeOK
<1>3. UNCHANGED <<incoming, wire, open, asked, answered, called, handed>>
  BY DEF Register
<1>4. \A q \in Peers : Moved(wire[q], wire'[q], i)
  BY <1>1, <1>3, SilentMoves DEF TypeOK
<1> HIDE DEF n
<1>5. i \in pending[p] => i \in pending'[p]
  BY <1>2
<1>6. CASE i \in unsent'[p] => i \in unsent[p]
  BY <1>1, <1>3, <1>4, <1>5, <1>6, OtherNumber
<1>7. CASE ~(i \in unsent'[p] => i \in unsent[p])
  <2>1. a = p /\ i = n /\ i \in pending'[p]
    BY <1>2, <1>7
  <2>2. i \notin pending[p]
    <3>1. \A j \in pending[p] : j < nextID[p]
      BY <1>1 DEF TypeOK
    <3> QED BY <1>2, <2>1, <3>1 DEF n
  <2>3. Places(wire[p], i) = {} /\ i \notin open[o]
    BY <2>2 DEF Owned
  <2> QED BY <1>3, <2>1, <2>3 DEF Owned
<1> QED BY <1>6, <1>7

(* The envelope leaves; its callback waits and nothing answers it yet. *)
LEMMA OwnedTransmit ==
    ASSUME IInv, IInv', NEW a \in Peers, NEW j \in IDs, Transmit(a, j),
           NEW p \in Peers, NEW o \in Peers, Ends(p, o), NEW i \in IDs,
           i >= nextID[o], Owned(p, o, i)
    PROVE  Owned(p, o, i)'
<1> DEFINE f == [id |-> j, body |-> "request", n |-> 0,
                 stream |-> isStream[a][j], end |-> FALSE]
<1>1. TypeOK /\ TypeOK' /\ wire \in [Peers -> Seq(Frames)] /\ asked \in Histories
  BY DEF IInv, TypeOK
<1>2. f \in Frames /\ f.id = j /\ Abs(f.id) = j
  <2>1. isStream[a][j] \in BOOLEAN /\ j \in SignedIDs /\ Abs(j) = j
    BY <1>1, Numbers DEF TypeOK
  <2> QED BY <2>1, FrameFields
<1>3. Send(a, f) /\ asked' = Log(asked, a, j, f) /\ j \in unsent[a]
  BY DEF Transmit
<1>4. UNCHANGED <<nextID, pending, incoming, open, isStream, answered, called, handed>>
  BY DEF Transmit
<1>5. \A q \in Peers : unsent'[q] \subseteq unsent[q]
  BY <1>1 DEF Transmit, TypeOK
<1> HIDE DEF f
<1>6. /\ asked'[a][j] = Append(asked[a][j], f)
      /\ \A q \in Peers, k \in IDs : q # a \/ k # j => asked'[q][k] = asked[q][k]
  <2>1. Grown(asked, asked', a, j, f)
    BY <1>1, <1>2, <1>3, LogGrows
  <2> QED BY <2>1 DEF Grown
<1>7. CASE i # j
  <2>1. \A q \in Peers : Moved(wire[q], wire'[q], i)
    BY <1>1, <1>2, <1>3, <1>7, SendMoves
  <2> QED BY <1>1, <1>4, <1>5, <1>6, <1>7, <2>1, OtherNumber
<1>8. CASE i = j
  <2>1. a = p
    BY <1>3, <1>8, NotUsed DEF Ends
  <2>2. /\ wire'[o] = Append(wire[o], f) /\ wire'[p] = wire[p]
        /\ wire[o] \in Seq(Frames)
    BY <1>1, <1>2, <1>3, <2>1, Sent DEF Ends
  <2>3. i \in pending[p] /\ i \notin open[o] /\ Places(wire[p], i) = {}
    BY <1>3, <1>8, <2>1 DEF Owned
  <2>4. Joined(wire[o], f, i)
    BY <1>2, <1>8, <2>2, OwnAdded
  <2>5. Requests(wire'[o], i)
    BY <1>2, <1>8, <2>2, <2>4 DEF Owned, Requests, Joined
  <2>6. Delivered(handed[o][i], wire'[o], Places(wire'[o], i), asked'[p][i])
    <3>1. handed[o][i] \in Seq(Frames) /\ asked[p][i] \in Seq(Frames)
      BY <1>1, TypesOf DEF Typed
    <3>2. Delivered(handed[o][i], wire[o], Places(wire[o], i), asked[p][i])
      BY DEF Owned
    <3>3. asked'[p][i] = Append(asked[p][i], f) /\ Abs(f.id) = i
      BY <1>2, <1>6, <1>8, <2>1
    <3> QED BY <1>2, <2>2, <3>1, <3>2, <3>3, SentLater
  <2> QED BY <1>4, <2>2, <2>3, <2>5, <2>6 DEF Owned
<1> QED BY <1>7, <1>8

(* A request that is taken back was never sent. *)
LEMMA OwnedRequestFails ==
    ASSUME IInv, IInv', NEW a \in Peers, NEW j \in IDs, RequestFails(a, j),
           NEW p \in Peers, NEW o \in Peers, Ends(p, o), NEW i \in IDs,
           i >= nextID[o], Owned(p, o, i)
    PROVE  Owned(p, o, i)'
<1>1. TypeOK /\ TypeOK' /\ wire \in [Peers -> Seq(Frames)]
  BY DEF IInv, TypeOK
<1>2. UNCHANGED <<nextID, incoming, wire, open, isStream, asked, answered, called, handed>>
  BY DEF RequestFails, history
<1>3. /\ j \in unsent[a]
      /\ \A q \in Peers : unsent'[q] = IF q = a THEN unsent[q] \ {j} ELSE unsent[q]
      /\ \A q \in Peers : pending'[q] = IF q = a THEN pending[q] \ {j} ELSE pending[q]
  BY <1>1 DEF RequestFails, TypeOK
<1>4. \A q \in Peers : Moved(wire[q], wire'[q], i)
  BY <1>1, <1>2, SilentMoves
<1>5. CASE i # j
  BY <1>1, <1>2, <1>3, <1>4, <1>5, OtherNumber
<1>6. CASE i = j
  <2>1. a = p
    BY <1>3, <1>6, NotUsed DEF Ends
  <2>2. Places(wire[p], i) = {} /\ i \notin open[o] /\ i \notin unsent'[p]
    BY <1>3, <1>6, <2>1 DEF Owned
  <2>3. ~Envelope(wire[o], i)
    <3>1. asked[p][i] = <<>>
      BY <1>3, <1>6, <2>1 DEF IInv, NotYetSent
    <3>2. Envelopes(wire[o], i) = {}
      BY <3>1 DEF IInv, EveryRequestHandled, Ends
    <3> QED BY <3>2, EnvelopeIs DEF Owned
  <2> QED BY <1>2, <2>2, <2>3 DEF Owned
<1> QED BY <1>5, <1>6

(* The requester's values follow its envelope. *)
LEMMA OwnedSendOwnValue ==
    ASSUME IInv, IInv', NEW a \in Peers, NEW j \in IDs, SendOwnValue(a, j),
           NEW p \in Peers, NEW o \in Peers, Ends(p, o), NEW i \in IDs,
           i >= nextID[o], Owned(p, o, i)
    PROVE  Owned(p, o, i)'
<1> DEFINE n == SentValues(asked, a, j) + 1
           f == [id |-> j, body |-> "value", n |-> n, stream |-> TRUE, end |-> FALSE]
<1>1. TypeOK /\ TypeOK' /\ wire \in [Peers -> Seq(Frames)] /\ asked \in Histories
  BY DEF IInv, TypeOK
<1>2. n \in Nat
  BY <1>1, Counts
<1>3. Send(a, f) /\ asked' = Log(asked, a, j, f) /\ asked[a][j] # <<>>
  BY DEF SendOwnValue
<1>4. UNCHANGED <<nextID, pending, incoming, unsent, open, isStream, answered, called, handed>>
  BY DEF SendOwnValue, session
<1> HIDE DEF n
<1>5. f \in Frames /\ f.id = j /\ Abs(f.id) = j /\ f.body # "request"
  BY <1>2, FrameFields, Numbers
<1> HIDE DEF f
<1>6. /\ asked'[a][j] = Append(asked[a][j], f)
      /\ \A q \in Peers, k \in IDs : q # a \/ k # j => asked'[q][k] = asked[q][k]
  <2>1. Grown(asked, asked', a, j, f)
    BY <1>1, <1>3, <1>5, LogGrows
  <2> QED BY <2>1 DEF Grown
<1>7. CASE i # j
  <2>1. \A q \in Peers : Moved(wire[q], wire'[q], i)
    BY <1>1, <1>3, <1>5, <1>7, SendMoves
  <2> QED BY <1>1, <1>4, <1>6, <1>7, <2>1, OtherNumber
<1>8. CASE i = j
  <2>1. a = p
    BY <1>3, <1>8, NotUsed DEF Ends
  <2>2. /\ wire'[o] = Append(wire[o], f) /\ wire'[p] = wire[p]
        /\ wire[o] \in Seq(Frames)
    BY <1>1, <1>3, <1>5, <2>1, Sent DEF Ends
  <2>3. Joined(wire[o], f, i)
    BY <1>5, <1>8, <2>2, OwnAdded
  <2>4. Requests(wire'[o], i)
    BY <1>5, <1>8, <2>2, <2>3 DEF Owned, Requests, Joined
  <2>5. Envelope(wire'[o], i) => Envelope(wire[o], i)
    BY <1>5, <2>2, <2>3 DEF Envelope, Joined
  <2>6. Delivered(handed[o][i], wire'[o], Places(wire'[o], i), asked'[p][i])
    <3>1. handed[o][i] \in Seq(Frames) /\ asked[p][i] \in Seq(Frames)
      BY <1>1, TypesOf DEF Typed
    <3>2. Delivered(handed[o][i], wire[o], Places(wire[o], i), asked[p][i])
      BY DEF Owned
    <3>3. asked'[p][i] = Append(asked[p][i], f) /\ Abs(f.id) = i
      BY <1>5, <1>6, <1>8, <2>1
    <3> QED BY <1>5, <2>2, <3>1, <3>2, <3>3, SentLater
  <2> QED BY <1>4, <2>2, <2>4, <2>5, <2>6 DEF Owned
<1> QED BY <1>7, <1>8

(* An answer is waited for, and the finishing one is the last. *)
LEMMA OwnedAnswer ==
    ASSUME IInv, IInv', NEW a \in Peers, NEW j \in IDs,
           NEW body \in {"value", "done", "error"}, NEW st \in BOOLEAN, NEW e \in BOOLEAN,
           j \in open[a], Answer(a, j, body, st, e),
           \A q \in Peers : open'[q] \subseteq open[q],
           j \in open'[a] => st /\ ~e,
           UNCHANGED <<session, isStream, asked, called, handed>>,
           NEW p \in Peers, NEW o \in Peers, Ends(p, o), NEW i \in IDs,
           Owned(p, o, i)
    PROVE  Owned(p, o, i)'
<1> DEFINE n == IF body = "value" THEN SentValues(answered, a, j) + 1 ELSE 0
           f == [id |-> -j, body |-> body, n |-> n, stream |-> st, end |-> e]
<1>1. TypeOK /\ TypeOK' /\ wire \in [Peers -> Seq(Frames)] /\ answered \in Histories
  BY DEF IInv, TypeOK
<1>2. n \in Nat
  BY <1>1, Counts
<1>3. Send(a, f) /\ answered' = Log(answered, a, j, f)
  BY DEF Answer
<1>4. UNCHANGED <<nextID, pending, incoming, unsent, isStream, asked, called, handed>>
  BY DEF session
<1> HIDE DEF n
<1>5. /\ f \in Frames /\ f.id = -j /\ f.body # "request"
      /\ f.stream = st /\ f.end = e
  BY <1>2, FrameFields, Numbers
<1>6. Abs(f.id) = j
  <2>1. j \in Nat \ {0}
    BY Numbers
  <2> QED BY <1>5, <2>1 DEF Abs
<1> HIDE DEF f
<1>7. /\ answered'[a][j] = Append(answered[a][j], f)
      /\ \A q \in Peers, k \in IDs : q # a \/ k # j => answered'[q][k] = answered[q][k]
  <2>1. Grown(answered, answered', a, j, f)
    BY <1>1, <1>3, <1>5, LogGrows
  <2> QED BY <2>1 DEF Grown
<1>8. CASE i # j
  <2>1. \A q \in Peers : Moved(wire[q], wire'[q], i)
    BY <1>1, <1>3, <1>5, <1>6, <1>8, SendMoves
  <2> QED BY <1>1, <1>4, <1>7, <1>8, <2>1, OtherNumber
<1>9. CASE i = j
  <2>1. a = o
    BY <1>9 DEF Owned, Ends
  <2>2. /\ wire'[p] = Append(wire[p], f) /\ wire'[o] = wire[o]
        /\ wire[p] \in Seq(Frames)
    BY <1>1, <1>3, <1>5, <2>1, Sent DEF Ends
  <2>3. /\ i \in pending[p] /\ Unfinished(wire[p], i)
        /\ i \notin unsent[p] /\ ~Envelope(wire[o], i)
    BY <1>9, <2>1 DEF Owned
  <2>4. Joined(wire[p], f, i)
    BY <1>5, <1>6, <1>9, <2>2, OwnAdded
  <2>5. Answers(wire'[p], i)
    <3> SUFFICES ASSUME NEW k \in Places(wire'[p], i)
                 PROVE  /\ wire'[p][k].id = -i /\ wire'[p][k].body # "request"
                        /\ \A l \in Places(wire'[p], i) : k < l => ~Finished(wire'[p][k])
      BY DEF Answers
    <3>1. /\ Places(wire'[p], i) = Places(wire[p], i) \cup {Len(wire[p]) + 1}
          /\ \A l \in Places(wire[p], i) : wire'[p][l] = wire[p][l]
          /\ wire'[p][Len(wire[p]) + 1] = f
      BY <2>2, <2>4 DEF Joined
    <3>2. CASE k \in Places(wire[p], i)
      BY <2>3, <3>1, <3>2 DEF Owned, Answers, Unfinished
    <3>3. CASE k = Len(wire[p]) + 1
      <4>1. \A l \in Places(wire'[p], i) : ~(k < l)
        <5>1. Places(wire[p], i) \subseteq 1 .. Len(wire[p]) /\ Len(wire[p]) \in Nat
          BY <2>2, PlacesType
        <5> QED BY <3>1, <3>3, <5>1
      <4> QED BY <1>5, <1>9, <3>1, <3>3, <4>1
    <3> QED BY <3>1, <3>2, <3>3
  <2>6. i \in open'[o] => Unfinished(wire'[p], i)
    BY <1>5, <1>9, <2>1, <2>2, <2>3, <2>4 DEF Unfinished, Joined, Finished
  <2>7. Delivered(called[p][i], wire'[p], Places(wire'[p], i), answered'[o][i])
    <3>1. called[p][i] \in Seq(Frames) /\ answered[o][i] \in Seq(Frames)
      BY <1>1, TypesOf DEF Typed
    <3>2. Delivered(called[p][i], wire[p], Places(wire[p], i), answered[o][i])
      BY DEF Owned
    <3>3. answered'[o][i] = Append(answered[o][i], f) /\ Abs(f.id) = i
      BY <1>6, <1>7, <1>9, <2>1
    <3> QED BY <1>5, <2>2, <3>1, <3>2, <3>3, SentLater
  <2>8. i \notin open'[p]
    BY DEF Owned
  <2> QED BY <1>4, <2>2, <2>3, <2>5, <2>6, <2>7, <2>8 DEF Owned
<1> QED BY <1>8, <1>9

(* The requester is given an answer: to the callback that waits for it.     *)
LEMMA OwnedReceiveAnswer ==
    ASSUME IInv, IInv', NEW p \in Peers, NEW o \in Peers, Ends(p, o), NEW i \in IDs,
           Receive(p), Abs(Head(wire[p]).id) = i, Owned(p, o, i)
    PROVE  Owned(p, o, i)'
<1> DEFINE f == Head(wire[p])
<1>1. TypeOK /\ TypeOK'
  BY DEF IInv
<1>2. wire[p] \in Seq(Frames) /\ wire[p] # <<>>
  BY <1>1 DEF Receive, TypeOK
<1>3. /\ 1 \in Places(wire[p], i) /\ wire[p][1] = f
      /\ \A k \in Places(Tail(wire[p]), i) :
            k + 1 \in Places(wire[p], i) /\ Tail(wire[p])[k] = wire[p][k + 1]
  BY <1>2, OwnTaken
<1>4. /\ f.body # "request" /\ i \in pending[p] /\ i \notin incoming[p]
      /\ i \notin unsent[p] /\ ~Envelope(wire[o], i)
      /\ i \in open[o] => ~Finished(f)
  BY <1>3 DEF Owned, Answers, Unfinished
<1>5. i \in CallbackFor(p, f) /\ CallbackFor(p, f) # {}
  BY <1>4 DEF CallbackFor, IsIncomingRequest
<1>6. /\ called' = Log(called, p, i, f)
      /\ pending' = IF Finished(f) THEN [pending EXCEPT ![p] = @ \ {i}] ELSE pending
      /\ UNCHANGED <<incoming, open, handed>>
  BY <1>5 DEF Receive
<1>7. /\ wire' = [wire EXCEPT ![p] = Tail(wire[p])]
      /\ UNCHANGED <<nextID, unsent, isStream, asked, answered>>
  BY DEF Receive
<1>8. wire'[p] = Tail(wire[p]) /\ wire'[o] = wire[o]
  BY <1>1, <1>7 DEF TypeOK, Ends
<1> HIDE DEF f
<1>9. \A k \in Places(wire'[p], i) : k \in Nat \ {0} /\ 1 < k + 1
  <2>1. Tail(wire[p]) \in Seq(Frames)
    BY <1>2
  <2>2. Places(Tail(wire[p]), i) \subseteq Nat \ {0}
    BY <2>1, PlacesType
  <2> QED BY <1>8, <2>2
<1>10. Answers(wire'[p], i)
  <2>1. \A k, l \in Places(wire'[p], i) : k < l => k + 1 < l + 1
    BY <1>9
  <2>2. \A k \in Places(wire'[p], i) :
           k + 1 \in Places(wire[p], i) /\ wire'[p][k] = wire[p][k + 1]
    BY <1>3, <1>8
  <2>3. Answers(wire[p], i)
    BY DEF Owned
  <2>4. ASSUME NEW k \in Places(wire'[p], i)
        PROVE  /\ wire'[p][k].id = -i /\ wire'[p][k].body # "request"
               /\ \A l \in Places(wire'[p], i) : k < l => ~Finished(wire'[p][k])
    BY <2>1, <2>2, <2>3 DEF Answers
  <2> QED BY <2>4 DEF Answers
<1>11. Places(wire'[p], i) # {} => ~Finished(f)
  BY <1>3, <1>8, <1>9 DEF Owned, Answers
<1>12. ~Finished(f) => i \in pending'[p]
  BY <1>4, <1>6
<1>13. i \in open[o] => Unfinished(wire'[p], i)
  BY <1>3, <1>8 DEF Owned, Unfinished
<1>14. Delivered(called'[p][i], wire'[p], Places(wire'[p], i), answered[o][i])
  <2>1. called[p][i] \in Seq(Frames) /\ answered[o][i] \in Seq(Frames) /\ f \in Frames
    <3>1. f \in Frames
      BY <1>2 DEF f
    <3> QED BY <1>1, <3>1, TypesOf DEF Typed
  <2>2. called'[p][i] = Append(called[p][i], f)
    <3>1. called \in Histories
      BY <1>1 DEF TypeOK
    <3>2. Grown(called, called', p, i, f)
      BY <1>6, <2>1, <3>1, LogGrows
    <3> QED BY <3>2 DEF Grown
  <2>3. Delivered(called[p][i], wire[p], Places(wire[p], i), answered[o][i])
    BY DEF Owned
  <2> QED BY <1>2, <1>8, <2>1, <2>2, <2>3, GivenNext DEF f
<1> QED BY <1>4, <1>6, <1>7, <1>8, <1>10, <1>11, <1>12, <1>13, <1>14 DEF Owned

(* The answerer is given a frame of the requester's half.                   *)
LEMMA OwnedReceiveRequest ==
    ASSUME IInv, IInv', NEW p \in Peers, NEW o \in Peers, Ends(p, o), NEW i \in IDs,
           i >= nextID[o], Receive(o), Abs(Head(wire[o]).id) = i, Owned(p, o, i)
    PROVE  Owned(p, o, i)'
<1> DEFINE f == Head(wire[o])
<1>1. TypeOK /\ TypeOK'
  BY DEF IInv
<1>2. wire[o] \in Seq(Frames) /\ wire[o] # <<>>
  BY <1>1 DEF Receive, TypeOK
<1>3. /\ 1 \in Places(wire[o], i) /\ wire[o][1] = f
      /\ \A k \in Places(Tail(wire[o]), i) :
            k + 1 \in Places(wire[o], i) /\ Tail(wire[o])[k] = wire[o][k + 1]
  BY <1>2, OwnTaken
<1>4. CallbackFor(o, f) = {}
  <2>1. Abs(f.id) \notin pending[o]
    BY NotUsed
  <2> QED BY <2>1 DEF CallbackFor
<1>5. /\ handed' = Log(handed, o, i, f)
      /\ incoming' = [incoming EXCEPT ![o] =
             IF Finished(f) THEN @ \ {i}
             ELSE IF f.body = "request" THEN @ \cup {i} ELSE @]
      /\ open' = IF f.body = "request" THEN [open EXCEPT ![o] = @ \cup {i}] ELSE open
      /\ UNCHANGED <<pending, called>>
  BY <1>4 DEF Receive
<1>6. /\ wire' = [wire EXCEPT ![o] = Tail(wire[o])]
      /\ UNCHANGED <<nextID, unsent, isStream, asked, answered>>
  BY DEF Receive
<1>7. wire'[o] = Tail(wire[o]) /\ wire'[p] = wire[p]
  BY <1>1, <1>6 DEF TypeOK, Ends
<1> HIDE DEF f
<1>8. incoming'[p] = incoming[p] /\ open'[p] = open[p]
  BY <1>1, <1>5 DEF TypeOK, Ends
<1>9. f.body # "request" => open' = open
  BY <1>5
<1>10. Requests(wire'[o], i)
  <2>1. \A k \in Places(wire'[o], i) :
           k + 1 \in Places(wire[o], i) /\ wire'[o][k] = wire[o][k + 1]
    BY <1>3, <1>7
  <2>2. Requests(wire[o], i)
    BY DEF Owned
  <2> QED BY <2>1, <2>2 DEF Requests
<1>11. Envelope(wire'[o], i) => Envelope(wire[o], i)
  BY <1>3, <1>7 DEF Envelope
<1>12. ASSUME f.body = "request"
       PROVE  /\ i \in pending[p] /\ Places(wire[p], i) = {}
              /\ i \notin unsent[p] /\ ~Envelope(wire'[o], i)
  <2>1. Envelope(wire[o], i)
    BY <1>3, <1>12 DEF Envelope
  <2>2. i \in pending[p] /\ Places(wire[p], i) = {} /\ Requests(wire[o], i)
    BY <2>1 DEF Owned
  <2>3. Handled(p, i, wire[o], handed[o][i], asked[p][i])
    BY HandledEverywhere DEF IInv, Ends
  <2>4. i \notin unsent[p]
    <3>1. asked[p][i] # <<>>
      BY <2>1, <2>2, <2>3, EnvelopeIs DEF Handled
    <3> QED BY <3>1 DEF IInv, NotYetSent
  <2>5. ~Envelope(wire'[o], i)
    <3> SUFFICES ASSUME NEW k \in Places(wire'[o], i), wire'[o][k].body = "request"
                 PROVE  FALSE
      BY DEF Envelope
    <3>1. k + 1 \in Places(wire[o], i) /\ wire[o][k + 1].body = "request"
      BY <1>3, <1>7
    <3>2. 1 \in Envelopes(wire[o], i) /\ k + 1 \in Envelopes(wire[o], i)
      BY <1>3, <1>12, <2>2, <3>1, EnvelopeIs
    <3>3. k + 1 = 1
      BY <2>3, <3>2 DEF Handled, InOnePlace
    <3>4. k \in Nat \ {0}
      <4>1. Tail(wire[o]) \in Seq(Frames)
        BY <1>2
      <4> QED BY <1>7, <4>1, PlacesType
    <3> QED BY <3>3, <3>4
  <2> QED BY <2>2, <2>4, <2>5
<1>13. Delivered(handed'[o][i], wire'[o], Places(wire'[o], i), asked[p][i])
  <2>1. handed[o][i] \in Seq(Frames) /\ asked[p][i] \in Seq(Frames) /\ f \in Frames
    <3>1. f \in Frames
      BY <1>2 DEF f
    <3> QED BY <1>1, <3>1, TypesOf DEF Typed
  <2>2. handed'[o][i] = Append(handed[o][i], f)
    <3>1. handed \in Histories
      BY <1>1 DEF TypeOK
    <3>2. Grown(handed, handed', o, i, f)
      BY <1>5, <2>1, <3>1, LogGrows
    <3> QED BY <3>2 DEF Grown
  <2>3. Delivered(handed[o][i], wire[o], Places(wire[o], i), asked[p][i])
    BY DEF Owned
  <2> QED BY <1>2, <1>7, <2>1, <2>2, <2>3, GivenNext DEF f
<1>14. CASE f.body = "request"
  <2>1. Unfinished(wire[p], i)
    BY <1>12, <1>14 DEF Unfinished
  <2> QED BY <1>5, <1>6, <1>7, <1>8, <1>10, <1>12, <1>13, <1>14, <2>1 DEF Owned
<1>15. CASE f.body # "request"
  BY <1>5, <1>6, <1>7, <1>8, <1>9, <1>10, <1>11, <1>13, <1>15 DEF Owned
<1> QED BY <1>14, <1>15

(* A frame of another number is received. *)
LEMMA OwnedReceiveOther ==
    ASSUME IInv, IInv', NEW a \in Peers, Receive(a),
           NEW p \in Peers, NEW o \in Peers, NEW i \in IDs,
           Abs(Head(wire[a]).id) # i, Owned(p, o, i)
    PROVE  Owned(p, o, i)'
<1> DEFINE f == Head(wire[a])
           j == Abs(f.id)
<1>1. TypeOK /\ TypeOK' /\ called \in Histories /\ handed \in Histories
  BY DEF IInv, TypeOK
<1>2. wire[a] \in Seq(Frames) /\ wire[a] # <<>>
  BY <1>1 DEF Receive, TypeOK
<1>3. f \in Frames /\ j \in IDs /\ j # i
  <2>1. f \in Frames
    BY <1>2
  <2>2. f.id \in SignedIDs
    BY <2>1, FrameFields
  <2> QED BY <2>1, <2>2, Numbers
<1>4. /\ wire' = [wire EXCEPT ![a] = Tail(wire[a])]
      /\ UNCHANGED <<nextID, unsent, isStream, asked, answered>>
  BY DEF Receive
<1>5. \A q \in Peers : Moved(wire[q], wire'[q], i)
  <2>1. wire'[a] = Tail(wire[a]) /\ \A q \in Peers : q # a => wire'[q] = wire[q]
    BY <1>1, <1>4 DEF TypeOK
  <2>2. Moved(wire[a], Tail(wire[a]), i)
    BY <1>2, OthersMove
  <2>3. \A q \in Peers : Moved(wire[q], wire[q], i)
    BY <1>1, OthersMove DEF TypeOK
  <2> QED BY <2>1, <2>2, <2>3
<1>6. \/ /\ called' = Log(called, a, j, f)
         /\ pending' = IF Finished(f) THEN [pending EXCEPT ![a] = @ \ {j}] ELSE pending
         /\ UNCHANGED <<incoming, open, handed>>
      \/ /\ handed' = Log(handed, a, j, f)
         /\ incoming' = [incoming EXCEPT ![a] =
                IF Finished(f) THEN @ \ {j}
                ELSE IF f.body = "request" THEN @ \cup {j} ELSE @]
         /\ open' = IF f.body = "request"
                    THEN [open EXCEPT ![a] = @ \cup {j}] ELSE open
         /\ UNCHANGED <<pending, called>>
  BY DEF Receive
<1> HIDE DEF f, j
<1>7. /\ i \in incoming'[p] => i \in incoming[p]
      /\ \A q \in Peers : i \in open'[q] => i \in open[q]
      /\ i \in pending[p] => i \in pending'[p]
  <2>1. /\ pending \in [Peers -> SUBSET IDs] /\ incoming \in [Peers -> SUBSET IDs]
        /\ open \in [Peers -> SUBSET IDs]
    BY <1>1 DEF TypeOK
  <2>2. i \in pending[p] => i \in pending'[p]
    BY <1>3, <1>6, <2>1
  <2>3. \A q \in Peers : i \in open'[q] => i \in open[q]
    BY <1>3, <1>6, <2>1
  <2>4. i \in incoming'[p] => i \in incoming[p]
    <3>1. CASE UNCHANGED incoming
      BY <3>1
    <3>2. CASE incoming' = [incoming EXCEPT ![a] =
                 IF Finished(f) THEN @ \ {j}
                 ELSE IF f.body = "request" THEN @ \cup {j} ELSE @]
      <4>1. CASE p = a
        <5>1. incoming'[p] = IF Finished(f) THEN incoming[p] \ {j}
                             ELSE IF f.body = "request" THEN incoming[p] \cup {j} ELSE incoming[p]
          BY <2>1, <3>2, <4>1
        <5> QED BY <1>3, <5>1
      <4>2. CASE p # a
        BY <2>1, <3>2, <4>2
      <4> QED BY <4>1, <4>2
    <3> QED BY <1>6, <3>1, <3>2
  <2> QED BY <2>2, <2>3, <2>4
<1>8. \A q \in Peers : called'[q][i] = called[q][i] /\ handed'[q][i] = handed[q][i]
  <2>1. Grown(called, Log(called, a, j, f), a, j, f)
    BY <1>1, <1>3, LogGrows
  <2>2. Grown(handed, Log(handed, a, j, f), a, j, f)
    BY <1>1, <1>3, LogGrows
  <2> QED BY <1>3, <1>6, <2>1, <2>2 DEF Grown
<1> QED BY <1>1, <1>4, <1>5, <1>7, <1>8, OtherNumber

(* Nothing is on its way in the beginning. *)
LEMMA OwnedInit == Init => OwnedInv
<1> SUFFICES ASSUME Init, NEW p \in Peers, NEW i \in IDs PROVE Owned(p, Other(p), i)
  BY DEF OwnedInv
<1>1. \A q \in Peers : /\ pending[q] = {} /\ unsent[q] = {} /\ incoming[q] = {}
                       /\ open[q] = {} /\ wire[q] = <<>>
                       /\ called[q][i] = <<>> /\ handed[q][i] = <<>>
                       /\ asked[q][i] = <<>> /\ answered[q][i] = <<>>
  BY DEF Init, Empty
<1>2. Places(<<>>, i) = {}
  BY DEF Places
<1>3. Delivered(<<>>, <<>>, {}, <<>>)
  <2>1. Len(<<>>) <= Len(<<>>) /\ DOMAIN <<>> = {} /\ Len(<<>>) + 1 .. Len(<<>>) = {}
    OBVIOUS
  <2> DEFINE at == [k \in {} |-> 0]
  <2>2. at \in [{} -> {}] /\ DOMAIN at = {}
    OBVIOUS
  <2> HIDE DEF at
  <2>3. \E to \in [{} -> {}] :
          /\ \A l \in {} : \E k \in DOMAIN to : to[k] = l
          /\ \A k, l \in DOMAIN to : k < l => to[k] < to[l]
          /\ \A k \in DOMAIN to : <<>>[to[k]] = <<>>[k]
    BY <2>2
  <2> QED BY <2>1, <2>3 DEF Delivered
<1> QED BY <1>1, <1>2, <1>3, OtherPeer DEF Owned, Answers, Requests, Envelope

(* Every step keeps what is known of the numbers one end has not used. *)
LEMMA OwnedNext == IInv /\ OwnedInv /\ [Next]_vars => OwnedInv'
<1> SUFFICES ASSUME IInv, OwnedInv, [Next]_vars, NEW p \in Peers, NEW i \in IDs,
                    i >= nextID'[Other(p)]
             PROVE  Owned(p, Other(p), i)'
  BY DEF OwnedInv
<1> DEFINE o == Other(p)
<1>1. IInv'
  BY NextInv
<1>2. Ends(p, o) /\ o \in Peers
  BY OtherPeer DEF Ends
<1> HIDE DEF o
<1>3. TypeOK /\ TypeOK'
  BY <1>1 DEF IInv
<1>4. CASE UNCHANGED vars
  <2>1. UNCHANGED <<nextID, pending, incoming, unsent, wire, open, isStream,
                    asked, answered, called, handed>>
    BY <1>4 DEF vars, session, history
  <2>2. Owned(p, o, i)
    BY <2>1 DEF OwnedInv, o
  <2> QED BY <2>1, <2>2 DEF Owned, o
<1>5. CASE Next
  <2>1. PICK a \in Peers : Request(a) \/ Serve(a) \/ Receive(a)
    BY <1>5 DEF Next
  <2>2. nextID[o] <= nextID'[o] /\ nextID[o] \in Nat /\ nextID'[o] \in Nat
    <3>1. nextID[o] \in Nat /\ nextID'[o] \in Nat
      BY <1>2, <1>3 DEF TypeOK
    <3>2. CASE Register(a)
      <4>1. nextID'[o] = IF o = a THEN nextID[o] + 1 ELSE nextID[o]
        BY <1>2, <1>3, <3>2 DEF Register, TypeOK
      <4> QED BY <3>1, <4>1
    <3>3. CASE ~Register(a)
      <4>1. nextID' = nextID
        BY <2>1, <3>3 DEF Request, Serve, Receive, Transmit, RequestFails, SendOwnValue,
           AnswerValue, AnswerEnd, AnswerAsync, session
      <4> QED BY <3>1, <4>1
    <3> QED BY <3>2, <3>3
  <2>3. i >= nextID[o] /\ i >= nextID'[o]
    <3>1. i \in Nat
      BY Numbers
    <3> QED BY <2>2, <3>1 DEF o
  <2>4. Owned(p, o, i)
    BY <2>3 DEF OwnedInv, o
  <2>5. CASE Request(a)
    <3>1. CASE Register(a)
      <4>1. Owned(p, o, i)'
        BY <1>1, <1>2, <2>3, <2>4, <3>1, OwnedRegister
      <4> QED BY <4>1 DEF o
    <3>2. ASSUME NEW j \in IDs, Transmit(a, j) PROVE Owned(p, o, i)'
      BY <1>1, <1>2, <2>3, <2>4, <3>2, OwnedTransmit
    <3>3. ASSUME NEW j \in IDs, RequestFails(a, j) PROVE Owned(p, o, i)'
      BY <1>1, <1>2, <2>3, <2>4, <3>3, OwnedRequestFails
    <3>4. ASSUME NEW j \in IDs, SendOwnValue(a, j) PROVE Owned(p, o, i)'
      BY <1>1, <1>2, <2>3, <2>4, <3>4, OwnedSendOwnValue
    <3> QED BY <2>5, <3>1, <3>2, <3>3, <3>4 DEF Request, o
  <2>6. CASE Serve(a)
    <3>1. PICK j \in IDs : AnswerValue(a, j) \/ AnswerEnd(a, j) \/ AnswerAsync(a, j)
      BY <2>6 DEF Serve
    <3>2. open \in [Peers -> SUBSET IDs]
      BY <1>3 DEF TypeOK
    <3>3. CASE AnswerValue(a, j)
      <4>1. /\ j \in open[a] /\ Answer(a, j, "value", TRUE, FALSE)
            /\ UNCHANGED <<session, isStream, asked, called, handed>>
            /\ \A q \in Peers : open'[q] \subseteq open[q]
        BY <3>3 DEF AnswerValue
      <4>2. Owned(p, o, i)'
        BY <1>1, <1>2, <2>4, <4>1, OwnedAnswer
      <4> QED BY <4>2 DEF o
    <3>4. CASE AnswerEnd(a, j)
      <4>1. PICK body \in {"done", "error"} : Answer(a, j, body, TRUE, TRUE)
        BY <3>4 DEF AnswerEnd
      <4>2. /\ j \in open[a] /\ j \notin open'[a]
            /\ UNCHANGED <<session, isStream, asked, called, handed>>
            /\ \A q \in Peers : open'[q] \subseteq open[q]
        BY <3>2, <3>4 DEF AnswerEnd
      <4>3. Owned(p, o, i)'
        BY <1>1, <1>2, <2>4, <4>1, <4>2, OwnedAnswer
      <4> QED BY <4>3 DEF o
    <3>5. CASE AnswerAsync(a, j)
      <4>1. PICK body \in {"value", "error"} : Answer(a, j, body, FALSE, TRUE)
        BY <3>5 DEF AnswerAsync
      <4>2. /\ j \in open[a] /\ j \notin open'[a]
            /\ UNCHANGED <<session, isStream, asked, called, handed>>
            /\ \A q \in Peers : open'[q] \subseteq open[q]
        BY <3>2, <3>5 DEF AnswerAsync
      <4>3. Owned(p, o, i)'
        BY <1>1, <1>2, <2>4, <4>1, <4>2, OwnedAnswer
      <4> QED BY <4>3 DEF o
    <3> QED BY <3>1, <3>3, <3>4, <3>5
  <2>7. CASE Receive(a)
    <3>1. CASE Abs(Head(wire[a]).id) # i
      <4>1. Owned(p, o, i)'
        BY <1>1, <1>2, <2>4, <2>7, <3>1, OwnedReceiveOther
      <4> QED BY <4>1 DEF o
    <3>2. CASE Abs(Head(wire[a]).id) = i /\ a = p
      <4>1. Owned(p, o, i)'
        BY <1>1, <1>2, <2>4, <2>7, <3>2, OwnedReceiveAnswer
      <4> QED BY <4>1 DEF o
    <3>3. CASE Abs(Head(wire[a]).id) = i /\ a = o
      <4>1. Owned(p, o, i)'
        BY <1>1, <1>2, <2>3, <2>4, <2>7, <3>3, OwnedReceiveRequest
      <4> QED BY <4>1 DEF o
    <3> QED BY <1>2, <3>1, <3>2, <3>3 DEF Ends
  <2> QED BY <2>1, <2>5, <2>6, <2>7
<1> QED BY <1>4, <1>5

(* What is known of a number says that both halves are delivered.           *)
LEMMA OwnedIsFaithful == TypeOK /\ OwnedInv => StreamsFaithful
<1> SUFFICES ASSUME TypeOK, OwnedInv, NEW p \in Peers, NEW i \in IDs, Alone(p, i)
             PROVE  /\ Delivered(called[p][i], wire[p], OnWire(p, -i), answered[Other(p)][i])
                    /\ Delivered(handed[Other(p)][i],
                                 wire[Other(p)], OnWire(Other(p), i), asked[p][i])
  BY DEF StreamsFaithful
<1>1. Owned(p, Other(p), i)
  BY DEF OwnedInv, Alone
<1>2. Abs(i) = i /\ Abs(-i) = i
  <2>1. i \in Nat \ {0}
    BY Numbers
  <2> QED BY <2>1 DEF Abs
<1>3. OnWire(p, -i) = Places(wire[p], i)
  BY <1>1, <1>2 DEF Owned, Answers, OnWire, Places
<1>4. OnWire(Other(p), i) = Places(wire[Other(p)], i)
  BY <1>1, <1>2 DEF Owned, Requests, OnWire, Places
<1> QED BY <1>1, <1>3, <1>4 DEF Owned

-----------------------------------------------------------------------------
(* The state of both sessions keeps its shape, and a callback waits only    *)
(* under a number the session has given out: nextRequestID never meets a    *)
(* pending request.                                                         *)
THEOREM TypeCorrect == Spec => []TypeOK
<1>1. IInv => TypeOK
  BY DEF IInv
<1> QED BY <1>1, InitInv, NextInv, PTL DEF Spec

(* handleIncomingMessage: gives every request envelope to the request       *)
(* handler exactly once, however the two ends' numbers collide and in       *)
(* whatever order the envelopes leave.                                      *)
THEOREM RequestsAreHandled == Spec => []EveryRequestHandled
<1>1. IInv => EveryRequestHandled
  BY DEF IInv
<1> QED BY <1>1, InitInv, NextInv, PTL DEF Spec

(* While only one end uses a number, each half of its exchange is delivered *)
(* once and in order: answers to the callback that waits for them, the      *)
(* requester's frames to the request handler, for any number of requests    *)
(* and values and whatever other numbers collide.                           *)
THEOREM StreamsAreFaithful == Spec => []StreamsFaithful
<1>1. Init => IInv /\ OwnedInv
  BY InitInv, OwnedInit
<1>2. (IInv /\ OwnedInv) /\ [Next]_vars => (IInv /\ OwnedInv)'
  BY NextInv, OwnedNext
<1>3. IInv /\ OwnedInv => StreamsFaithful
  BY OwnedIsFaithful DEF IInv
<1> QED BY <1>1, <1>2, <1>3, PTL DEF Spec

=============================================================================
