------------------------- MODULE TunnelConnectProofs -------------------------
(***************************************************************************)
(* Theorems about TunnelConnect, for any number of attempts, delayed       *)
(* connects and requests to replicate.                                     *)
(*                                                                         *)
(* As long as no connection to the room is lost, activeTunnels is never    *)
(* emptied again, so each peer makes at most one tunnel.connect request:   *)
(* the tunnels are at most T(lo) and T(hi).  The inductive invariant says  *)
(* of each where its request and the one handshake message under way are.  *)
(***************************************************************************)
EXTENDS TunnelConnect, SequenceTheorems, FiniteSetTheorems, TLAPS

T(p) == <<p, 1>>

(* Where the messages of a kind about tunnel t are in a queue, which        *)
(* messages of its handshake the queue holds, and that they come after the  *)
(* request.                                                                 *)
Marks(s, type, t) == {k \in DOMAIN s : s[k].type = type /\ s[k].att = t}
Said(s, t) == {s[k].n : k \in Marks(s, "data", t)}
Ordered(s, t) == \A k \in Marks(s, "connect", t), l \in Marks(s, "data", t) : k < l

Asked(i) == Marks(net[Other(i)], "connect", T(i))

AtMostOne(S) == \A k, l \in S : k = l

(* How far the main thread of p has come, and what activeTunnels holds.     *)
Progress(p) ==
    /\ online[p]
    /\ made[p] \in {0, 1}
    /\ main[p] = "checked" => made[p] = 0
    /\ main[p] = "sent" => made[p] = 1
    /\ main[p] = "idle" /\ made[p] = 1 => active[p] # None
    /\ main[p] # "idle" /\ p \notin raced => active[p] = None
    /\ active[p] \in {None, T(p), T(Other(p))}
    /\ active[p] = T(p) => main[p] = "idle" /\ made[p] = 1

(* The room relays no error and no request but the other's first.           *)
Relays(s, p) ==
    \A k \in DOMAIN s :
        /\ s[k].type # "error"
        /\ s[k].type = "connect" => s[k].att = T(Other(p))

Incoming(p) == Relays(net[p], p)

(* Before the request is made, and before its tunnel starts.                *)
NotMade(i) ==
    made[i] = 0 => /\ Asked(i) = {} /\ active[Other(i)] # T(i)
                   /\ \A p \in Peers : Said(net[p], T(i)) = {}

NotStarted(i) ==
    main[i] = "sent" => /\ \A p \in Peers : Said(net[p], T(i)) = {}
                        /\ active[Other(i)] = T(i) => hs[Other(i)] = 0

(* The request is on its way: the first handshake message follows it.       *)
Requested(i) ==
    Asked(i) # {} =>
        /\ active[Other(i)] # T(i)
        /\ T(i) \in relayed
        /\ Said(net[i], T(i)) = {}
        /\ Said(net[Other(i)], T(i)) \subseteq {1}
        /\ active[i] = T(i) => hs[i] = 1 /\ Said(net[Other(i)], T(i)) = {1}

(* The request was handled: hi took it, unless its main thread overwrote    *)
(* it; lo has that tunnel or another.                                       *)
Answered(i) ==
    made[i] = 1 /\ Asked(i) = {} =>
        /\ i = lo /\ hi \notin raced => active[hi] = T(lo)
        /\ i = hi => active[lo] # None

(* The handshake: its one message on the way belongs to the states of the   *)
(* two ends, and it is not lost before both have finished.                  *)
Handshake(i) ==
    (\A p \in Peers : active[p] = T(i)) =>
        /\ \A p \in Peers : \A n \in Said(net[p], T(i)) :
              hs[p] = n - 1 /\ hs[Other(p)] = n
        /\ (\E p \in Peers : Said(net[p], T(i)) # {}) \/ (\A p \in Peers : hs[p] = 4)

Single(i) ==
    /\ AtMostOne(Asked(i))
    /\ \A p \in Peers : AtMostOne(Marks(net[p], "data", T(i)))
    /\ \A p \in Peers : Said(net[p], T(i)) = {} \/ Said(net[Other(p)], T(i)) = {}
    /\ Ordered(net[Other(i)], T(i))

(* The room drops only a tunnel that lo rejected.                           *)
Relayed(i) ==
    /\ active[Other(i)] = T(i) => T(i) \in relayed
    /\ i = lo /\ made[lo] = 1 => T(lo) \in relayed

(* lo takes the other's tunnel only before it has made its own.             *)
TakesOther == active[lo] = T(hi) => made[lo] = 0 \/ main[lo] = "sent"

Tunnel(i) ==
    /\ NotMade(i) /\ NotStarted(i) /\ Requested(i) /\ Answered(i)
    /\ Handshake(i) /\ Single(i) /\ Relayed(i)

Undisturbed ==
    /\ \A p \in Peers : Progress(p) /\ Incoming(p) /\ Tunnel(p)
    /\ TakesOther

IInv == TypeOK /\ (drops = 0 => Undisturbed)

-----------------------------------------------------------------------------
(* Peers, tunnels and messages. *)

(* There are two peers, each the other's other. *)
LEMMA Ends2 ==
    /\ lo \in Peers /\ hi \in Peers /\ Peers = {lo, hi} /\ lo # hi
    /\ \A p \in Peers : /\ Other(p) \in Peers /\ Other(p) # p /\ Other(Other(p)) = p
                        /\ \A q \in Peers : q = p \/ q = Other(p)
    /\ Other(lo) = hi /\ Other(hi) = lo
BY TunnelAssumption DEF Peers, Other

(* The first attempts of the peers are two tunnels. *)
LEMMA Tunnels ==
    /\ \A p \in Peers : T(p) \in Attempts /\ T(p) # None /\ T(p)[1] = p
    /\ \A p \in Peers : T(p) # T(Other(p))
    /\ T(lo) # T(hi)
    /\ \A t \in Attempts : t # None
<1>1. \A p \in Peers : T(p) \in Attempts
  BY TunnelAssumption DEF T, Attempts
<1>2. \A t \in Attempts : t # None
  BY TunnelAssumption DEF Attempts, Peers
<1>3. \A p, q \in Peers : T(p) = T(q) => p = q
  BY DEF T
<1>4. \A p \in Peers : T(p)[1] = p
  BY DEF T
<1> QED BY <1>1, <1>2, <1>3, <1>4, Ends2

(* The forms of messages. *)
LEMMA MessageForms ==
    /\ \A t \in Attempts : \A type \in {"connect", "end", "error"} :
          [type |-> type, att |-> t] \in Messages
    /\ \A t \in Attempts, n \in 1 .. 4 : /\ Data(t, n) \in Messages
                                         /\ Data(t, n).type = "data"
                                         /\ Data(t, n).att = t
                                         /\ Data(t, n).n = n
    /\ Joined \in Messages /\ Joined.type = "joined"
    /\ \A m \in Messages : /\ m.type \in {"connect", "end", "error"} => m.att \in Attempts
                           /\ m.type = "data" => m.att \in Attempts /\ m.n \in 1 .. 4
BY DEF Messages, Data, Joined

(* A message is about a tunnel when it is its request or of its handshake.  *)
About(m, t) == m.type \in {"connect", "data"} /\ m.att = t

(* What a change of a queue must leave alone for a tunnel not to notice.    *)
Same(s, u, t) ==
    /\ Marks(u, "connect", t) = {} <=> Marks(s, "connect", t) = {}
    /\ AtMostOne(Marks(s, "connect", t)) => AtMostOne(Marks(u, "connect", t))
    /\ AtMostOne(Marks(s, "data", t)) => AtMostOne(Marks(u, "data", t))
    /\ Said(u, t) = Said(s, t)
    /\ Ordered(s, t) => Ordered(u, t)

(* Where a tunnel's messages are after the first message is taken. *)
LEMMA TailMarks ==
    ASSUME NEW s \in Seq(Messages), s # <<>>, NEW type, NEW t
    PROVE  /\ \A k \in Marks(Tail(s), type, t) :
                 k \in Nat \ {0} /\ k + 1 \in Marks(s, type, t)
           /\ \A k \in Marks(s, type, t) :
                 k \in Nat \ {0} /\ (k # 1 => k - 1 \in Marks(Tail(s), type, t))
           /\ 1 \in Marks(s, type, t) <=> Head(s).type = type /\ Head(s).att = t
           /\ Head(s) \in Messages /\ Head(s) = s[1] /\ Tail(s) \in Seq(Messages)
<1>1. /\ DOMAIN s = 1 .. Len(s) /\ Len(s) \in Nat \ {0}
      /\ DOMAIN Tail(s) = 1 .. (Len(s) - 1)
      /\ Head(s) = s[1] /\ s[1] \in Messages /\ Tail(s) \in Seq(Messages)
  OBVIOUS
<1>2. \A k \in 1 .. (Len(s) - 1) : Tail(s)[k] = s[k + 1]
  OBVIOUS
<1> QED BY <1>1, <1>2 DEF Marks

(* What a stream still says of a handshake after the first message is taken. *)
LEMMA TailSaid ==
    ASSUME NEW s \in Seq(Messages), s # <<>>, NEW t
    PROVE  /\ Head(s).type = "data" /\ Head(s).att = t =>
                 Head(s).n \in Said(s, t) /\ Marks(s, "data", t) # {}
           /\ Head(s).type # "data" \/ Head(s).att # t => Said(Tail(s), t) = Said(s, t)
           /\ Said(Tail(s), t) \subseteq Said(s, t)
<1>1. /\ DOMAIN s = 1 .. Len(s) /\ Len(s) \in Nat \ {0}
      /\ DOMAIN Tail(s) = 1 .. (Len(s) - 1)
      /\ Head(s) = s[1]
  OBVIOUS
<1>2. \A k \in 1 .. (Len(s) - 1) : Tail(s)[k] = s[k + 1]
  OBVIOUS
<1>3. Said(Tail(s), t) \subseteq Said(s, t)
  <2> SUFFICES ASSUME NEW k \in Marks(Tail(s), "data", t) PROVE Tail(s)[k].n \in Said(s, t)
    BY DEF Said
  <2>1. k \in 1 .. (Len(s) - 1) /\ Tail(s)[k] = s[k + 1] /\ k + 1 \in DOMAIN s
    BY <1>1, <1>2 DEF Marks
  <2>2. k + 1 \in Marks(s, "data", t)
    BY <2>1 DEF Marks
  <2> QED BY <2>1, <2>2 DEF Said
<1>4. ASSUME Head(s).type # "data" \/ Head(s).att # t
      PROVE  Said(s, t) \subseteq Said(Tail(s), t)
  <2> SUFFICES ASSUME NEW k \in Marks(s, "data", t) PROVE s[k].n \in Said(Tail(s), t)
    BY DEF Said
  <2>1. k \in 1 .. Len(s) /\ k # 1
    BY <1>1, <1>4 DEF Marks
  <2>2. k - 1 \in 1 .. (Len(s) - 1) /\ (k - 1) + 1 = k
    BY <1>1, <2>1
  <2>3. Tail(s)[k - 1] = s[k]
    BY <1>2, <2>2
  <2>4. k - 1 \in Marks(Tail(s), "data", t)
    BY <1>1, <2>2, <2>3 DEF Marks
  <2> QED BY <2>3, <2>4 DEF Said
<1>5. ASSUME Head(s).type = "data", Head(s).att = t
      PROVE  Head(s).n \in Said(s, t) /\ Marks(s, "data", t) # {}
  BY <1>1, <1>5 DEF Said, Marks
<1> QED BY <1>3, <1>4, <1>5

(* Where a tunnel's messages are after a message is added. *)
LEMMA AppendMarks ==
    ASSUME NEW s \in Seq(Messages), NEW m \in Messages, NEW type, NEW t
    PROVE  /\ Marks(Append(s, m), type, t) = Marks(s, type, t) \cup
                 IF m.type = type /\ m.att = t THEN {Len(s) + 1} ELSE {}
           /\ \A k \in Marks(s, type, t) : k \in 1 .. Len(s) /\ Append(s, m)[k] = s[k]
           /\ Append(s, m)[Len(s) + 1] = m
           /\ Append(s, m) \in Seq(Messages) /\ Len(s) \in Nat
<1>1. /\ DOMAIN s = 1 .. Len(s) /\ Len(s) \in Nat
      /\ DOMAIN Append(s, m) = 1 .. (Len(s) + 1)
      /\ Append(s, m) \in Seq(Messages)
  OBVIOUS
<1>2. \A k \in 1 .. Len(s) : Append(s, m)[k] = s[k]
  OBVIOUS
<1>3. Append(s, m)[Len(s) + 1] = m
  OBVIOUS
<1> QED BY <1>1, <1>2, <1>3 DEF Marks

(* What a stream says of a handshake after a message is added. *)
LEMMA AppendSaid ==
    ASSUME NEW s \in Seq(Messages), NEW m \in Messages, NEW t
    PROVE  /\ m.type = "data" /\ m.att = t => Said(Append(s, m), t) = Said(s, t) \cup {m.n}
           /\ m.type # "data" \/ m.att # t => Said(Append(s, m), t) = Said(s, t)
<1>1. /\ DOMAIN s = 1 .. Len(s) /\ Len(s) \in Nat
      /\ DOMAIN Append(s, m) = 1 .. (Len(s) + 1)
      /\ Append(s, m)[Len(s) + 1] = m
  OBVIOUS
<1>2. \A k \in 1 .. Len(s) : Append(s, m)[k] = s[k]
  OBVIOUS
<1> QED BY <1>1, <1>2 DEF Said, Marks

(* The only message of its kind is at the head. *)
LEMMA Taken ==
    ASSUME NEW s \in Seq(Messages), s # <<>>, NEW type, NEW t,
           AtMostOne(Marks(s, type, t)), Head(s).type = type, Head(s).att = t
    PROVE  Marks(Tail(s), type, t) = {} /\ Marks(s, type, t) = {1}
<1>1. 1 \in Marks(s, type, t)
  BY TailMarks
<1>2. \A k \in Marks(s, type, t) : k = 1
  BY <1>1 DEF AtMostOne
<1>3. \A k \in Marks(Tail(s), type, t) : k \in Nat \ {0} /\ k + 1 \in Marks(s, type, t)
  BY TailMarks
<1>4. \A k \in Marks(Tail(s), type, t) : FALSE
  BY <1>2, <1>3
<1> QED BY <1>1, <1>2, <1>4

(* A request that is taken was the only one of its tunnel. *)
LEMMA TakenRequest ==
    ASSUME NEW s \in Seq(Messages), s # <<>>, NEW t,
           AtMostOne(Marks(s, "connect", t)), Head(s).type = "connect", Head(s).att = t
    PROVE  Marks(Tail(s), "connect", t) = {} /\ Marks(s, "connect", t) = {1}
BY Taken

(* A handshake message that is taken was the only one of its tunnel. *)
LEMMA TakenToken ==
    ASSUME NEW s \in Seq(Messages), s # <<>>, NEW t,
           AtMostOne(Marks(s, "data", t)), Head(s).type = "data", Head(s).att = t
    PROVE  /\ Marks(Tail(s), "data", t) = {} /\ Marks(s, "data", t) = {1}
           /\ Said(Tail(s), t) = {} /\ Said(s, t) = {Head(s).n}
<1>1. Marks(Tail(s), "data", t) = {} /\ Marks(s, "data", t) = {1}
  <2>1. /\ DOMAIN s = 1 .. Len(s) /\ Len(s) \in Nat \ {0}
        /\ DOMAIN Tail(s) = 1 .. (Len(s) - 1)
        /\ Head(s) = s[1]
    OBVIOUS
  <2>2. \A k \in 1 .. (Len(s) - 1) : Tail(s)[k] = s[k + 1]
    OBVIOUS
  <2>3. 1 \in Marks(s, "data", t)
    BY <2>1 DEF Marks
  <2>4. \A k \in Marks(Tail(s), "data", t) : k + 1 # 1 /\ k + 1 \in Marks(s, "data", t)
    BY <2>1, <2>2 DEF Marks
  <2>5. \A k \in Marks(s, "data", t) : k = 1
    BY <2>3 DEF AtMostOne
  <2> QED BY <2>3, <2>4, <2>5
<1>2. Head(s) = s[1]
  OBVIOUS
<1> QED BY <1>1, <1>2 DEF Said

(* Only a request adds a request. *)
LEMMA AppendRequest ==
    ASSUME NEW s \in Seq(Messages), NEW m \in Messages, NEW t, m.type # "connect"
    PROVE  Marks(Append(s, m), "connect", t) = Marks(s, "connect", t)
<1>1. /\ DOMAIN s = 1 .. Len(s) /\ Len(s) \in Nat
      /\ DOMAIN Append(s, m) = 1 .. (Len(s) + 1)
      /\ Append(s, m)[Len(s) + 1] = m
  OBVIOUS
<1>2. \A k \in 1 .. Len(s) : Append(s, m)[k] = s[k]
  OBVIOUS
<1> QED BY <1>1, <1>2 DEF Marks

(* An unchanged stream says the same of every tunnel. *)
LEMMA SameSelf ==
    ASSUME NEW s, NEW t
    PROVE  Same(s, s, t)
BY DEF Same

(* Taking a message about another tunnel changes nothing for this one. *)
LEMMA SameTail ==
    ASSUME NEW s \in Seq(Messages), s # <<>>, NEW t, ~About(Head(s), t)
    PROVE  Same(s, Tail(s), t)
<1> DEFINE C == Marks(s, "connect", t)   C2 == Marks(Tail(s), "connect", t)
           D == Marks(s, "data", t)      D2 == Marks(Tail(s), "data", t)
<1>0. 1 \notin C /\ 1 \notin D
  <2>1. 1 \in C <=> Head(s).type = "connect" /\ Head(s).att = t
    BY TailMarks
  <2>2. 1 \in D <=> Head(s).type = "data" /\ Head(s).att = t
    BY TailMarks
  <2> QED BY <2>1, <2>2 DEF About
<1>1. /\ \A k \in C2 : k \in Nat \ {0} /\ k + 1 \in C
      /\ \A k \in C : k \in Nat \ {0} /\ k - 1 \in C2
  BY <1>0, TailMarks
<1>2. /\ \A k \in D2 : k \in Nat \ {0} /\ k + 1 \in D
      /\ \A k \in D : k \in Nat \ {0} /\ k - 1 \in D2
  BY <1>0, TailMarks
<1>3. Said(Tail(s), t) = Said(s, t)
  BY TailSaid DEF About
<1> HIDE DEF C, C2, D, D2
<1>4. (C2 = {} <=> C = {}) /\ (AtMostOne(C) => AtMostOne(C2)) /\ (AtMostOne(D) => AtMostOne(D2))
  BY <1>1, <1>2 DEF AtMostOne
<1>5. (\A k \in C, l \in D : k < l) => \A k \in C2, l \in D2 : k < l
  <2> SUFFICES ASSUME \A k \in C, l \in D : k < l, NEW k \in C2, NEW l \in D2 PROVE k < l
    OBVIOUS
  <2>1. k + 1 < l + 1 /\ k \in Nat /\ l \in Nat
    BY <1>1, <1>2
  <2> QED BY <2>1
<1> QED BY <1>3, <1>4, <1>5 DEF C, C2, D, D2, Same, Ordered

(* Neither does adding one. *)
LEMMA SameAppend ==
    ASSUME NEW s \in Seq(Messages), NEW m \in Messages, NEW t, ~About(m, t)
    PROVE  Same(s, Append(s, m), t)
<1>1. /\ Marks(Append(s, m), "connect", t) = Marks(s, "connect", t) \cup
            IF m.type = "connect" /\ m.att = t THEN {Len(s) + 1} ELSE {}
      /\ Marks(Append(s, m), "data", t) = Marks(s, "data", t) \cup
            IF m.type = "data" /\ m.att = t THEN {Len(s) + 1} ELSE {}
      /\ \A k \in Marks(s, "data", t) : Append(s, m)[k] = s[k]
  BY AppendMarks
<1>2. /\ Marks(Append(s, m), "connect", t) = Marks(s, "connect", t)
      /\ Marks(Append(s, m), "data", t) = Marks(s, "data", t)
  BY <1>1 DEF About
<1> QED BY <1>1, <1>2 DEF Same, Said, Ordered, AtMostOne
-----------------------------------------------------------------------------
(* A tunnel that a step does not touch keeps its invariant. *)

SameTunnel(i) ==
    /\ made'[i] = made[i]
    /\ main'[i] = "sent" => main[i] = "sent"
    /\ T(i) \in relayed => T(i) \in relayed'
    /\ raced \subseteq raced'
    /\ \A r \in Peers : active'[r] = T(i) => active[r] = T(i) /\ hs'[r] = hs[r]
    /\ i = lo /\ hi \notin raced' /\ made[lo] = 1 /\ active[hi] = T(lo) => active'[hi] = T(lo)
    /\ active[lo] # None => active'[lo] # None
    /\ \A r \in Peers : Same(net[r], net'[r], T(i))

(* A step that changes nothing of a tunnel keeps what is known of it. *)
LEMMA Unchanged ==
    ASSUME NEW i \in Peers, Tunnel(i), SameTunnel(i)
    PROVE  Tunnel(i)'
<1> DEFINE a == Other(i)
<1>1. /\ a \in Peers /\ \A r \in Peers : Other(r) \in Peers
      /\ i = lo => a = hi
      /\ \A r \in Peers : Said(net'[r], T(i)) = Said(net[r], T(i))
      /\ \A r \in Peers : AtMostOne(Marks(net[r], "data", T(i))) => AtMostOne(Marks(net'[r], "data", T(i)))
      /\ Asked(i)' = {} <=> Asked(i) = {}
      /\ AtMostOne(Asked(i)) => AtMostOne(Asked(i)')
      /\ Ordered(net[a], T(i)) => Ordered(net'[a], T(i))
  BY Ends2 DEF SameTunnel, Same, Asked
<1>2. /\ made'[i] = made[i] /\ (main'[i] = "sent" => main[i] = "sent")
      /\ T(i) \in relayed => T(i) \in relayed'
      /\ raced \subseteq raced'
      /\ \A r \in Peers : active'[r] = T(i) => active[r] = T(i) /\ hs'[r] = hs[r]
      /\ i = lo /\ hi \notin raced' /\ made[lo] = 1 /\ active[hi] = T(lo) => active'[hi] = T(lo)
      /\ active[lo] # None => active'[lo] # None
  BY DEF SameTunnel
<1>3. NotMade(i)'
  BY <1>1, <1>2 DEF Tunnel, NotMade
<1>4. NotStarted(i)'
  BY <1>1, <1>2 DEF Tunnel, NotStarted
<1>5. Requested(i)'
  BY <1>1, <1>2 DEF Tunnel, Requested
<1>6. Answered(i)'
  BY <1>1, <1>2 DEF Tunnel, Answered
<1>7. Handshake(i)'
  <2> SUFFICES ASSUME \A r \in Peers : active'[r] = T(i)
               PROVE  /\ \A p \in Peers : \A n \in Said(net'[p], T(i)) :
                            hs'[p] = n - 1 /\ hs'[Other(p)] = n
                      /\ \/ \E p \in Peers : Said(net'[p], T(i)) # {}
                         \/ \A p \in Peers : hs'[p] = 4
    BY DEF Handshake
  <2>1. \A r \in Peers : active[r] = T(i) /\ hs'[r] = hs[r]
    BY <1>2
  <2> QED BY <1>1, <2>1 DEF Tunnel, Handshake
<1>8. Single(i)'
  BY <1>1 DEF Tunnel, Single
<1>9. Relayed(i)'
  BY <1>1, <1>2 DEF Tunnel, Relayed
<1> QED BY <1>3, <1>4, <1>5, <1>6, <1>7, <1>8, <1>9 DEF Tunnel

(* What a queue relays stays in order when it loses its head or grows.      *)
LEMMA RelaysTail ==
    ASSUME NEW s \in Seq(Messages), s # <<>>, NEW p, Relays(s, p)
    PROVE  /\ Relays(Tail(s), p)
           /\ Head(s).type # "error"
           /\ Head(s).type = "connect" => Head(s).att = T(Other(p))
<1>1. /\ DOMAIN s = 1 .. Len(s) /\ Len(s) \in Nat \ {0}
      /\ DOMAIN Tail(s) = 1 .. (Len(s) - 1) /\ Head(s) = s[1]
  OBVIOUS
<1>2. \A k \in 1 .. (Len(s) - 1) : Tail(s)[k] = s[k + 1]
  OBVIOUS
<1> QED BY <1>1, <1>2 DEF Relays

(* A stream that is extended still relays only what it may. *)
LEMMA RelaysAppend ==
    ASSUME NEW s \in Seq(Messages), NEW m \in Messages, NEW p, Relays(s, p),
           m.type # "error", m.type = "connect" => m.att = T(Other(p))
    PROVE  Relays(Append(s, m), p)
<1>1. /\ DOMAIN s = 1 .. Len(s) /\ Len(s) \in Nat
      /\ DOMAIN Append(s, m) = 1 .. (Len(s) + 1)
  OBVIOUS
<1>2. \A k \in 1 .. Len(s) : Append(s, m)[k] = s[k]
  OBVIOUS
<1>3. Append(s, m)[Len(s) + 1] = m
  OBVIOUS
<1> QED BY <1>1, <1>2, <1>3 DEF Relays

(* The first streams hold no request and no handshake. *)
LEMMA NoneIn == \A t : /\ Marks(<<>>, "connect", t) = {} /\ Marks(<<>>, "data", t) = {}
                       /\ Marks(<<Joined>>, "connect", t) = {}
                       /\ Marks(<<Joined>>, "data", t) = {}
<1>1. DOMAIN <<Joined>> = {1} /\ <<Joined>>[1] = Joined
  OBVIOUS
<1> QED BY <1>1 DEF Marks, Joined

(* The invariant holds when both clients connect to the room. *)
LEMMA InitInv == Init => IInv
<1> SUFFICES ASSUME Init PROVE IInv
  OBVIOUS
<1>1. \A p \in Peers : /\ online[p] = TRUE /\ active[p] = None /\ hs[p] = 0
                       /\ main[p] = "idle" /\ made[p] = 0 /\ net[p] = <<Joined>>
  BY DEF Init
<1>2. <<Joined>> \in Seq(Messages)
  BY MessageForms
<1>3. TypeOK
  <2>1. net \in [Peers -> Seq(Messages)] /\ relayed \subseteq Attempts
    BY <1>2 DEF Init
  <2>2. /\ 0 \in 0 .. MaxTimers /\ 0 \in 0 .. MaxAttempts /\ 0 \in 0 .. MaxDrops
        /\ 0 \in 0 .. MaxAsks
    BY TunnelAssumption
  <2>3. /\ online \in [Peers -> BOOLEAN] /\ waiting \in [Peers -> BOOLEAN]
        /\ active \in [Peers -> Attempts \cup {None}]
        /\ main \in [Peers -> {"idle", "checked", "sent"}]
    BY DEF Init
  <2>4. hs \in [Peers -> 0 .. 4]
    BY DEF Init
  <2>5. timers \in [Peers -> 0 .. MaxTimers] /\ made \in [Peers -> 0 .. MaxAttempts]
    BY <2>2 DEF Init
  <2>6. /\ drops \in 0 .. MaxDrops /\ asks \in 0 .. MaxAsks
        /\ raced \subseteq Peers /\ lapsed \subseteq Attempts /\ skipped \in BOOLEAN
    BY <2>2 DEF Init
  <2> QED BY <1>1, <2>1, <2>3, <2>4, <2>5, <2>6 DEF TypeOK
<1>4. \A p \in Peers : \A t : Marks(net[p], "connect", t) = {} /\ Marks(net[p], "data", t) = {}
  BY <1>1, NoneIn
<1>5. \A p \in Peers : \A t : Said(net[p], t) = {} /\ Ordered(net[p], t)
  BY <1>4 DEF Said, Ordered
<1>6. \A p \in Peers : Tunnel(p)
  BY <1>1, <1>4, <1>5, Ends2, Tunnels
  DEF Tunnel, NotMade, NotStarted, Requested, Answered, Handshake, Single, Relayed, Asked, AtMostOne
<1>7. \A p \in Peers : Progress(p) /\ Incoming(p)
  <2>1. DOMAIN <<Joined>> = {1} /\ <<Joined>>[1] = Joined
    OBVIOUS
  <2> QED BY <1>1, <2>1, Tunnels DEF Progress, Incoming, Relays, Joined
<1>8. TakesOther
  BY <1>1, Ends2 DEF TakesOther
<1> QED BY <1>3, <1>6, <1>7, <1>8 DEF IInv, Undisturbed

-----------------------------------------------------------------------------
(* The queues after a step. *)

(* Taking a message changes one stream. *)
LEMMA Consumed ==
    ASSUME TypeOK, NEW p \in Peers, net[p] # <<>>, Consume(p)
    PROVE  /\ net' \in [Peers -> Seq(Messages)]
           /\ net'[p] = Tail(net[p]) /\ net'[Other(p)] = net[Other(p)]
           /\ net[p] \in Seq(Messages) /\ Head(net[p]) \in Messages
<1>1. net[p] \in Seq(Messages) /\ net \in [Peers -> Seq(Messages)]
  BY DEF TypeOK
<1>2. Tail(net[p]) \in Seq(Messages) /\ Head(net[p]) \in Messages
  BY <1>1
<1> QED BY <1>1, <1>2, Ends2 DEF Consume

(* An answer is relayed to the other peer when the room knows the tunnel. *)
LEMMA Replied ==
    ASSUME TypeOK, NEW p \in Peers, net[p] # <<>>, NEW m \in Messages, Reply(p, m)
    PROVE  /\ net' \in [Peers -> Seq(Messages)]
           /\ net'[p] = Tail(net[p])
           /\ net'[Other(p)] = IF m.att \in relayed THEN Append(net[Other(p)], m)
                               ELSE net[Other(p)]
           /\ net[p] \in Seq(Messages) /\ Head(net[p]) \in Messages
           /\ net[Other(p)] \in Seq(Messages)
<1> DEFINE q == Other(p)
           u == IF m.att \in relayed THEN Append(net[q], m) ELSE net[q]
<1>1. net[p] \in Seq(Messages) /\ net[q] \in Seq(Messages) /\ net \in [Peers -> Seq(Messages)]
  BY Ends2 DEF TypeOK
<1>2. Tail(net[p]) \in Seq(Messages) /\ Head(net[p]) \in Messages /\ u \in Seq(Messages)
  BY <1>1
<1>3. q \in Peers /\ q # p
  BY Ends2
<1>4. net' = [net EXCEPT ![p] = Tail(net[p]), ![q] = u]
  BY <1>3 DEF Reply
<1> HIDE DEF u, q
<1>5. net'[p] = Tail(net[p]) /\ net'[q] = u /\ net' \in [Peers -> Seq(Messages)]
  BY <1>1, <1>2, <1>3, <1>4
<1> QED BY <1>1, <1>2, <1>5 DEF u, q

(* Adding a message changes one stream. *)
LEMMA Put ==
    ASSUME TypeOK, NEW p \in Peers, NEW m \in Messages,
           net' = [net EXCEPT ![p] = Append(@, m)]
    PROVE  /\ net' \in [Peers -> Seq(Messages)]
           /\ net'[p] = Append(net[p], m) /\ net'[Other(p)] = net[Other(p)]
           /\ net[p] \in Seq(Messages)
<1>1. net[p] \in Seq(Messages) /\ net \in [Peers -> Seq(Messages)]
  BY DEF TypeOK
<1>2. Append(net[p], m) \in Seq(Messages)
  BY <1>1
<1> QED BY <1>1, <1>2, Ends2

(* There are finitely many attempts. *)
LEMMA AttemptsFinite == IsFiniteSet(Attempts)
<1>1. IsFiniteSet(Peers)
  <2>1. IsFiniteSet({lo})
    BY FS_Singleton
  <2>2. IsFiniteSet({lo} \cup {hi})
    BY <2>1, FS_AddElement
  <2>3. Peers = {lo} \cup {hi}
    BY DEF Peers
  <2> QED BY <2>2, <2>3
<1>2. IsFiniteSet(1 .. MaxAttempts)
  BY FS_Interval, TunnelAssumption
<1> QED BY <1>1, <1>2, FS_Product DEF Attempts

(* SetToSeq enumerates a finite set. *)
LEMMA SequenceOf ==
    ASSUME NEW S, IsFiniteSet(S)
    PROVE  SetToSeq(S) \in Seq(S)
<1> DEFINE n == Cardinality(S)
<1>1. n \in Nat
  BY FS_CardinalityType
<1>2. ExistsBijection(1 .. n, S)
  BY FS_NatBijection, FS_CardinalityType
<1>3. PICK f \in [1 .. n -> S] : IsInjective(f)
  BY <1>2 DEF ExistsBijection, Bijection, Injection, IsInjective
<1>4. SetToSeq(S) \in [1 .. n -> S]
  BY <1>3 DEF SetToSeq
<1> QED BY <1>1, <1>4

(* The ends of a lost client's streams are messages. *)
LEMMA EndsAreMessages ==
    ASSUME TypeOK, NEW type \in {"end", "error"}
    PROVE  Ends(type) \in Seq(Messages)
<1>1. IsFiniteSet(relayed)
  BY AttemptsFinite, FS_Subset DEF TypeOK
<1>2. SetToSeq(relayed) \in Seq(relayed)
  BY <1>1, SequenceOf
<1>3. \A i \in 1 .. Len(SetToSeq(relayed)) :
         [type |-> type, att |-> SetToSeq(relayed)[i]] \in Messages
  <2> SUFFICES ASSUME NEW i \in 1 .. Len(SetToSeq(relayed))
               PROVE  [type |-> type, att |-> SetToSeq(relayed)[i]] \in Messages
    OBVIOUS
  <2>1. SetToSeq(relayed)[i] \in relayed
    BY <1>2
  <2>2. SetToSeq(relayed)[i] \in Attempts
    BY <2>1 DEF TypeOK
  <2> QED BY <2>2, MessageForms
<1>4. Len(SetToSeq(relayed)) \in Nat
  BY <1>2
<1> QED BY <1>3, <1>4 DEF Ends

-----------------------------------------------------------------------------
(* Types. *)

(* setActiveTunnel:forPeerID: keeps the types. *)
LEMMA SetTypes ==
    ASSUME TypeOK, NEW p \in Peers, NEW t \in Attempts \cup {None}, NEW n \in 0 .. 4,
           t = None => n = 0, SetTunnel(p, t, n)
    PROVE  /\ active' \in [Peers -> Attempts \cup {None}]
           /\ hs' \in [Peers -> 0 .. 4]
           /\ \A q \in Peers : active'[q] = None => hs'[q] = 0
           /\ active'[p] = t /\ hs'[p] = n
           /\ active'[Other(p)] = active[Other(p)] /\ hs'[Other(p)] = hs[Other(p)]
BY Ends2 DEF SetTunnel, TypeOK

(* So does the error path of connectToPeer:. *)
LEMMA FailsTypes ==
    ASSUME TypeOK, NEW p \in Peers, NEW mine, ConnectFails(p, mine)
    PROVE  /\ active' \in [Peers -> Attempts \cup {None}]
           /\ hs' \in [Peers -> 0 .. 4]
           /\ \A q \in Peers : active'[q] = None => hs'[q] = 0
           /\ waiting' \in [Peers -> BOOLEAN]
<1>1. CASE active[p] \in {None, mine}
  <2>1. SetTunnel(p, None, 0) /\ waiting' = [waiting EXCEPT ![p] = TRUE]
    BY <1>1 DEF ConnectFails
  <2>2. 0 \in 0 .. 4
    OBVIOUS
  <2> QED BY <2>1, <2>2, SetTypes DEF TypeOK
<1>2. CASE active[p] \notin {None, mine}
  BY <1>2 DEF ConnectFails, TypeOK
<1> QED BY <1>1, <1>2

(* The steps of the main thread keep the types. *)
LEMMA ConnectType == ASSUME TypeOK, NEW p \in Peers, Connect(p) PROVE TypeOK'
<1>1. CASE ConnectFires(p)
  <2>1. timers' \in [Peers -> 0 .. MaxTimers]
    <3>1. timers[p] - 1 \in 0 .. MaxTimers
      BY <1>1, TunnelAssumption DEF ConnectFires, TypeOK
    <3> QED BY <1>1, <3>1 DEF ConnectFires, TypeOK
  <2>2. main' \in [Peers -> {"idle", "checked", "sent"}]
        /\ \A q \in Peers : main'[q] = "sent" => main[q] = "sent"
    BY <1>1 DEF ConnectFires, TypeOK
  <2>3. UNCHANGED <<online, active, hs, waiting, made, relayed, net, drops, asks, raced, lapsed, skipped>>
    BY <1>1 DEF ConnectFires, room, history
  <2> QED BY <2>1, <2>2, <2>3 DEF TypeOK
<1>2. CASE SendConnect(p)
  <2> DEFINE t == <<p, made[p] + 1>>
  <2>1. made[p] + 1 \in 1 .. MaxAttempts /\ t \in Attempts
    BY <1>2, TunnelAssumption DEF SendConnect, TypeOK, Attempts
  <2>2. made' \in [Peers -> 0 .. MaxAttempts]
    BY <1>2, <2>1 DEF SendConnect, TypeOK
  <2>3. main' \in [Peers -> {"idle", "checked", "sent"}]
        /\ \A q \in Peers : main'[q] = "sent" => made'[q] # 0
    BY <1>2, <2>1 DEF SendConnect, TypeOK
  <2>4. net' \in [Peers -> Seq(Messages)] /\ relayed' \subseteq Attempts
    <3>1. CASE online[Other(p)]
      <4>1. /\ relayed' = relayed \cup {t}
            /\ net' = [net EXCEPT ![Other(p)] = Append(@, [type |-> "connect", att |-> t])]
        BY <1>2, <3>1 DEF SendConnect
      <4> HIDE DEF t
      <4>2. [type |-> "connect", att |-> t] \in Messages /\ Other(p) \in Peers
        BY <2>1, MessageForms, Ends2
      <4>3. net' \in [Peers -> Seq(Messages)]
        BY <4>1, <4>2, Put
      <4> QED BY <2>1, <4>1, <4>3 DEF TypeOK
    <3>2. CASE ~online[Other(p)]
      <4>1. /\ relayed' = relayed
            /\ net' = [net EXCEPT ![p] = Append(@, [type |-> "error", att |-> t])]
        BY <1>2, <3>2 DEF SendConnect
      <4> HIDE DEF t
      <4> QED BY <2>1, <4>1, Put, MessageForms DEF TypeOK
    <3> QED BY <3>1, <3>2
  <2>5. UNCHANGED <<online, active, hs, timers, waiting, drops, asks, raced, lapsed, skipped>>
    BY <1>2 DEF SendConnect, history
  <2> QED BY <2>2, <2>3, <2>4, <2>5 DEF TypeOK
<1>3. CASE SendConnectOffline(p)
  <2>1. main' \in [Peers -> {"idle", "checked", "sent"}]
        /\ \A q \in Peers : main'[q] = "sent" => main[q] = "sent"
    BY <1>3 DEF SendConnectOffline, TypeOK
  <2>2. ConnectFails(p, None)
    BY <1>3 DEF SendConnectOffline
  <2>3. UNCHANGED <<online, timers, made, relayed, net, drops, asks, raced, lapsed, skipped>>
    BY <1>3 DEF SendConnectOffline, room, history
  <2> QED BY <2>1, <2>2, <2>3, FailsTypes DEF TypeOK
<1>4. CASE SetActiveTunnel(p)
  <2> DEFINE t == <<p, made[p]>>
  <2>1. made[p] \in 1 .. MaxAttempts /\ t \in Attempts
    BY <1>4, TunnelAssumption DEF SetActiveTunnel, TypeOK, Attempts
  <2>2. SetTunnel(p, t, 1)
    BY <1>4 DEF SetActiveTunnel
  <2>3. net' = IF t \in relayed THEN [net EXCEPT ![Other(p)] = Append(@, Data(t, 1))] ELSE net
    BY <1>4 DEF SetActiveTunnel
  <2>4. main' \in [Peers -> {"idle", "checked", "sent"}]
        /\ \A q \in Peers : main'[q] = "sent" => main[q] = "sent"
    BY <1>4 DEF SetActiveTunnel, TypeOK
  <2>5. UNCHANGED <<online, timers, waiting, made, relayed, drops, asks, raced, lapsed, skipped>>
    BY <1>4 DEF SetActiveTunnel, history
  <2> HIDE DEF t
  <2>6. /\ active' \in [Peers -> Attempts \cup {None}]
        /\ hs' \in [Peers -> 0 .. 4]
        /\ \A q \in Peers : active'[q] = None => hs'[q] = 0
    <3>1. 1 \in 0 .. 4 /\ t # None
      BY <2>1, Tunnels
    <3> QED BY <2>1, <2>2, <3>1, SetTypes
  <2>7. net' \in [Peers -> Seq(Messages)]
    <3>1. Data(t, 1) \in Messages
      BY <2>1, MessageForms
    <3> QED BY <2>3, <3>1, Put, Ends2 DEF TypeOK
  <2> QED BY <2>4, <2>5, <2>6, <2>7 DEF TypeOK
<1> QED BY <1>1, <1>2, <1>3, <1>4 DEF Connect

(* replicateFromPeer: never removes a tunnel: no terminal status is kept.   *)
LEMMA ReplicateKeeps ==
    ASSUME NEW p \in Peers, Replicate(p)
    PROVE  UNCHANGED <<active, hs>>
<1>1. \A status \in KeptStatuses : status \notin Terminal
  BY DEF KeptStatuses, Terminal
<1> QED BY <1>1 DEF Replicate

(* replicateFromPeer:viaRoom: keeps the types. *)
LEMMA ReplicateType ==
    ASSUME TypeOK, NEW p \in Peers, Replicate(p)
    PROVE  timers' \in [Peers -> 0 .. MaxTimers] /\ skipped' \in BOOLEAN
<1>1. timers[p] < MaxTimers => timers[p] + 1 \in 0 .. MaxTimers
  BY TunnelAssumption DEF TypeOK
<1>2. timers' \in [Peers -> 0 .. MaxTimers]
  BY <1>1 DEF Replicate, TypeOK
<1>3. skipped' \in BOOLEAN
  BY DEF Replicate, TypeOK
<1> QED BY <1>2, <1>3

(* A handshake message keeps the types. *)
LEMMA ReceiveDataType ==
    ASSUME TypeOK, NEW p \in Peers, ReceiveData(p)
    PROVE  /\ net' \in [Peers -> Seq(Messages)] /\ hs' \in [Peers -> 0 .. 4]
           /\ \A q \in Peers : active'[q] = None => hs'[q] = 0
<1> DEFINE m == Head(net[p])
<1>1. net[p] # <<>> /\ m \in Messages /\ m.type = "data" /\ m.att \in Attempts /\ m.n \in 1 .. 4
  <2>1. net[p] # <<>> /\ m.type = "data" /\ net[p] \in Seq(Messages)
    BY DEF ReceiveData, First, TypeOK
  <2> QED BY <2>1, MessageForms
<1>2. active' = active
  BY DEF ReceiveData
<1>3. CASE m.att = active[p]
  <2>1. /\ hs' = [hs EXCEPT ![p] = IF m.n = 4 THEN 4 ELSE m.n + 1]
        /\ IF m.n = 4 THEN Consume(p) ELSE Reply(p, Data(m.att, m.n + 1))
    BY <1>3 DEF ReceiveData
  <2>2. (IF m.n = 4 THEN 4 ELSE m.n + 1) \in 0 .. 4
    BY <1>1
  <2>3. active[p] # None
    BY <1>1, <1>3, Tunnels
  <2>4. net' \in [Peers -> Seq(Messages)]
    <3>1. CASE m.n = 4
      BY <1>1, <2>1, <3>1, Consumed
    <3>2. CASE m.n # 4
      <4>1. Data(m.att, m.n + 1) \in Messages
        BY <1>1, <3>2, MessageForms
      <4> QED BY <1>1, <2>1, <3>2, <4>1, Replied
    <3> QED BY <3>1, <3>2
  <2> HIDE DEF m
  <2> QED BY <1>2, <2>1, <2>2, <2>3, <2>4 DEF TypeOK
<1>4. CASE m.att # active[p]
  <2>1. Consume(p) /\ hs' = hs
    BY <1>4 DEF ReceiveData
  <2> QED BY <1>1, <1>2, <2>1, Consumed DEF TypeOK
<1> QED BY <1>3, <1>4

(* The steps of clientQueue keep the types. *)
LEMMA HandleType == ASSUME TypeOK, NEW p \in Peers, Handle(p) PROVE TypeOK'
<1> DEFINE m == Head(net[p])
<1>0. net[p] # <<>> /\ m \in Messages
      /\ (m.type \in {"connect", "end", "error"} => m.att \in Attempts)
  <2>1. net[p] # <<>> /\ net[p] \in Seq(Messages)
    BY DEF Handle, First, ReceiveJoined, RejectConnect, AcceptConnect, ReceiveData, ReceiveEnd,
           ReceiveError, TypeOK
  <2>2. m \in Messages
    BY <2>1
  <2> QED BY <2>1, <2>2, MessageForms
<1>1. CASE ReceiveJoined(p)
  <2>1. Replicate(p) /\ Consume(p)
        /\ UNCHANGED <<online, active, hs, main, waiting, made, relayed, drops, asks, raced, lapsed>>
    BY <1>1, ReplicateKeeps DEF ReceiveJoined
  <2> QED BY <1>0, <2>1, Consumed, ReplicateType DEF TypeOK
<1>2. CASE RejectConnect(p)
  <2>1. /\ Reply(p, [type |-> "end", att |-> m.att]) /\ relayed' = relayed \ {m.att}
        /\ UNCHANGED <<online, active, hs, main, timers, waiting, made, drops, asks, raced, lapsed, skipped>>
        /\ m.type = "connect"
    BY <1>2 DEF RejectConnect, client, history, First
  <2>2. [type |-> "end", att |-> m.att] \in Messages
    BY <1>0, <2>1, MessageForms
  <2>3. net' \in [Peers -> Seq(Messages)]
    BY <1>0, <2>1, <2>2, Replied
  <2> QED BY <2>1, <2>3 DEF TypeOK
<1>3. CASE AcceptConnect(p)
  <2>1. /\ Consume(p) /\ SetTunnel(p, m.att, 0) /\ m.att \in Attempts
        /\ raced' = IF main[p] = "idle" THEN raced ELSE raced \cup {p}
        /\ UNCHANGED <<online, main, timers, waiting, made, relayed, drops, asks, lapsed, skipped>>
    BY <1>0, <1>3 DEF AcceptConnect, First
  <2> HIDE DEF m
  <2>2. /\ active' \in [Peers -> Attempts \cup {None}]
        /\ hs' \in [Peers -> 0 .. 4]
        /\ \A q \in Peers : active'[q] = None => hs'[q] = 0
    <3>1. 0 \in 0 .. 4
      OBVIOUS
    <3> QED BY <2>1, <3>1, SetTypes
  <2> QED BY <1>0, <2>1, <2>2, Consumed DEF TypeOK
<1>4. CASE ReceiveData(p)
  <2>1. UNCHANGED <<online, active, main, timers, made, relayed, drops, asks, raced, lapsed, skipped>>
    BY <1>4 DEF ReceiveData, history
  <2>2. waiting' \in [Peers -> BOOLEAN]
    BY <1>4 DEF ReceiveData, TypeOK
  <2> QED BY <1>4, <2>1, <2>2, ReceiveDataType DEF TypeOK
<1>5. CASE ReceiveEnd(p)
  <2>1. /\ Consume(p)
        /\ lapsed' = IF m.att = active[p] THEN lapsed \cup {active[p]} ELSE lapsed
        /\ UNCHANGED <<online, active, hs, main, timers, waiting, made, relayed, drops, asks, skipped>>
        /\ m.att \in Attempts /\ raced' \subseteq raced \cup {p}
    BY <1>0, <1>5 DEF ReceiveEnd, client, AnswerOvertakes, First
  <2>2. lapsed' \subseteq Attempts
    BY <2>1 DEF TypeOK
  <2> QED BY <1>0, <2>1, <2>2, Consumed DEF TypeOK
<1>6. CASE ReceiveError(p)
  <2>1. /\ Consume(p)
        /\ UNCHANGED <<online, main, timers, made, relayed, drops, asks, skipped>>
        /\ m.att \in Attempts /\ raced' \subseteq raced \cup {p}
    BY <1>0, <1>6 DEF ReceiveError, AnswerOvertakes, First
  <2>2. /\ lapsed' \subseteq Attempts
        /\ active' \in [Peers -> Attempts \cup {None}]
        /\ hs' \in [Peers -> 0 .. 4]
        /\ \A q \in Peers : active'[q] = None => hs'[q] = 0
        /\ waiting' \in [Peers -> BOOLEAN]
    <3>1. CASE Initiator(m.att) = p
      <4>1. /\ ConnectFails(p, IF active[p] = m.att THEN m.att ELSE None)
            /\ lapsed' = lapsed
        BY <1>6, <3>1 DEF ReceiveError
      <4> QED BY <4>1, FailsTypes DEF TypeOK
    <3>2. CASE Initiator(m.att) # p
      <4>1. /\ lapsed' = (IF active[p] = m.att THEN lapsed \cup {m.att} ELSE lapsed)
            /\ UNCHANGED <<active, hs, waiting>>
        BY <1>6, <3>2 DEF ReceiveError
      <4> QED BY <2>1, <4>1 DEF TypeOK
    <3> QED BY <3>1, <3>2
  <2> QED BY <1>0, <2>1, <2>2, Consumed DEF TypeOK
<1> QED BY <1>1, <1>2, <1>3, <1>4, <1>5, <1>6 DEF Handle

(* So do those of the user, the timers and the connection to the room. *)
LEMMA RoomType ==
    ASSUME TypeOK, NEW p \in Peers,
           Ask(p) \/ RetryDatePasses(p) \/ Disconnect(p) \/ Reconnect(p)
    PROVE  TypeOK'
<1>1. CASE Ask(p)
  <2>1. /\ Replicate(p)
        /\ UNCHANGED <<online, active, hs, main, waiting, made, relayed, net, drops, raced, lapsed>>
        /\ asks' \in 0 .. MaxAsks
    BY <1>1, ReplicateKeeps, TunnelAssumption DEF Ask, room, TypeOK
  <2> QED BY <2>1, ReplicateType DEF TypeOK
<1>2. CASE RetryDatePasses(p)
  BY <1>2 DEF RetryDatePasses, TypeOK, room, history
<1>3. CASE Disconnect(p)
  <2>1. /\ SetTunnel(p, None, 0)
        /\ relayed' = {} /\ raced' \subseteq raced \cup {p}
        /\ UNCHANGED <<main, timers, waiting, made, asks, lapsed, skipped>>
        /\ drops' \in 0 .. MaxDrops
        /\ online' \in [Peers -> BOOLEAN]
    BY <1>3, TunnelAssumption DEF Disconnect, TypeOK
  <2>2. net' \in [Peers -> Seq(Messages)]
    <3>1. PICK type \in {"end", "error"} :
             net' = [net EXCEPT ![p] = <<>>, ![Other(p)] = @ \o Ends(type)]
      BY <1>3 DEF Disconnect
    <3>2. net[Other(p)] \o Ends(type) \in Seq(Messages) /\ <<>> \in Seq(Messages)
      BY EndsAreMessages, Ends2 DEF TypeOK
    <3>3. net' = [net EXCEPT ![p] = <<>>, ![Other(p)] = net[Other(p)] \o Ends(type)]
      BY <3>1, Ends2
    <3> QED BY <3>2, <3>3 DEF TypeOK
  <2>3. 0 \in 0 .. 4
    OBVIOUS
  <2> QED BY <2>1, <2>2, <2>3, SetTypes DEF TypeOK
<1>4. CASE Reconnect(p)
  <2>1. online' \in [Peers -> BOOLEAN]
        /\ UNCHANGED <<active, hs, main, timers, waiting, made, relayed, drops, asks, raced, lapsed, skipped>>
    BY <1>4 DEF Reconnect, TypeOK, history
  <2>2. \A q \in Peers : Append(net[q], Joined) \in Seq(Messages)
    BY MessageForms DEF TypeOK
  <2>3. net' \in [Peers -> Seq(Messages)]
    BY <1>4, <2>2 DEF Reconnect, TypeOK
  <2> QED BY <2>1, <2>3 DEF TypeOK
<1> QED BY <1>1, <1>2, <1>3, <1>4

(* Every step keeps the types. *)
LEMMA TypeInv == TypeOK /\ [Next]_vars => TypeOK'
<1> SUFFICES ASSUME TypeOK, [Next]_vars PROVE TypeOK'
  OBVIOUS
<1>1. CASE Next
  BY <1>1, ConnectType, HandleType, RoomType DEF Next
<1>2. CASE UNCHANGED vars
  BY <1>2 DEF vars, client, room, history, TypeOK
<1> QED BY <1>1, <1>2

-----------------------------------------------------------------------------
(* Each step keeps the peers undisturbed while no connection is lost. *)

(* Undisturbed, one peer at a time. *)
LEMMA BothPeers ==
    ASSUME NEW p \in Peers,
           Progress(p)', Progress(Other(p))', Incoming(p)', Incoming(Other(p))',
           Tunnel(p)', Tunnel(Other(p))', TakesOther'
    PROVE  Undisturbed'
<1>1. \A q \in Peers : q = p \/ q = Other(p)
  BY Ends2
<1>2. SUFFICES ASSUME NEW q \in Peers PROVE (Progress(q) /\ Incoming(q) /\ Tunnel(q))'
  BY DEF Undisturbed
<1>3. CASE q = p
  BY <1>3
<1>4. CASE q = Other(p)
  BY <1>4
<1> QED BY <1>1, <1>3, <1>4

(* Steps that touch no queue and no tunnel. *)
LEMMA ConnectFiresKeeps ==
    ASSUME Undisturbed, TypeOK, NEW p \in Peers, ConnectFires(p)
    PROVE  Undisturbed'
<1>1. UNCHANGED <<online, active, hs, waiting, made, relayed, net, drops, asks, raced>>
  BY DEF ConnectFires, room, history
<1>2. /\ main[p] = "idle"
      /\ main' = IF active[p] = None THEN [main EXCEPT ![p] = "checked"] ELSE main
      /\ main \in [Peers -> {"idle", "checked", "sent"}]
  BY DEF ConnectFires, TypeOK
<1>3. \A q \in Peers : \/ main'[q] = main[q]
                       \/ q = p /\ main'[q] = "checked" /\ active[p] = None
  <2>1. CASE active[p] = None
    BY <1>2, <2>1
  <2>2. CASE active[p] # None
    BY <1>2, <2>2
  <2> QED BY <2>1, <2>2
<1>4. SUFFICES ASSUME NEW q \in Peers PROVE (Progress(q) /\ Incoming(q) /\ Tunnel(q))' /\ TakesOther'
  BY Ends2 DEF Undisturbed
<1>5. Progress(q)'
  <2>1. Progress(q)
    BY DEF Undisturbed
  <2>2. CASE main'[q] = main[q]
    BY <1>1, <2>1, <2>2 DEF Progress
  <2>3. CASE q = p /\ main'[q] = "checked" /\ active[p] = None
    BY <1>1, <1>2, <2>1, <2>3, Tunnels DEF Progress
  <2> QED BY <1>3, <2>2, <2>3
<1>6. Incoming(q)'
  BY <1>1 DEF Undisturbed, Incoming
<1>7. Tunnel(q)'
  <2>1. SameTunnel(q)
    BY <1>1, <1>3, SameSelf DEF SameTunnel
  <2> QED BY <2>1, Unchanged DEF Undisturbed
<1>8. TakesOther'
  BY <1>1, <1>2, <1>3, Ends2, Tunnels DEF Undisturbed, TakesOther
<1> QED BY <1>5, <1>6, <1>7, <1>8

(* Retry dates and the user's requests change nothing of a tunnel. *)
LEMMA AskKeeps ==
    ASSUME Undisturbed, NEW p \in Peers, Ask(p) \/ RetryDatePasses(p)
    PROVE  Undisturbed'
<1>1. UNCHANGED <<online, active, hs, main, made, relayed, net, raced>>
  BY ReplicateKeeps DEF Ask, RetryDatePasses, room, history
<1>2. TakesOther'
  BY <1>1 DEF Undisturbed, TakesOther
<1>3. ASSUME NEW q \in Peers PROVE (Progress(q) /\ Incoming(q) /\ Tunnel(q))'
  <2>1. Progress(q)' /\ Incoming(q)'
    BY <1>1 DEF Undisturbed, Progress, Incoming
  <2>2. SameTunnel(q)
    BY <1>1, SameSelf DEF SameTunnel
  <2>3. Tunnel(q)'
    BY <2>2, Unchanged DEF Undisturbed
  <2> QED BY <2>1, <2>3
<1> QED BY <1>2, <1>3 DEF Undisturbed

(* A request that is sent is the first of its peer. *)
LEMMA SendConnectKeeps ==
    ASSUME Undisturbed, TypeOK, NEW p \in Peers, SendConnect(p)
    PROVE  Undisturbed'
<1> DEFINE q == Other(p)
           m == [type |-> "connect", att |-> T(p)]
<1>1. /\ q \in Peers /\ q # p /\ Other(q) = p /\ T(p) # T(q) /\ T(p) # None /\ T(q) # None
      /\ m \in Messages /\ m.type = "connect" /\ m.att = T(p)
  BY Ends2, Tunnels, MessageForms
<1>2. /\ Progress(p) /\ Progress(q) /\ Incoming(p) /\ Incoming(q) /\ Tunnel(p) /\ Tunnel(q)
      /\ TakesOther
  BY <1>1 DEF Undisturbed
<1>3. /\ main[p] = "checked" /\ made[p] = 0 /\ online[q]
      /\ active[p] # T(p)
  BY <1>2 DEF SendConnect, Progress
<1>4. /\ relayed' = relayed \cup {T(p)}
      /\ net' = [net EXCEPT ![q] = Append(@, m)]
  BY <1>3 DEF SendConnect, T
<1>5. /\ main'[p] = "sent" /\ main'[q] = main[q]
      /\ made'[p] = 1 /\ made'[q] = made[q]
      /\ UNCHANGED <<online, active, hs, raced>>
  BY <1>1, <1>3 DEF SendConnect, TypeOK, history
<1> HIDE DEF m
<1>6. /\ net'[q] = Append(net[q], m) /\ net'[p] = net[p] /\ net[q] \in Seq(Messages)
  BY <1>1, <1>4, Put
<1> HIDE DEF q
<1>7. Progress(p)'
  BY <1>2, <1>3, <1>5 DEF Progress, q
<1>8. Progress(q)'
  BY <1>1, <1>2, <1>5 DEF Progress
<1>9. Incoming(p)' /\ Incoming(q)'
  <2>1. Relays(net'[p], p)
    BY <1>2, <1>6 DEF Incoming
  <2>2. Relays(net'[q], q)
    BY <1>1, <1>2, <1>6, RelaysAppend DEF Incoming
  <2> QED BY <2>1, <2>2 DEF Incoming
<1>10. Tunnel(q)'
  <2>1. ~About(m, T(q))
    BY <1>1 DEF About
  <2>2. Same(net[q], net'[q], T(q)) /\ Same(net[p], net'[p], T(q))
    BY <1>1, <1>6, <2>1, SameAppend, SameSelf
  <2>3. \A r \in Peers : r = p \/ r = q
    BY <1>1, Ends2 DEF q
  <2>4. SameTunnel(q)
    BY <1>4, <1>5, <2>2, <2>3 DEF SameTunnel
  <2> QED BY <1>1, <1>2, <2>4, Unchanged
<1>11. Tunnel(p)'
  <2>1. /\ Marks(net[q], "connect", T(p)) = {} /\ active[q] # T(p)
        /\ \A r \in Peers : Said(net[r], T(p)) = {}
    BY <1>2, <1>3 DEF Tunnel, NotMade, Asked, q
  <2>2. Marks(net'[q], "connect", T(p)) = {Len(net[q]) + 1}
    <3>1. Marks(Append(net[q], m), "connect", T(p)) = Marks(net[q], "connect", T(p)) \cup
            IF m.type = "connect" /\ m.att = T(p) THEN {Len(net[q]) + 1} ELSE {}
      BY <1>1, <1>6, AppendMarks
    <3> QED BY <1>1, <1>6, <2>1, <3>1
  <2>3. \A r \in Peers : Said(net'[r], T(p)) = {}
    <3>1. Said(Append(net[q], m), T(p)) = Said(net[q], T(p))
      BY <1>1, <1>6, AppendSaid
    <3>2. Said(net'[q], T(p)) = {} /\ Said(net'[p], T(p)) = {}
      BY <1>1, <1>6, <2>1, <3>1
    <3> QED BY <3>2, Ends2 DEF q
  <2>4. \A r \in Peers : Marks(net'[r], "data", T(p)) = {}
    BY <2>3 DEF Said
  <2>5. Asked(p)' = {Len(net[q]) + 1}
    BY <2>2 DEF Asked, q
  <2>6. NotMade(p)' /\ Answered(p)' /\ NotStarted(p)' /\ Relayed(p)' /\ Handshake(p)'
    <3>1. active'[q] # T(p) /\ main'[p] = "sent" /\ made'[p] = 1 /\ Asked(p)' # {}
      BY <1>6, <1>5, <2>1, <2>5
    <3>2. NotMade(p)' /\ Answered(p)'
      BY <3>1 DEF NotMade, Answered
    <3>3. NotStarted(p)'
      BY <2>3, <3>1 DEF NotStarted, q
    <3>4. Handshake(p)'
      BY <1>1, <3>1 DEF Handshake
    <3>5. Relayed(p)'
      BY <1>4, <3>1 DEF Relayed, q
    <3> QED BY <3>2, <3>3, <3>4, <3>5
  <2>7. Requested(p)'
    BY <1>1, <1>3, <1>4, <1>5, <2>1, <2>3 DEF Requested, q
  <2>8. Single(p)'
    BY <1>1, <2>3, <2>4, <2>5, Ends2 DEF Single, AtMostOne, Ordered, q
  <2> QED BY <2>6, <2>7, <2>8 DEF Tunnel
<1>12. TakesOther'
  BY <1>1, <1>2, <1>5, Ends2 DEF TakesOther, q
<1> QED BY <1>7, <1>8, <1>9, <1>10, <1>11, <1>12, BothPeers DEF q

(* The outgoing tunnel is stored over nothing, or over one that loses the tie. *)
LEMMA SetActiveKeeps ==
    ASSUME Undisturbed, TypeOK, NEW p \in Peers, SetActiveTunnel(p)
    PROVE  Undisturbed'
<1> DEFINE q == Other(p)
           m == Data(T(p), 1)
<1>1. /\ q \in Peers /\ q # p /\ Other(q) = p /\ T(p) # T(q) /\ T(p) # None /\ T(q) # None
      /\ \A r \in Peers : r = p \/ r = q
      /\ m \in Messages /\ m.type = "data" /\ m.att = T(p) /\ m.n = 1
  <2>1. T(p) \in Attempts /\ 1 \in 1 .. 4
    BY Tunnels
  <2>2. m \in Messages /\ m.type = "data" /\ m.att = T(p) /\ m.n = 1
    BY <2>1, MessageForms
  <2> HIDE DEF m
  <2> QED BY <2>2, Ends2, Tunnels
<1>2. /\ Progress(p) /\ Progress(q) /\ Incoming(p) /\ Incoming(q) /\ Tunnel(p) /\ Tunnel(q)
      /\ TakesOther
  BY <1>1 DEF Undisturbed
<1>3. /\ main[p] = "sent" /\ made[p] = 1 /\ active[p] # T(p)
      /\ p \notin raced => active[p] = None
  BY <1>2 DEF SetActiveTunnel, Progress
<1>4. /\ SetTunnel(p, T(p), 1)
      /\ net' = IF T(p) \in relayed THEN [net EXCEPT ![q] = Append(@, m)] ELSE net
  BY <1>3 DEF SetActiveTunnel, T
<1> HIDE DEF m
<1>5. /\ main'[p] = "idle" /\ main'[q] = main[q]
      /\ UNCHANGED <<online, made, relayed, raced>>
  BY <1>1 DEF SetActiveTunnel, TypeOK, history
<1>6. /\ active'[p] = T(p) /\ hs'[p] = 1
      /\ active'[q] = active[q] /\ hs'[q] = hs[q]
  <2>1. 1 \in 0 .. 4 /\ T(p) \in Attempts \cup {None}
    BY Tunnels
  <2> QED BY <1>1, <1>4, <2>1, SetTypes
<1>7. /\ net'[q] = IF T(p) \in relayed THEN Append(net[q], m) ELSE net[q]
      /\ net'[p] = net[p] /\ net[q] \in Seq(Messages)
  BY <1>1, <1>4, Put DEF TypeOK
<1> HIDE DEF q
<1>8. Progress(p)' /\ Progress(q)'
  BY <1>1, <1>2, <1>3, <1>5, <1>6 DEF Progress, q
<1>9. Incoming(p)' /\ Incoming(q)'
  <2>1. Relays(net'[p], p)
    BY <1>2, <1>7 DEF Incoming
  <2>2. Relays(net'[q], q)
    BY <1>1, <1>2, <1>7, RelaysAppend DEF Incoming
  <2> QED BY <2>1, <2>2 DEF Incoming
<1>10. Tunnel(q)'
  <2>1. ~About(m, T(q))
    BY <1>1 DEF About
  <2>2. Same(net[q], net'[q], T(q)) /\ Same(net[p], net'[p], T(q))
    BY <1>1, <1>7, <2>1, SameAppend, SameSelf
  <2>3. \A r \in Peers : active'[r] = T(q) => active[r] = T(q) /\ hs'[r] = hs[r]
    BY <1>1, <1>6
  <2>4. q = lo /\ hi \notin raced' /\ made[lo] = 1 /\ active[hi] = T(lo) => active'[hi] = T(lo)
    BY <1>1, <1>3, <1>5, Ends2, Tunnels DEF q
  <2>5. active[lo] # None => active'[lo] # None
    BY <1>1, <1>6, Ends2
  <2>6. SameTunnel(q)
    BY <1>1, <1>5, <2>2, <2>3, <2>4, <2>5 DEF SameTunnel
  <2> QED BY <1>1, <1>2, <2>6, Unchanged
<1>11. Tunnel(p)'
  <2>1. /\ \A r \in Peers : Said(net[r], T(p)) = {}
        /\ \A r \in Peers : Marks(net[r], "data", T(p)) = {}
        /\ active[q] = T(p) => hs[q] = 0
    BY <1>2, <1>3 DEF Tunnel, NotStarted, Said, q
  <2>2. /\ Marks(net'[q], "connect", T(p)) = Marks(net[q], "connect", T(p))
        /\ \A k \in Marks(net[q], "connect", T(p)) : k \in 1 .. Len(net[q])
        /\ Marks(net'[q], "data", T(p)) = IF T(p) \in relayed THEN {Len(net[q]) + 1} ELSE {}
        /\ Said(net'[q], T(p)) = IF T(p) \in relayed THEN {1} ELSE {}
        /\ Len(net[q]) \in Nat
    <3>1. CASE T(p) \in relayed
      <4>1. /\ Marks(Append(net[q], m), "connect", T(p)) = Marks(net[q], "connect", T(p))
            /\ Marks(Append(net[q], m), "data", T(p)) = Marks(net[q], "data", T(p)) \cup
                   IF m.type = "data" /\ m.att = T(p) THEN {Len(net[q]) + 1} ELSE {}
            /\ \A k \in Marks(net[q], "connect", T(p)) : k \in 1 .. Len(net[q])
            /\ Len(net[q]) \in Nat
        <5>1. /\ Marks(Append(net[q], m), "connect", T(p)) = Marks(net[q], "connect", T(p))
              /\ \A k \in Marks(net[q], "connect", T(p)) : k \in 1 .. Len(net[q])
          <6>1. \A k \in Marks(net[q], "connect", T(p)) : k \in 1 .. Len(net[q])
            BY <1>7 DEF Marks
          <6>2. Marks(Append(net[q], m), "connect", T(p)) = Marks(net[q], "connect", T(p))
            BY <1>1, <1>7, AppendRequest
          <6> QED BY <6>1, <6>2
        <5>2. Marks(Append(net[q], m), "data", T(p)) = Marks(net[q], "data", T(p)) \cup
                 IF m.type = "data" /\ m.att = T(p) THEN {Len(net[q]) + 1} ELSE {}
          BY <1>1, <1>7, AppendMarks
        <5> QED BY <1>7, <5>1, <5>2
      <4>2. Said(Append(net[q], m), T(p)) = Said(net[q], T(p)) \cup {m.n}
        BY <1>1, <1>7, AppendSaid
      <4> QED BY <1>1, <1>7, <2>1, <3>1, <4>1, <4>2
    <3>2. CASE T(p) \notin relayed
      <4>1. \A k \in Marks(net[q], "connect", T(p)) : k \in 1 .. Len(net[q])
        BY <1>7 DEF Marks
      <4>2. Len(net[q]) \in Nat
        BY <1>7
      <4> QED BY <1>1, <1>7, <2>1, <3>2, <4>1, <4>2
    <3> QED BY <3>1, <3>2
  <2>3. Asked(p)' = Asked(p) /\ Asked(p) = Marks(net[q], "connect", T(p))
    BY <2>2 DEF Asked, q
  <2>4. Said(net'[p], T(p)) = {} /\ Marks(net'[p], "data", T(p)) = {}
    BY <1>7, <2>1
  <2>5. NotMade(p)' /\ NotStarted(p)' /\ Relayed(p)'
    BY <1>1, <1>2, <1>3, <1>5, <1>6 DEF NotMade, NotStarted, Relayed, Tunnel, q
  <2>6. Requested(p)'
    BY <1>1, <1>2, <1>5, <1>6, <2>2, <2>3, <2>4 DEF Requested, Tunnel, q
  <2>7. Answered(p)'
    BY <1>1, <1>2, <1>3, <1>5, <1>6, <2>3, Ends2, Tunnels DEF Answered, Tunnel, q
  <2>8. Handshake(p)'
    <3> SUFFICES ASSUME \A r \in Peers : active'[r] = T(p)
                 PROVE  /\ \A r \in Peers : \A n \in Said(net'[r], T(p)) :
                              hs'[r] = n - 1 /\ hs'[Other(r)] = n
                        /\ \E r \in Peers : Said(net'[r], T(p)) # {}
      BY DEF Handshake
    <3>1. active[q] = T(p) /\ T(p) \in relayed /\ hs[q] = 0
      BY <1>1, <1>2, <1>6, <2>1 DEF Tunnel, Relayed, q
    <3>2. Said(net'[q], T(p)) = {1}
      BY <2>2, <3>1
    <3>3. hs'[q] = 1 - 1 /\ hs'[Other(q)] = 1
      BY <1>1, <1>6, <3>1
    <3> QED BY <1>1, <2>4, <3>2, <3>3
  <2>9. Single(p)'
    <3>1. AtMostOne(Asked(p)')
      BY <1>2, <2>3 DEF Tunnel, Single
    <3>2. \A r \in Peers : AtMostOne(Marks(net'[r], "data", T(p)))
      BY <1>1, <2>2, <2>4 DEF AtMostOne
    <3>3. \A r \in Peers : Said(net'[r], T(p)) = {} \/ Said(net'[Other(r)], T(p)) = {}
      BY <1>1, <2>4 DEF q
    <3>4. Ordered(net'[q], T(p))
      BY <2>2 DEF Ordered
    <3> QED BY <3>1, <3>2, <3>3, <3>4 DEF Single, q
  <2> QED BY <2>5, <2>6, <2>7, <2>8, <2>9 DEF Tunnel
<1>12. TakesOther'
  BY <1>1, <1>2, <1>5, <1>6, Ends2, Tunnels DEF TakesOther
<1> QED BY <1>8, <1>9, <1>10, <1>11, <1>12, BothPeers DEF q

(* A message that changes no tunnel is dropped from the queue.              *)
LEMMA DropKeeps ==
    ASSUME Undisturbed, TypeOK, NEW p \in Peers, net[p] # <<>>, Consume(p),
           Head(net[p]).type \notin {"connect", "data"},
           UNCHANGED <<online, active, hs, main, made, relayed>>,
           raced \subseteq raced'
    PROVE  Undisturbed'
<1> DEFINE q == Other(p)
<1>1. q \in Peers /\ \A r \in Peers : r = p \/ r = q
  BY Ends2
<1>2. net'[p] = Tail(net[p]) /\ net'[q] = net[q] /\ net[p] \in Seq(Messages)
  BY Consumed
<1>3. \A t : Same(net[p], net'[p], t) /\ Same(net[q], net'[q], t)
  BY <1>2, SameTail, SameSelf DEF About
<1>4. ASSUME NEW r \in Peers PROVE (Progress(r) /\ Incoming(r) /\ Tunnel(r))'
  <2>1. Progress(r)'
    BY DEF Undisturbed, Progress
  <2>2. Incoming(r)'
    BY <1>1, <1>2, RelaysTail DEF Undisturbed, Incoming
  <2>3. SameTunnel(r)
    BY <1>1, <1>3 DEF SameTunnel
  <2>4. Tunnel(r)'
    BY <2>3, Unchanged DEF Undisturbed
  <2> QED BY <2>1, <2>2, <2>4
<1>5. TakesOther'
  BY DEF Undisturbed, TakesOther
<1> QED BY <1>4, <1>5 DEF Undisturbed

(* A request is rejected only by the peer that keeps its own tunnel. *)
LEMMA RejectKeeps ==
    ASSUME Undisturbed, TypeOK, NEW p \in Peers, RejectConnect(p)
    PROVE  Undisturbed'
<1> DEFINE q == Other(p)
           m == [type |-> "end", att |-> T(q)]
<1>1. /\ q \in Peers /\ q # p /\ Other(q) = p /\ T(p) # T(q) /\ T(p) # None /\ T(q) # None
      /\ \A r \in Peers : r = p \/ r = q
      /\ m \in Messages /\ m.type = "end"
  <2>1. m \in Messages /\ m.type = "end"
    BY MessageForms, Tunnels, Ends2
  <2> HIDE DEF m
  <2> QED BY <2>1, Ends2, Tunnels
<1>2. /\ Progress(p) /\ Progress(q) /\ Incoming(p) /\ Incoming(q) /\ Tunnel(p) /\ Tunnel(q)
      /\ TakesOther
  BY <1>1 DEF Undisturbed
<1>3. /\ net[p] # <<>> /\ Head(net[p]).type = "connect" /\ net[p] \in Seq(Messages)
      /\ p = lo /\ active[p] # None
  BY DEF RejectConnect, First, KeepsOwn, TypeOK
<1>4. Head(net[p]).att = T(q)
  BY <1>2, <1>3, RelaysTail DEF Incoming
<1>5. /\ Reply(p, m) /\ relayed' = relayed \ {T(q)}
      /\ UNCHANGED <<online, active, hs, main, made, raced>>
  BY <1>4 DEF RejectConnect, client, history
<1> HIDE DEF m
<1>6. /\ net'[p] = Tail(net[p]) /\ net[q] \in Seq(Messages)
      /\ net'[q] = Append(net[q], m) \/ net'[q] = net[q]
  BY <1>1, <1>3, <1>5, Replied
<1> HIDE DEF q
<1>7. Progress(p)' /\ Progress(q)'
  BY <1>2, <1>5 DEF Progress
<1>8. Incoming(p)' /\ Incoming(q)'
  <2>1. Relays(net'[p], p)
    BY <1>2, <1>3, <1>6, RelaysTail DEF Incoming
  <2>2. Relays(net'[q], q)
    BY <1>1, <1>2, <1>6, RelaysAppend DEF Incoming
  <2> QED BY <2>1, <2>2 DEF Incoming
<1>9. \A t : Same(net[q], net'[q], t)
  BY <1>1, <1>6, SameAppend, SameSelf DEF About
<1>10. Tunnel(p)'
  <2>1. Same(net[p], net'[p], T(p))
    BY <1>1, <1>3, <1>4, <1>6, SameTail DEF About
  <2>2. SameTunnel(p)
    BY <1>1, <1>5, <1>9, <2>1 DEF SameTunnel
  <2> QED BY <1>1, <1>2, <2>2, Unchanged
<1>11. Tunnel(q)'
  <2>1. Asked(q) = Marks(net[p], "connect", T(q)) /\ Asked(q)' = Marks(net'[p], "connect", T(q))
    BY <1>1 DEF Asked
  <2>2. Asked(q) # {} /\ Asked(q)' = {}
    <3>1. AtMostOne(Marks(net[p], "connect", T(q)))
      BY <1>2, <2>1 DEF Tunnel, Single
    <3>2. Marks(Tail(net[p]), "connect", T(q)) = {} /\ Marks(net[p], "connect", T(q)) = {1}
      BY <1>3, <1>4, <3>1, TakenRequest
    <3> QED BY <1>6, <2>1, <3>2
  <2>3. active[p] # T(q) /\ made[q] # 0
    BY <1>1, <1>2, <2>2 DEF Tunnel, Requested, NotMade
  <2>4. /\ Said(net'[q], T(q)) = Said(net[q], T(q))
        /\ AtMostOne(Marks(net[q], "data", T(q))) => AtMostOne(Marks(net'[q], "data", T(q)))
    BY <1>9 DEF Same
  <2>5. Said(net'[p], T(q)) = Said(net[p], T(q))
    BY <1>3, <1>6, TailSaid
  <2>6. AtMostOne(Marks(net'[p], "data", T(q)))
    <3>1. AtMostOne(Marks(net[p], "data", T(q)))
      BY <1>2 DEF Tunnel, Single
    <3>2. \A k \in Marks(Tail(net[p]), "data", T(q)) :
             k \in Nat \ {0} /\ k + 1 \in Marks(net[p], "data", T(q))
      BY <1>3, TailMarks
    <3> QED BY <1>6, <3>1, <3>2 DEF AtMostOne
  <2>7. \A r \in Peers : Said(net'[r], T(q)) = Said(net[r], T(q))
    BY <1>1, <2>4, <2>5
  <2>8. NotMade(q)' /\ Requested(q)' /\ Handshake(q)' /\ Relayed(q)' /\ Answered(q)'
    BY <1>1, <1>3, <1>5, <2>2, <2>3, Ends2
    DEF NotMade, Requested, Handshake, Relayed, Answered
  <2>9. NotStarted(q)'
    BY <1>2, <1>5, <2>7 DEF NotStarted, Tunnel
  <2>10. Single(q)'
    <3>1. \A r \in Peers : AtMostOne(Marks(net'[r], "data", T(q)))
      BY <1>1, <1>2, <2>4, <2>6 DEF Tunnel, Single
    <3>2. \A r \in Peers : Said(net'[r], T(q)) = {} \/ Said(net'[Other(r)], T(q)) = {}
      BY <1>2, <2>7, Ends2 DEF Tunnel, Single
    <3> QED BY <1>1, <2>1, <2>2, <3>1, <3>2 DEF Single, AtMostOne, Ordered
  <2> QED BY <2>8, <2>9, <2>10 DEF Tunnel
<1>12. TakesOther'
  BY <1>2, <1>5 DEF TakesOther
<1> QED BY <1>7, <1>8, <1>10, <1>11, <1>12, BothPeers DEF q

(* A request is accepted by a peer without a tunnel, or by the one that gives way. *)
LEMMA AcceptKeeps ==
    ASSUME Undisturbed, TypeOK, NEW p \in Peers, AcceptConnect(p)
    PROVE  Undisturbed'
<1> DEFINE q == Other(p)
<1>1. /\ q \in Peers /\ q # p /\ Other(q) = p /\ T(p) # T(q) /\ T(p) # None /\ T(q) # None
      /\ \A r \in Peers : r = p \/ r = q
      /\ T(q) \in Attempts
  BY Ends2, Tunnels
<1>2. /\ Progress(p) /\ Progress(q) /\ Incoming(p) /\ Incoming(q) /\ Tunnel(p) /\ Tunnel(q)
      /\ TakesOther
  BY <1>1 DEF Undisturbed
<1>3. /\ net[p] # <<>> /\ Head(net[p]).type = "connect" /\ net[p] \in Seq(Messages)
      /\ p = lo => active[p] = None
  BY DEF AcceptConnect, First, KeepsOwn, TypeOK
<1>4. Head(net[p]).att = T(q)
  BY <1>2, <1>3, RelaysTail DEF Incoming
<1>5. /\ Consume(p) /\ SetTunnel(p, T(q), 0)
      /\ raced' = IF main[p] = "idle" THEN raced ELSE raced \cup {p}
      /\ UNCHANGED <<online, main, made, relayed>>
  BY <1>4 DEF AcceptConnect
<1>6. /\ net'[p] = Tail(net[p]) /\ net'[q] = net[q]
  BY <1>3, <1>5, Consumed
<1>7. /\ active'[p] = T(q) /\ hs'[p] = 0
      /\ active'[q] = active[q] /\ hs'[q] = hs[q]
  <2>1. 0 \in 0 .. 4
    OBVIOUS
  <2> QED BY <1>1, <1>5, <2>1, SetTypes
<1> HIDE DEF q
<1>8. Progress(p)' /\ Progress(q)'
  BY <1>1, <1>2, <1>5, <1>7 DEF Progress, q
<1>9. Incoming(p)' /\ Incoming(q)'
  <2>1. Relays(net'[p], p)
    BY <1>2, <1>3, <1>6, RelaysTail DEF Incoming
  <2> QED BY <1>2, <1>6, <2>1 DEF Incoming
<1>10. Asked(q) = Marks(net[p], "connect", T(q)) /\ Asked(q)' = Marks(net'[p], "connect", T(q))
  BY <1>1 DEF Asked
<1>11. Asked(q) # {} /\ Asked(q)' = {}
  <2>1. AtMostOne(Marks(net[p], "connect", T(q)))
    BY <1>2, <1>10 DEF Tunnel, Single
  <2>2. Marks(Tail(net[p]), "connect", T(q)) = {} /\ Marks(net[p], "connect", T(q)) = {1}
    BY <1>3, <1>4, <2>1, TakenRequest
  <2> QED BY <1>6, <1>10, <2>2
<1>12. /\ made[q] = 1 /\ T(q) \in relayed /\ Said(net[q], T(q)) = {}
       /\ Said(net[p], T(q)) \subseteq {1}
       /\ active[q] = T(q) => hs[q] = 1 /\ Said(net[p], T(q)) = {1}
  BY <1>1, <1>2, <1>11 DEF Tunnel, Requested, NotMade, Progress
<1>13. Tunnel(p)'
  <2>1. Same(net[p], net'[p], T(p)) /\ Same(net[q], net'[q], T(p))
    BY <1>1, <1>3, <1>4, <1>6, SameTail, SameSelf DEF About
  <2>2. p = lo /\ hi \notin raced' /\ made[lo] = 1 /\ active[hi] = T(lo) => active'[hi] = T(lo)
    BY <1>1, <1>7, Ends2
  <2>3. active[lo] # None => active'[lo] # None
    BY <1>1, <1>7, Ends2
  <2>4. SameTunnel(p)
    BY <1>1, <1>5, <1>7, <2>1, <2>2, <2>3 DEF SameTunnel
  <2> QED BY <1>2, <2>4, Unchanged
<1>14. Tunnel(q)'
  <2>1. Said(net'[p], T(q)) = Said(net[p], T(q)) /\ Said(net'[q], T(q)) = {}
    BY <1>3, <1>6, <1>12, TailSaid
  <2>2. AtMostOne(Marks(net'[p], "data", T(q)))
    <3>1. AtMostOne(Marks(net[p], "data", T(q)))
      BY <1>2 DEF Tunnel, Single
    <3>2. \A k \in Marks(Tail(net[p]), "data", T(q)) :
             k \in Nat \ {0} /\ k + 1 \in Marks(net[p], "data", T(q))
      BY <1>3, TailMarks
    <3> QED BY <1>6, <3>1, <3>2 DEF AtMostOne
  <2>3. NotMade(q)' /\ Requested(q)' /\ Relayed(q)'
    BY <1>1, <1>2, <1>5, <1>7, <1>11, <1>12, Ends2 DEF NotMade, Requested, Relayed, Tunnel
  <2>4. Answered(q)'
    BY <1>1, <1>7, Ends2 DEF Answered
  <2>5. NotStarted(q)'
    <3> SUFFICES ASSUME main[q] = "sent"
                 PROVE  (\A r \in Peers : Said(net'[r], T(q)) = {}) /\ hs'[p] = 0
      BY <1>1, <1>5 DEF NotStarted
    <3>1. \A r \in Peers : Said(net[r], T(q)) = {}
      BY <1>2 DEF Tunnel, NotStarted
    <3> QED BY <1>1, <1>7, <2>1, <3>1
  <2>6. Handshake(q)'
    <3> SUFFICES ASSUME \A r \in Peers : active'[r] = T(q)
                 PROVE  /\ \A r \in Peers : \A n \in Said(net'[r], T(q)) :
                              hs'[r] = n - 1 /\ hs'[Other(r)] = n
                        /\ \E r \in Peers : Said(net'[r], T(q)) # {}
      BY DEF Handshake
    <3>1. active[q] = T(q)
      BY <1>1, <1>7
    <3>2. Said(net'[p], T(q)) = {1} /\ hs'[q] = 1 /\ hs'[p] = 1 - 1 /\ Other(p) = q
      BY <1>7, <1>12, <2>1, <3>1 DEF q
    <3> QED BY <1>1, <2>1, <3>2
  <2>7. Single(q)'
    <3>1. \A r \in Peers : AtMostOne(Marks(net'[r], "data", T(q)))
      BY <1>1, <1>2, <1>6, <2>2 DEF Tunnel, Single
    <3>2. \A r \in Peers : Said(net'[r], T(q)) = {} \/ Said(net'[Other(r)], T(q)) = {}
      BY <1>1, <2>1 DEF q
    <3> QED BY <1>1, <1>10, <1>11, <3>1, <3>2 DEF Single, AtMostOne, Ordered
  <2> QED BY <2>3, <2>4, <2>5, <2>6, <2>7 DEF Tunnel
<1>15. TakesOther'
  BY <1>1, <1>2, <1>3, <1>5, <1>7, Ends2, Tunnels DEF TakesOther, Progress, TypeOK
<1> QED BY <1>8, <1>9, <1>13, <1>14, <1>15, BothPeers DEF q

(* A handshake message of a tunnel p does not hold is lost. *)
LEMMA LostDataKeeps ==
    ASSUME Undisturbed, TypeOK, NEW p \in Peers, ReceiveData(p),
           Head(net[p]).att # active[p]
    PROVE  Undisturbed'
<1> DEFINE q == Other(p)
           t == Head(net[p]).att
<1>1. q \in Peers /\ q # p /\ Other(q) = p /\ \A r \in Peers : r = p \/ r = q
  BY Ends2
<1>2. /\ net[p] # <<>> /\ Head(net[p]).type = "data" /\ net[p] \in Seq(Messages)
      /\ Consume(p)
      /\ UNCHANGED <<online, active, hs, main, made, relayed, raced>>
  BY DEF ReceiveData, First, TypeOK, history
<1>3. net'[p] = Tail(net[p]) /\ net'[q] = net[q]
  BY <1>2, Consumed
<1>4. ASSUME NEW i \in Peers PROVE (Progress(i) /\ Incoming(i) /\ Tunnel(i))'
  <2>1. Progress(i)'
    BY <1>2 DEF Undisturbed, Progress
  <2>2. Incoming(i)'
    BY <1>1, <1>2, <1>3, RelaysTail DEF Undisturbed, Incoming
  <2>3. CASE t # T(i)
    <3>1. Same(net[p], net'[p], T(i)) /\ Same(net[q], net'[q], T(i))
      BY <1>2, <1>3, <2>3, SameTail, SameSelf DEF About
    <3>2. SameTunnel(i)
      BY <1>1, <1>2, <3>1 DEF SameTunnel
    <3>3. Tunnel(i)'
      BY <3>2, Unchanged DEF Undisturbed
    <3> QED BY <2>1, <2>2, <3>3
  <2>4. CASE t = T(i)
    <3>0. Tunnel(i) /\ Single(i) /\ active[p] # T(i)
      BY <2>4 DEF Undisturbed, Tunnel
    <3>1. AtMostOne(Marks(net[p], "data", T(i)))
      BY <3>0 DEF Single
    <3>2. /\ Marks(net'[p], "data", T(i)) = {} /\ Said(net'[p], T(i)) = {}
          /\ Said(net[p], T(i)) # {} /\ 1 \in Marks(net[p], "data", T(i))
      <4>1. /\ Marks(Tail(net[p]), "data", T(i)) = {} /\ Said(Tail(net[p]), T(i)) = {}
            /\ Marks(net[p], "data", T(i)) = {1} /\ Said(net[p], T(i)) = {Head(net[p]).n}
        BY <1>2, <2>4, <3>1, TakenToken
      <4> QED BY <1>3, <4>1
    <3>3. Said(net[q], T(i)) = {} /\ Said(net'[q], T(i)) = {}
      BY <1>1, <1>3, <3>0, <3>2 DEF Single
    <3>4. \A r \in Peers : Said(net'[r], T(i)) = {}
      BY <1>1, <3>2, <3>3
    <3>5. \A r \in Peers : Marks(net'[r], "data", T(i)) = {}
      BY <3>4 DEF Said
    <3>6. Asked(i) = {} /\ Asked(i)' = {}
      <4>1. CASE i = p
        <5>1. Asked(i) = {}
          BY <3>0, <3>2, <4>1 DEF Tunnel, Requested
        <5> QED BY <1>1, <1>3, <4>1, <5>1 DEF Asked
      <4>2. CASE i = q
        <5>1. Asked(i) = Marks(net[p], "connect", T(i)) /\ Asked(i)' = Marks(net'[p], "connect", T(i))
          BY <1>1, <4>2 DEF Asked
        <5>2. \A k \in Marks(net[p], "connect", T(i)) : k < 1 /\ k \in 1 .. Len(net[p])
          BY <1>1, <1>2, <3>0, <3>2, <4>2 DEF Single, Ordered, Marks
        <5>3. Marks(net[p], "connect", T(i)) = {}
          <6>1. Len(net[p]) \in Nat
            BY <1>2
          <6> QED BY <5>2, <6>1
        <5>4. \A k \in Marks(Tail(net[p]), "connect", T(i)) :
                 k \in Nat \ {0} /\ k + 1 \in Marks(net[p], "connect", T(i))
          BY <1>2, TailMarks
        <5> QED BY <1>3, <5>1, <5>3, <5>4
      <4> QED BY <1>1, <4>1, <4>2
    <3>7. NotMade(i)' /\ Requested(i)' /\ Relayed(i)' /\ Answered(i)' /\ NotStarted(i)'
      BY <1>2, <3>0, <3>4, <3>6 DEF NotMade, Requested, Relayed, Answered, NotStarted, Tunnel
    <3>8. Handshake(i)'
      BY <1>2, <3>0 DEF Handshake
    <3>9. Single(i)'
      BY <1>1, <3>4, <3>5, <3>6, Ends2 DEF Single, AtMostOne, Ordered
    <3> QED BY <2>1, <2>2, <3>7, <3>8, <3>9 DEF Tunnel
  <2> QED BY <2>3, <2>4
<1>5. TakesOther'
  BY <1>2 DEF Undisturbed, TakesOther
<1> QED BY <1>4, <1>5 DEF Undisturbed

(* A handshake message of the active tunnel is answered by the next one.    *)
LEMMA DataKeeps ==
    ASSUME Undisturbed, TypeOK, NEW p \in Peers, ReceiveData(p),
           Head(net[p]).att = active[p]
    PROVE  Undisturbed'
<1> DEFINE q == Other(p)
           t == Head(net[p]).att
           n == Head(net[p]).n
           m == Data(t, n + 1)
<1>1. q \in Peers /\ q # p /\ Other(q) = p /\ \A r \in Peers : r = p \/ r = q
  BY Ends2
<1>2. /\ net[p] # <<>> /\ Head(net[p]).type = "data" /\ net[p] \in Seq(Messages)
      /\ UNCHANGED <<online, active, main, made, relayed, raced>>
      /\ hs' = [hs EXCEPT ![p] = IF n = 4 THEN 4 ELSE n + 1]
      /\ IF n = 4 THEN Consume(p) ELSE Reply(p, m)
  BY DEF ReceiveData, First, TypeOK, history
<1>3. t \in Attempts /\ n \in 1 .. 4 /\ t # None
  <2>1. Head(net[p]) \in Messages
    BY <1>2
  <2> QED BY <1>2, <2>1, MessageForms, Tunnels
<1>4. n # 4 => m \in Messages /\ m.type = "data" /\ m.att = t /\ m.n = n + 1
  <2>1. n # 4 => n + 1 \in 1 .. 4
    BY <1>3
  <2> QED BY <1>3, <2>1, MessageForms
<1> HIDE DEF m
<1>5. /\ net'[p] = Tail(net[p]) /\ net[q] \in Seq(Messages)
      /\ net'[q] = IF n # 4 /\ t \in relayed THEN Append(net[q], m) ELSE net[q]
  <2>1. CASE n = 4
    BY <1>1, <1>2, <2>1, Consumed DEF TypeOK
  <2>2. CASE n # 4
    BY <1>1, <1>2, <1>4, <2>2, Replied
  <2> QED BY <2>1, <2>2
<1>6. hs'[p] = (IF n = 4 THEN 4 ELSE n + 1) /\ hs'[q] = hs[q]
  BY <1>1, <1>2 DEF TypeOK
<1>7. PICK i \in Peers : active[p] = T(i)
  <2>1. active[p] \in {None, T(p), T(q)}
    BY DEF Undisturbed, Progress
  <2> QED BY <1>1, <1>3, <2>1
<1>8. t = T(i)
  BY <1>7
<1> HIDE DEF t, n, q
<1>9. ASSUME NEW j \in Peers PROVE Progress(j)' /\ Incoming(j)'
  <2>1. Progress(j)'
    BY <1>2 DEF Undisturbed, Progress
  <2>2. Relays(net[p], p) /\ Relays(net[q], q)
    BY <1>1 DEF Undisturbed, Incoming
  <2>3. Relays(net'[p], p)
    BY <1>2, <1>5, <2>2, RelaysTail
  <2>4. Relays(net'[q], q)
    BY <1>1, <1>4, <1>5, <2>2, RelaysAppend
  <2> QED BY <1>1, <2>1, <2>3, <2>4 DEF Incoming
<1>10. ASSUME NEW j \in Peers, j # i PROVE Tunnel(j)'
  <2>1. T(j) # T(i)
    BY <1>10, Ends2, Tunnels
  <2>2. Same(net[p], net'[p], T(j))
    BY <1>2, <1>5, <1>8, <2>1, SameTail DEF About, t
  <2>3. Same(net[q], net'[q], T(j))
    BY <1>4, <1>5, <1>8, <2>1, SameAppend, SameSelf DEF About
  <2>4. \A r \in Peers : active'[r] = T(j) => active[r] = T(j) /\ hs'[r] = hs[r]
    BY <1>1, <1>2, <1>6, <1>7, <2>1
  <2>5. SameTunnel(j)
    BY <1>1, <1>2, <2>2, <2>3, <2>4 DEF SameTunnel
  <2> QED BY <2>5, Unchanged DEF Undisturbed
<1>11. Tunnel(i)'
  <2>0. Tunnel(i) /\ Single(i)
    BY DEF Undisturbed, Tunnel
  <2>1. /\ Marks(net'[p], "data", T(i)) = {} /\ Said(net'[p], T(i)) = {}
        /\ Said(net[p], T(i)) = {n}
    <3>1. AtMostOne(Marks(net[p], "data", T(i)))
      BY <2>0 DEF Single
    <3>2. /\ Marks(Tail(net[p]), "data", T(i)) = {} /\ Said(Tail(net[p]), T(i)) = {}
          /\ Said(net[p], T(i)) = {Head(net[p]).n}
      BY <1>2, <1>8, <3>1, TakenToken DEF t
    <3> QED BY <1>5, <3>2 DEF n
  <2>2. Said(net[q], T(i)) = {} /\ Marks(net[q], "data", T(i)) = {}
    <3>1. Said(net[q], T(i)) = {}
      BY <1>1, <2>0, <2>1 DEF Single, q
    <3> QED BY <3>1 DEF Said
  <2>3. /\ Said(net'[q], T(i)) = IF n # 4 /\ t \in relayed THEN {n + 1} ELSE {}
        /\ AtMostOne(Marks(net'[q], "data", T(i)))
        /\ Marks(net'[q], "connect", T(i)) = Marks(net[q], "connect", T(i))
    <3>1. CASE n # 4 /\ t \in relayed
      <4>1. Said(Append(net[q], m), T(i)) = Said(net[q], T(i)) \cup {m.n}
        BY <1>4, <1>5, <1>8, <3>1, AppendSaid
      <4>2. Marks(Append(net[q], m), "connect", T(i)) = Marks(net[q], "connect", T(i))
        BY <1>4, <1>5, <3>1, AppendRequest
      <4>3. AtMostOne(Marks(Append(net[q], m), "data", T(i)))
        <5>1. Marks(Append(net[q], m), "data", T(i)) = Marks(net[q], "data", T(i)) \cup
                IF m.type = "data" /\ m.att = T(i) THEN {Len(net[q]) + 1} ELSE {}
          BY <1>4, <1>5, <3>1, AppendMarks
        <5> QED BY <2>2, <5>1 DEF AtMostOne
      <4> QED BY <1>4, <1>5, <2>2, <3>1, <4>1, <4>2, <4>3
    <3>2. CASE ~(n # 4 /\ t \in relayed)
      <4>1. net'[q] = net[q]
        BY <1>5, <3>2
      <4> QED BY <2>2, <3>2, <4>1 DEF AtMostOne
    <3> QED BY <3>1, <3>2
  <2>4. Asked(i) = {} /\ Asked(i)' = {}
    <3>1. CASE i = p
      <4>1. Asked(i) = {}
        BY <2>0, <2>1, <3>1 DEF Tunnel, Requested
      <4> QED BY <2>3, <3>1, <4>1 DEF Asked, q
    <3>2. CASE i = q
      <4>1. Asked(i) = {}
        BY <1>1, <1>7, <2>0, <3>2 DEF Tunnel, Requested
      <4>2. \A k \in Marks(Tail(net[p]), "connect", T(i)) :
               k \in Nat \ {0} /\ k + 1 \in Marks(net[p], "connect", T(i))
        BY <1>2, TailMarks
      <4> QED BY <1>1, <1>5, <3>2, <4>1, <4>2 DEF Asked
    <3> QED BY <1>1, <3>1, <3>2
  <2>5. main[i] # "sent" /\ made[i] # 0
    BY <2>0, <2>1 DEF Tunnel, NotStarted, NotMade
  <2>6. NotMade(i)' /\ NotStarted(i)' /\ Requested(i)' /\ Answered(i)' /\ Relayed(i)'
    BY <1>2, <2>0, <2>4, <2>5
    DEF NotMade, NotStarted, Requested, Answered, Relayed, Tunnel
  <2>7. Handshake(i)'
    <3> SUFFICES ASSUME \A r \in Peers : active[r] = T(i)
                 PROVE  /\ \A r \in Peers : \A k \in Said(net'[r], T(i)) :
                              hs'[r] = k - 1 /\ hs'[Other(r)] = k
                        /\ \/ \E r \in Peers : Said(net'[r], T(i)) # {}
                           \/ \A r \in Peers : hs'[r] = 4
      BY <1>2 DEF Handshake
    <3>1. T(i) \in relayed
      BY <2>0, Ends2 DEF Tunnel, Relayed
    <3>2. hs[p] = n - 1 /\ hs[q] = n
      BY <2>0, <2>1 DEF Tunnel, Handshake, q
    <3>3. CASE n = 4
      <4>1. hs'[p] = 4 /\ hs'[q] = 4
        BY <1>6, <3>2, <3>3
      <4>2. Said(net'[q], T(i)) = {}
        BY <2>3, <3>3
      <4> QED BY <1>1, <2>1, <4>1, <4>2
    <3>4. CASE n # 4
      <4>1. Said(net'[q], T(i)) = {n + 1}
        BY <1>8, <2>3, <3>1, <3>4
      <4>2. hs'[q] = (n + 1) - 1 /\ hs'[Other(q)] = n + 1
        BY <1>1, <1>3, <1>6, <3>2, <3>4
      <4> QED BY <1>1, <2>1, <4>1, <4>2
    <3> QED BY <3>3, <3>4
  <2>8. Single(i)'
    <3>1. AtMostOne(Asked(i)')
      BY <2>4 DEF AtMostOne
    <3>2. \A r \in Peers : AtMostOne(Marks(net'[r], "data", T(i)))
      BY <1>1, <2>1, <2>3 DEF AtMostOne
    <3>3. \A r \in Peers : Said(net'[r], T(i)) = {} \/ Said(net'[Other(r)], T(i)) = {}
      BY <1>1, <2>1 DEF q
    <3>4. Ordered(net'[Other(i)], T(i))
      BY <2>4 DEF Ordered, Asked
    <3> QED BY <3>1, <3>2, <3>3, <3>4 DEF Single
  <2> QED BY <2>6, <2>7, <2>8 DEF Tunnel
<1>12. TakesOther'
  BY <1>2 DEF Undisturbed, TakesOther
<1> QED BY <1>9, <1>10, <1>11, <1>12 DEF Undisturbed

-----------------------------------------------------------------------------
(* Every step of the main thread keeps Undisturbed. *)
LEMMA ConnectKeeps ==
    ASSUME Undisturbed, TypeOK, NEW p \in Peers, Connect(p)
    PROVE  Undisturbed'
<1>1. ~SendConnectOffline(p)
  BY DEF Undisturbed, Progress, SendConnectOffline
<1> QED BY <1>1, ConnectFiresKeeps, SendConnectKeeps, SetActiveKeeps DEF Connect

(* Every step of clientQueue keeps Undisturbed. *)
LEMMA HandleKeeps ==
    ASSUME Undisturbed, TypeOK, NEW p \in Peers, Handle(p)
    PROVE  Undisturbed'
<1>1. CASE ReceiveJoined(p)
  BY <1>1, DropKeeps, ReplicateKeeps DEF ReceiveJoined, First
<1>2. CASE RejectConnect(p)
  BY <1>2, RejectKeeps
<1>3. CASE AcceptConnect(p)
  BY <1>3, AcceptKeeps
<1>4. CASE ReceiveData(p)
  BY <1>4, DataKeeps, LostDataKeeps
<1>5. CASE ReceiveEnd(p)
  <2>1. /\ net[p] # <<>> /\ Head(net[p]).type = "end" /\ Consume(p)
        /\ UNCHANGED <<online, active, hs, main, made, relayed>>
        /\ raced \subseteq raced'
    BY <1>5 DEF ReceiveEnd, First, client, AnswerOvertakes
  <2> QED BY <2>1, DropKeeps
<1>6. ~ReceiveError(p)
  <2> SUFFICES ASSUME ReceiveError(p) PROVE FALSE
    OBVIOUS
  <2>1. net[p] # <<>> /\ Head(net[p]).type = "error" /\ net[p] \in Seq(Messages)
    BY DEF ReceiveError, First, TypeOK
  <2>2. Relays(net[p], p)
    BY DEF Undisturbed, Incoming
  <2> QED BY <2>1, <2>2, RelaysTail
<1> QED BY <1>1, <1>2, <1>3, <1>4, <1>5, <1>6 DEF Handle

(* A lost connection is never forgotten. *)
LEMMA DropsGrow ==
    TypeOK /\ [Next]_vars => (drops' = 0 => drops = 0)
<1> SUFFICES ASSUME TypeOK, [Next]_vars, drops' = 0 PROVE drops = 0
  OBVIOUS
<1>1. drops \in Nat
  BY TunnelAssumption DEF TypeOK
<1>2. CASE UNCHANGED vars
  BY <1>2 DEF vars
<1>3. CASE Next
  <2>1. PICK p \in Peers : Connect(p) \/ Handle(p) \/ Ask(p) \/ RetryDatePasses(p)
                             \/ Disconnect(p) \/ Reconnect(p)
    BY <1>3 DEF Next
  <2>2. CASE Disconnect(p)
    BY <1>1, <2>2 DEF Disconnect
  <2>3. CASE Connect(p) \/ Ask(p) \/ RetryDatePasses(p) \/ Reconnect(p)
    BY <2>3 DEF Connect, ConnectFires, SendConnect, SendConnectOffline, SetActiveTunnel, Ask,
                RetryDatePasses, Reconnect
  <2>4. CASE Handle(p)
    BY <2>4 DEF Handle, ReceiveJoined, RejectConnect, AcceptConnect, ReceiveData, ReceiveEnd,
                ReceiveError
  <2> QED BY <2>1, <2>2, <2>3, <2>4
<1> QED BY <1>2, <1>3

(* Every step keeps IInv, action by action. *)
LEMMA NextInv == IInv /\ [Next]_vars => IInv'
<1> SUFFICES ASSUME IInv, [Next]_vars PROVE IInv'
  OBVIOUS
<1>1. TypeOK /\ TypeOK'
  BY TypeInv DEF IInv
<1> SUFFICES ASSUME drops' = 0 PROVE Undisturbed'
  BY <1>1 DEF IInv
<1>2. drops = 0 /\ Undisturbed
  BY <1>1, DropsGrow DEF IInv
<1>3. CASE Next
  <2>1. PICK p \in Peers : Connect(p) \/ Handle(p) \/ Ask(p) \/ RetryDatePasses(p)
                             \/ Disconnect(p) \/ Reconnect(p)
    BY <1>3 DEF Next
  <2>2. ~Disconnect(p)
    BY <1>2 DEF Disconnect
  <2>3. ~Reconnect(p)
    BY <1>2 DEF Reconnect, Undisturbed, Progress
  <2> QED BY <1>1, <1>2, <2>1, <2>2, <2>3, ConnectKeeps, HandleKeeps, AskKeeps
<1>4. CASE UNCHANGED vars
  <2>1. UNCHANGED <<online, active, hs, main, made, relayed, net, raced>>
    BY <1>4 DEF vars, client, room, history
  <2>2. TakesOther'
    BY <1>2, <2>1 DEF Undisturbed, TakesOther
  <2>3. ASSUME NEW q \in Peers PROVE (Progress(q) /\ Incoming(q) /\ Tunnel(q))'
    <3>1. Progress(q)' /\ Incoming(q)'
      BY <1>2, <2>1 DEF Undisturbed, Progress, Incoming
    <3>2. SameTunnel(q)
      BY <2>1, SameSelf DEF SameTunnel
    <3> QED BY <1>2, <3>1, <3>2, Unchanged DEF Undisturbed
  <2> QED BY <2>2, <2>3 DEF Undisturbed
<1> QED BY <1>3, <1>4

-----------------------------------------------------------------------------
(* What the invariant gives when nothing is under way. *)
LEMMA AgreedWhenQuiet ==
    ASSUME IInv, drops = 0, hi \notin raced, Quiet, NEW p \in Peers, active[p] # None
    PROVE  BothHold(active[p])
<1>1. \A q \in Peers : /\ Progress(q) /\ Tunnel(q)
                       /\ net[q] = <<>> /\ main[q] = "idle"
                       /\ Asked(q) = {} /\ Said(net[q], T(lo)) = {} /\ Said(net[q], T(hi)) = {}
  <2>1. \A q \in Peers : Progress(q) /\ Tunnel(q) /\ net[q] = <<>> /\ main[q] = "idle"
    BY DEF IInv, Undisturbed, Quiet
  <2>2. \A q \in Peers : \A t : Marks(net[q], "connect", t) = {} /\ Marks(net[q], "data", t) = {}
    BY <2>1, NoneIn
  <2> QED BY <2>1, <2>2, Ends2 DEF Asked, Said
<1>2. \A i \in Peers : (\A q \in Peers : active[q] = T(i)) => \A q \in Peers : hs[q] = 4
  BY <1>1, Ends2 DEF Tunnel, Handshake
<1>3. \A q \in Peers : made[q] = 1 => active[q] # None
  BY <1>1 DEF Progress
<1>4. made[lo] = 1 => active[hi] = T(lo)
  BY <1>1, Ends2 DEF Tunnel, Answered
<1>5. made[hi] = 1 => active[lo] # None
  BY <1>1, Ends2 DEF Tunnel, Answered
<1>6. \A q \in Peers : made[q] \in {0, 1} /\ active[q] \in {None, T(lo), T(hi)}
  BY <1>1, Ends2 DEF Progress
<1>7. \A q \in Peers : active[q] = T(Other(q)) => made[Other(q)] = 1
  BY <1>1, <1>6, Ends2 DEF Tunnel, NotMade
<1>8. \A q \in Peers : active[q] = T(q) => made[q] = 1
  BY <1>1 DEF Progress
<1>9. active[lo] = T(hi) => made[lo] = 0
  BY <1>1, Ends2 DEF IInv, Undisturbed, TakesOther
<1>10. active[lo] = active[hi]
  <2>1. CASE made[lo] = 1
    <3>1. active[hi] = T(lo) /\ active[lo] # None /\ active[lo] # T(hi)
      BY <1>3, <1>4, <1>9, <2>1, Ends2
    <3> QED BY <1>6, <3>1, Ends2
  <2>2. CASE made[lo] = 0
    <3>1. active[lo] # T(lo) /\ active[hi] # T(lo)
      BY <1>7, <1>8, <2>2, Ends2
    <3>2. CASE made[hi] = 1
      BY <1>3, <1>5, <1>6, <3>1, <3>2, Ends2
    <3>3. CASE made[hi] = 0
      BY <1>6, <1>7, <1>8, <3>1, <3>3, Ends2
    <3> QED BY <1>6, <3>2, <3>3, Ends2
  <2> QED BY <1>6, <2>1, <2>2, Ends2
<1>11. \A q \in Peers : active[q] = active[p]
  BY <1>10, Ends2
<1>12. active[p] = T(lo) \/ active[p] = T(hi)
  BY <1>6
<1>13. \A q \in Peers : hs[q] = 4
  BY <1>2, <1>11, <1>12, Ends2
<1> QED BY <1>11, <1>13 DEF BothHold

(* The state of both clients and of the room keeps its shape, and a peer    *)
(* without a tunnel is in no handshake.                                     *)
THEOREM TypeCorrect == Spec => []TypeOK
<1>1. IInv => TypeOK
  BY DEF IInv
<1> QED BY <1>1, InitInv, NextInv, PTL DEF Spec

(* While the connection to the room holds, the state of each tunnel and what the
   streams still say of it fit together. *)
THEOREM Invariance == Spec => []IInv
BY InitInv, NextInv, PTL DEF Spec

(* Once nothing is under way, a tunnel that one peer holds is connected and *)
(* held by both, for any number of delayed connects and requests to         *)
(* replicate, if no connection was lost and handleTunnelConnect: never took *)
(* the other's tunnel in the middle of hi's own connect.                    *)
THEOREM PeersAgree == Spec => []OneTunnelUnlessRaced
<1>1. IInv => OneTunnelUnlessRaced
  BY AgreedWhenQuiet DEF OneTunnelUnlessRaced, OneTunnel
<1> QED BY <1>1, Invariance, PTL

(* A tunnel that both ends hold connected is not replaced: not by a connect *)
(* that still waits in the main thread, not by a request on its way, and no *)
(* late handshake message sets it back.                                     *)
THEOREM EstablishedTunnelStays == Spec => EstablishedStays
<1> DEFINE Stays == \A t \in Attempts :
               BothHold(t) /\ drops' = 0 /\ raced = {} => BothHold(t)'
<1>1. IInv /\ [Next]_vars => Stays
  <2> SUFFICES ASSUME IInv, [Next]_vars, NEW t \in Attempts, BothHold(t), drops' = 0, raced = {}
               PROVE  BothHold(t)'
    OBVIOUS
  <2>1. TypeOK /\ drops = 0 /\ Undisturbed /\ t # None
    BY DropsGrow, Tunnels DEF IInv
  <2>2. \A q \in Peers : active[q] = t /\ hs[q] = 4 /\ main[q] = "idle" /\ online[q]
    BY <2>1 DEF BothHold, Undisturbed, Progress, TypeOK
  <2>3. UNCHANGED <<active, hs>> => BothHold(t)'
    BY DEF BothHold
  <2>4. PICK i \in Peers : t = T(i)
    <3>1. active[lo] \in {None, T(lo), T(hi)}
      BY <2>1, Ends2 DEF Undisturbed, Progress
    <3> QED BY <2>1, <2>2, <3>1, Ends2
  <2>5. CASE UNCHANGED vars
    BY <2>3, <2>5 DEF vars, client
  <2>6. CASE Next
    <3>1. PICK p \in Peers : Connect(p) \/ Handle(p) \/ Ask(p) \/ RetryDatePasses(p)
                               \/ Disconnect(p) \/ Reconnect(p)
      BY <2>6 DEF Next
    <3>2. ~Disconnect(p)
      BY <2>1 DEF Disconnect
    <3>3. CASE Ask(p) \/ RetryDatePasses(p) \/ Reconnect(p)
      BY <2>3, <3>3, ReplicateKeeps DEF Ask, RetryDatePasses, Reconnect
    <3>4. CASE Connect(p)
      <4>1. ConnectFires(p)
        BY <2>2, <3>4 DEF Connect, SendConnect, SendConnectOffline, SetActiveTunnel
      <4> QED BY <2>3, <4>1 DEF ConnectFires
    <3>5. CASE Handle(p)
      <4>1. ~ReceiveError(p)
        <5>1. Relays(net[p], p)
          BY <2>1 DEF Undisturbed, Incoming
        <5>2. ReceiveError(p) => net[p] # <<>> /\ Head(net[p]).type = "error" /\ net[p] \in Seq(Messages)
          BY <2>1 DEF ReceiveError, First, TypeOK
        <5> QED BY <5>1, <5>2, RelaysTail
      <4>2. CASE ReceiveJoined(p) \/ RejectConnect(p) \/ ReceiveEnd(p)
        BY <2>3, <4>2, ReplicateKeeps DEF ReceiveJoined, RejectConnect, ReceiveEnd, client
      <4>3. ~AcceptConnect(p)
        <5> SUFFICES ASSUME AcceptConnect(p) PROVE FALSE
          OBVIOUS
        <5> DEFINE q == Other(p)
        <5>1. /\ net[p] # <<>> /\ Head(net[p]).type = "connect" /\ net[p] \in Seq(Messages)
              /\ p # lo
          BY <2>1, <2>2 DEF AcceptConnect, First, KeepsOwn, TypeOK
        <5>2. p = hi /\ q = lo /\ q \in Peers
          BY <5>1, Ends2
        <5>3. Head(net[p]).att = T(q)
          BY <2>1, <5>1, RelaysTail DEF Undisturbed, Incoming
        <5> HIDE DEF q
        <5>4. 1 \in Marks(net[p], "connect", T(q))
          <6>1. DOMAIN net[p] = 1 .. Len(net[p]) /\ Len(net[p]) \in Nat \ {0}
                /\ Head(net[p]) = net[p][1]
            BY <5>1
          <6> QED BY <5>1, <5>3, <6>1 DEF Marks
        <5>5. Asked(lo) # {}
          BY <5>2, <5>4, Ends2 DEF Asked
        <5>6. active[hi] # T(lo) /\ made[lo] = 1
          BY <2>1, <5>5, Ends2 DEF Undisturbed, Tunnel, Requested, NotMade, Progress
        <5>7. active[lo] = T(hi)
          BY <2>2, <2>4, <5>6, Ends2
        <5> QED BY <2>1, <2>2, <5>6, <5>7, Ends2 DEF Undisturbed, TakesOther
      <4>4. CASE ReceiveData(p)
        <5>1. /\ net[p] # <<>> /\ Head(net[p]).type = "data" /\ net[p] \in Seq(Messages)
              /\ active' = active
          BY <2>1, <4>4 DEF ReceiveData, First, TypeOK
        <5>2. Head(net[p]).att # t
          <6> SUFFICES ASSUME Head(net[p]).att = t PROVE FALSE
            OBVIOUS
          <6>1. Head(net[p]) \in Messages
            BY <5>1
          <6>2. Head(net[p]).n \in 1 .. 4
            BY <5>1, <6>1, MessageForms
          <6>3. Head(net[p]).n \in Said(net[p], T(i))
            BY <2>4, <5>1, TailSaid
          <6>4. hs[p] = Head(net[p]).n - 1
            BY <2>1, <2>2, <2>4, <6>3 DEF Undisturbed, Tunnel, Handshake
          <6> QED BY <2>2, <6>2, <6>4
        <5>3. hs' = hs
          BY <2>2, <4>4, <5>2 DEF ReceiveData
        <5> QED BY <2>3, <5>1, <5>3
      <4> QED BY <3>5, <4>1, <4>2, <4>3, <4>4 DEF Handle
    <3> QED BY <3>1, <3>2, <3>3, <3>4, <3>5
  <2> QED BY <2>5, <2>6
<1>2. IInv /\ [Next]_vars => [Stays]_vars
  BY <1>1
<1> QED BY <1>2, Invariance, PTL DEF Spec, EstablishedStays

=============================================================================
