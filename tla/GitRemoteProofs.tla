---- MODULE GitRemoteProofs ----
(***************************************************************************)
(* Theorems about GitRemote, for every set of helpers, every number of     *)
(* commands and every size of a pack.                                      *)
(***************************************************************************)
EXTENDS GitRemote, SequenceTheorems, TLAPS

(* What the server has buffered and what is on its way is one stream:      *)
(* reading moves the border, writing extends it, and the first item of the *)
(* buffer is the first item of the stream.                                 *)
LEMMA ReadKeeps ==
  ASSUME NEW S, NEW s \in Seq(S), NEW u \in Seq(S), NEW n \in 1 .. Len(u)
  PROVE  (s \o SubSeq(u, 1, n)) \o SubSeq(u, n + 1, Len(u)) = s \o u
<1> DEFINE a == SubSeq(u, 1, n)
           b == SubSeq(u, n + 1, Len(u))
           sa == s \o a
           l == sa \o b
           r == s \o u
<1>0. Len(s) \in Nat /\ Len(u) \in Nat /\ n \in Nat
  OBVIOUS
<1>1. a \in Seq(S) /\ Len(a) = n /\ \A i \in 1 .. n : a[i] = u[i]
  OBVIOUS
<1>2. b \in Seq(S) /\ Len(b) = Len(u) - n /\ \A i \in 1 .. Len(u) - n : b[i] = u[n + i]
  OBVIOUS
<1> HIDE DEF a, b
<1>3. /\ sa \in Seq(S) /\ Len(sa) = Len(s) + n
      /\ \A i \in 1 .. Len(s) + n : sa[i] = IF i <= Len(s) THEN s[i] ELSE a[i - Len(s)]
  BY <1>1, ConcatProperties
<1> HIDE DEF sa
<1>4. /\ l \in Seq(S) /\ Len(l) = Len(sa) + Len(b)
      /\ \A i \in 1 .. Len(sa) + Len(b) :
           l[i] = IF i <= Len(sa) THEN sa[i] ELSE b[i - Len(sa)]
  BY <1>2, <1>3, ConcatProperties
<1>5. /\ r \in Seq(S) /\ Len(r) = Len(s) + Len(u)
      /\ \A i \in 1 .. Len(s) + Len(u) : r[i] = IF i <= Len(s) THEN s[i] ELSE u[i - Len(s)]
  BY ConcatProperties
<1> HIDE DEF l, r
<1>6. Len(sa) + Len(b) = Len(s) + Len(u) /\ Len(l) = Len(r)
  BY <1>0, <1>2, <1>3, <1>4, <1>5
<1>7. \A i \in 1 .. Len(s) + Len(u) : l[i] = IF i <= Len(s) + n THEN sa[i] ELSE b[i - (Len(s) + n)]
  BY <1>3, <1>4, <1>6
<1>8. ASSUME NEW i \in 1 .. Len(s) + Len(u) PROVE l[i] = r[i]
  <2>1. CASE i <= Len(s)
    <3>1. i \in 1 .. Len(s) + n /\ i <= Len(s) + n
      BY <2>1, <1>0
    <3>2. l[i] = sa[i] /\ sa[i] = s[i] /\ r[i] = s[i]
      BY <3>1, <2>1, <1>3, <1>5, <1>7
    <3> QED BY <3>2
  <2>2. CASE i > Len(s) /\ i <= Len(s) + n
    <3>1. i - Len(s) \in 1 .. n /\ i \in 1 .. Len(s) + n /\ ~(i <= Len(s))
      BY <2>2, <1>0
    <3>2. l[i] = sa[i] /\ sa[i] = a[i - Len(s)] /\ r[i] = u[i - Len(s)]
      BY <3>1, <2>2, <1>3, <1>5, <1>7
    <3> QED BY <3>1, <3>2, <1>1
  <2>3. CASE i > Len(s) + n
    <3>1. i - (Len(s) + n) \in 1 .. Len(u) - n /\ n + (i - (Len(s) + n)) = i - Len(s)
          /\ ~(i <= Len(s) + n) /\ ~(i <= Len(s))
      BY <2>3, <1>0
    <3>2. l[i] = b[i - (Len(s) + n)] /\ r[i] = u[i - Len(s)]
      BY <3>1, <1>5, <1>7
    <3> QED BY <3>1, <3>2, <1>2
  <2> QED BY <2>1, <2>2, <2>3, <1>0
<1>9. l = r
  <2>1. \A i \in 1 .. Len(l) : l[i] = r[i]
    BY <1>5, <1>6, <1>8
  <2> QED BY <2>1, <1>4, <1>5, <1>6, SeqEqual
<1> QED BY <1>9 DEF l, r, sa, a, b

(* A write extends what is read in front of it. *)
LEMMA WriteExtends ==
  ASSUME NEW S, NEW s \in Seq(S), NEW u \in Seq(S), NEW x \in S
  PROVE  s \o Append(u, x) = Append(s \o u, x)
<1>1. Append(u, x) = u \o <<x>> /\ <<x>> \in Seq(S) /\ s \o u \in Seq(S)
  BY AppendIsConcat
<1>2. Append(s \o u, x) = (s \o u) \o <<x>>
  BY <1>1, AppendIsConcat
<1> QED BY <1>1, <1>2, ConcatAssociative

(* What is left of a stream after its first item, and after all of it.     *)
LEMMA RestOf ==
  ASSUME NEW S, NEW x \in S, NEW rest \in Seq(S)
  PROVE  /\ <<x>> \o rest \in Seq(S) /\ <<x>> \o rest # << >>
         /\ Head(<<x>> \o rest) = x
         /\ SubSeq(<<x>> \o rest, 2, Len(<<x>> \o rest)) = rest
<1> DEFINE w == <<x>> \o rest
           l == SubSeq(w, 2, Len(w))
<1>1. w \in Seq(S) /\ Len(w) = 1 + Len(rest) /\ w[1] = x
      /\ \A i \in 1 .. Len(rest) : w[i + 1] = rest[i]
  OBVIOUS
<1> HIDE DEF w
<1>2. l \in Seq(S) /\ Len(l) = Len(rest) /\ \A i \in 1 .. Len(rest) : l[i] = rest[i]
  BY <1>1
<1> HIDE DEF l
<1>3. l = rest
  BY <1>2, SeqEqual
<1> QED BY <1>1, <1>3 DEF l, w

(* Short streams, written item by item. *)
LEMMA TwoItems ==
  ASSUME NEW S, NEW x \in S, NEW y \in S, NEW z \in S
  PROVE  /\ Append(<< >>, x) = <<x>>
         /\ Append(<<x>> \o << >>, y) = <<x>> \o <<y>>
         /\ Append(<<x>>, y) = <<x>> \o <<y>>
         /\ Append(<<x>> \o <<y>>, z) = <<x>> \o (<<y>> \o <<z>>)
<1>1. Append(<< >>, x) = <<x>> /\ <<x>> \o << >> = <<x>>
  OBVIOUS
<1>2. <<x>> \in Seq(S) /\ <<y>> \in Seq(S)
  OBVIOUS
<1>3. Append(<<x>>, y) = <<x>> \o <<y>> /\ Append(<<y>>, z) = <<y>> \o <<z>>
  BY <1>2, AppendIsConcat
<1>4. <<x>> \o Append(<<y>>, z) = Append(<<x>> \o <<y>>, z)
  BY <1>2, WriteExtends
<1> QED BY <1>1, <1>3, <1>4

(* What is left of a stream that has been read to its end. *)
LEMMA NothingLeft ==
  ASSUME NEW S, NEW s \in Seq(S), NEW u \in Seq(S)
  PROVE  /\ SubSeq(s, Len(s) + 1, Len(s)) = << >>
         /\ << >> \o s = s /\ s \o << >> = s
         /\ s \o u = << >> => s = << >> /\ u = << >>
<1>1. s \o u = << >> => s = << >> /\ u = << >>
  <2> SUFFICES ASSUME s \o u = << >> PROVE s = << >> /\ u = << >>
    OBVIOUS
  <2>1. Len(s \o u) = Len(s) + Len(u) /\ Len(s \o u) = 0
    OBVIOUS
  <2>2. Len(s) = 0 /\ Len(u) = 0
    BY <2>1
  <2> QED BY <2>2
<1>2. << >> \o s = s /\ s \o << >> = s
  BY ConcatEmptySeq
<1>3. SubSeq(s, Len(s) + 1, Len(s)) = << >>
  OBVIOUS
<1> QED BY <1>1, <1>2, <1>3
----
\* What a helper has sent and the server has not processed.
Request(h) == buffer[h] \o up[h]

\* The push of a helper that waits for its reply, or has gone, is not yet
\* told to git.
Untold(h) == \A t \in told : t[1] = h => t[2] # count[h]

\* The pushes the queue of the room client held, and perhaps published.
Postponed == queued \union late

\* The line of the current push, which is not published, followed by rest;
\* or rest alone, the line having been taken.
PushSent(h, rest) ==
  /\ <<h, count[h]>> \notin published \union Postponed
  /\ \/ expected[h] = 0 /\ Request(h) = <<Push(count[h])>> \o rest
     \/ expected[h] = 2 /\ pending[h] = count[h] /\ Request(h) = rest

Payloads == {<< >>, <<PackBytes>>, <<PackBytes>> \o <<IdxBytes>>}

PushReplied(h) ==
  \/ down[h] = <<Ok>> /\ <<h, count[h]>> \in published \ Postponed
  \/ down[h] = <<Error>> /\ <<h, count[h]>> \notin published

Served(h) == Request(h) = << >> /\ expected[h] = 0

\* Where a helper is in its command says what is in its two streams.
InSync(h) ==
  /\ pc[h] = "loop" => Served(h) /\ down[h] = << >>
  /\ pc[h] = "list" =>
       \/ expected[h] = 0 /\ Request(h) = <<List>> \o << >> /\ down[h] = << >>
       \/ Served(h) /\ down[h] \in {<<End>>, <<Ref>> \o <<End>>}
  /\ pc[h] = "fetch" =>
       \/ expected[h] = 0 /\ Request(h) = <<Fetch>> \o << >> /\ down[h] = << >>
       \/ Served(h) /\ down[h] = <<Error>> \o << >>
       \/ Served(h) /\ \E n \in 0 .. MaxPack : down[h] = <<SendPack(n)>> \o Chunks(n)
  /\ pc[h] = "index-pack" => Served(h) /\ down[h] = Chunks(size[h])
  /\ pc[h] = "pack" => PushSent(h, << >>) /\ down[h] = << >>
  /\ pc[h] = "idx" => PushSent(h, <<PackBytes>>) /\ down[h] = << >>
  /\ pc[h] = "reply" =>
       \/ PushSent(h, <<PackBytes>> \o <<IdxBytes>>) /\ down[h] = << >>
       \/ Served(h) /\ (PushReplied(h) \/ down[h] = << >>)
  /\ pc[h] = "exit" =>
       \/ Served(h)
       \/ expected[h] = 0 /\ Request(h) \in {<<List>> \o << >>, <<Fetch>> \o << >>}
       \/ Untold(h) /\ \E rest \in Payloads : PushSent(h, rest)

ToldSoFar(h) ==
  /\ \A t \in told :
       t[1] = h => /\ t[2] <= count[h]
                   /\ t[3] = "ok" <=> <<h, t[2]>> \in published
                   /\ t[3] = "ok" => <<h, t[2]>> \notin Postponed
  /\ \A n \in Nat : <<h, n>> \in published \union Postponed => n <= count[h]

\* What holds of one helper and its connection.
Sound(h) ==
  /\ pc[h] = "start" =>
       served[h] = "none" /\ Served(h) /\ down[h] = << >>
  /\ busy = h => served[h] = "open"
  /\ h \notin torn =>
       /\ ToldSoFar(h)
       /\ pc[h] \in {"pack", "idx", "reply"} => Untold(h)
       /\ Connected(h) => InSync(h)
       /\ pc[h] = "reply" /\ ~Connected(h) => PushReplied(h) \/ down[h] = << >>

IInv == TypeOK /\ \A h \in Helpers : Sound(h)
----
(* What is written is made of items. *)
LEMMA ItemsWritten ==
  /\ {List, Fetch, PackBytes, IdxBytes, Ref, End, Chunk, Ok, Error} \subseteq Items
  /\ \A n \in Nat : Push(n) \in Items /\ SendPack(n) \in Items /\ Chunks(n) \in Seq(Items)
  /\ \A o \in Outcomes : PushReply(o) \in Seq(Items)
<1>1. {List, Fetch, PackBytes, IdxBytes, Ref, End, Chunk, Ok, Error} \subseteq Items
  BY DEF List, Fetch, PackBytes, IdxBytes, Ref, End, Chunk, Ok, Error, Items
<1>2. \A n \in Nat : Push(n) \in Items /\ SendPack(n) \in Items
  BY DEF Push, SendPack, Items
<1>3. \A n \in Nat : Chunks(n) \in Seq(Items)
  BY <1>1 DEF Chunks
<1>4. ASSUME NEW o \in Outcomes PROVE PushReply(o) \in Seq(Items)
  <2>1. PushReply(o) \in {<<Ok>>, << >>, <<Error>>}
    BY DEF PushReply
  <2>2. <<Ok>> \in Seq(Items) /\ << >> \in Seq(Items) /\ <<Error>> \in Seq(Items)
    <3>1. Ok \in Items /\ Error \in Items
      BY <1>1
    <3> QED BY <3>1
  <2> QED BY <2>1, <2>2
<1> QED BY <1>1, <1>2, <1>3, <1>4

(* So does the end of the app. *)
LEMMA AppEndsTypes ==
  ASSUME TypeOK, AppEnds
  PROVE  /\ app' \in {"up", "down"}
         /\ served' \in [Helpers -> {"none", "backlog", "open", "closed"}]
         /\ buffer' \in [Helpers -> Seq(Items)]
         /\ expected' \in [Helpers -> {0, 2}]
         /\ busy' \in Helpers \union {None}
<1>1. << >> \in Seq(Items)
  OBVIOUS
<1>2. served' \in [Helpers -> {"none", "backlog", "open", "closed"}]
  BY DEF AppEnds, TypeOK
<1> QED BY <1>1, <1>2 DEF AppEnds

(* processClientData leaves every variable it writes with its type. *)
LEMMA ProcessTypes ==
  ASSUME TypeOK, NEW h \in Helpers, NEW n \in Nat, NEW still \in {0, 2},
         NEW items \in Seq(Items), Process(h, n, still, items)
  PROVE  /\ down' \in [Helpers -> Seq(Items)]
         /\ app' \in {"up", "down"}
         /\ served' \in [Helpers -> {"none", "backlog", "open", "closed"}]
         /\ buffer' \in [Helpers -> Seq(Items)]
         /\ expected' \in [Helpers -> {0, 2}]
         /\ busy' \in Helpers \union {None}
<1>1. CASE items # << >> /\ pc[h] = "exit"
  BY <1>1, AppEndsTypes DEF Process, TypeOK
<1>2. CASE ~(items # << >> /\ pc[h] = "exit")
  <2>1. SubSeq(buffer[h], n + 1, Len(buffer[h])) \in Seq(Items)
    BY DEF TypeOK
  <2>2. down[h] \o items \in Seq(Items)
    BY DEF TypeOK
  <2> QED BY <1>2, <2>1, <2>2 DEF Process, TypeOK
<1> QED BY <1>1, <1>2

(* Every variable keeps its type, in every step of every process.          *)
LEMMA TypeStep == TypeOK /\ [Next]_vars => TypeOK'
<1> SUFFICES ASSUME TypeOK, [Next]_vars PROVE TypeOK'
  OBVIOUS
<1> USE DEF TypeOK, helperVars, serverVars, Places, Goto
<1>1. ASSUME NEW h \in Helpers, GitStep(h) PROVE TypeOK'
  <2>1. ASSUME NEW c \in Items, NEW where \in Places, Begin(h, c, where) PROVE TypeOK'
    <3>1. Append(up[h], c) \in Seq(Items) /\ count[h] + 1 \in Nat
      OBVIOUS
    <3>2. /\ up' \in [Helpers -> Seq(Items)] /\ pc' \in [Helpers -> Places]
          /\ count' \in [Helpers -> Nat]
      BY <2>1, <3>1 DEF Begin, Write
    <3> QED BY <2>1, <3>2 DEF Begin
  <2>2. CASE Nothing(h)
    <3>1. count' \in [Helpers -> Nat]
      BY <2>2 DEF Nothing
    <3> QED BY <2>2, <3>1 DEF Nothing
  <2>3. List \in Items /\ Fetch \in Items /\ Push(count[h] + 1) \in Items
    BY ItemsWritten
  <2>4. "list" \in Places /\ "fetch" \in Places /\ "pack" \in Places
    OBVIOUS
  <2> HIDE DEF TypeOK, Places
  <2>5. CASE AskList(h)
    BY <2>5, <2>1, <2>3, <2>4 DEF AskList
  <2>6. CASE AskFetch(h)
    BY <2>6, <2>1, <2>3, <2>4 DEF AskFetch
  <2>7. CASE AskPush(h)
    BY <2>7, <2>1, <2>3, <2>4 DEF AskPush
  <2> QED BY <1>1, <2>2, <2>5, <2>6, <2>7 DEF GitStep
<1>2. ASSUME NEW h \in Helpers, HelperStep(h) PROVE TypeOK'
  <2>1. CASE Connect(h)
    BY <2>1 DEF Connect
  <2>2. ASSUME NEW from, NEW item \in Items, NEW where \in Places,
               Payload(h, from, item, where) PROVE TypeOK'
    <3>1. Append(up[h], item) \in Seq(Items)
      OBVIOUS
    <3>2. /\ up' = up \/ up' = [up EXCEPT ![h] = Append(up[h], item)]
          /\ \E place \in Places : pc' = [pc EXCEPT ![h] = place]
      BY <2>2 DEF Payload, Write
    <3>3. up' \in [Helpers -> Seq(Items)]
      <4>1. up \in [Helpers -> Seq(Items)]
        OBVIOUS
      <4> HIDE DEF TypeOK, Places, helperVars, serverVars
      <4> QED BY <3>1, <3>2, <4>1
    <3>4. pc' \in [Helpers -> Places]
      BY <3>2
    <3> QED BY <2>2, <3>3, <3>4 DEF Payload
  <2>3. ASSUME NEW n \in 1 .. Len(down[h]), Consume(h, n)
        PROVE  down' \in [Helpers -> Seq(Items)]
    <3>1. SubSeq(down[h], n + 1, Len(down[h])) \in Seq(Items)
      OBVIOUS
    <3> QED BY <2>3, <3>1 DEF Consume
  <2>4. CASE ReadRefs(h)
    <3>1. PICK n \in DOMAIN down[h] : Consume(h, n)
      BY <2>4 DEF ReadRefs
    <3>2. n \in 1 .. Len(down[h])
      OBVIOUS
    <3>3. down' \in [Helpers -> Seq(Items)] /\ pc' \in [Helpers -> Places]
      BY <2>4, <2>3, <3>1, <3>2 DEF ReadRefs
    <3> QED BY <2>4, <3>3 DEF ReadRefs
  <2>5. ASSUME down[h] # << >>
        PROVE  1 \in 1 .. Len(down[h]) /\ Head(down[h]) \in Items
    BY <2>5
  <2>6. CASE ReadHeader(h)
    <3>1. Head(down[h])[2] \in Nat
      BY <2>5, <2>6 DEF ReadHeader, Items
    <3> QED BY <2>3, <2>5, <2>6, <3>1 DEF ReadHeader
  <2>7. CASE CopyPack(h)
    <3>1. down' \in [Helpers -> Seq(Items)]
      BY <2>3, <2>5, <2>7 DEF CopyPack
    <3>2. size' \in [Helpers -> Nat]
      BY <2>7 DEF CopyPack
    <3> QED BY <2>7, <3>1, <3>2 DEF CopyPack
  <2>8. CASE PackCopied(h)
    BY <2>8 DEF PackCopied
  <2>9. CASE PackUnread(h) \/ PackBreaks(h)
    <3>1. CASE PackUnread(h)
      BY <2>3, <2>5, <3>1 DEF PackUnread
    <3>2. CASE PackBreaks(h)
      BY <2>3, <2>5, <3>2 DEF PackBreaks
    <3> QED BY <2>9, <3>1, <3>2
  <2>10. CASE ReadReply(h)
    <3>1. down' \in [Helpers -> Seq(Items)] /\ pc' \in [Helpers -> Places]
      BY <2>3, <2>5, <2>10 DEF ReadReply
    <3>2. told' \subseteq Helpers \X Nat \X {"ok", "error"}
      <4>1. count[h] \in Nat
        OBVIOUS
      <4> QED BY <2>10, <4>1 DEF ReadReply
    <3> QED BY <2>10, <3>1, <3>2 DEF ReadReply
  <2>11. CASE ReadFails(h)
    <3>1. down' \in [Helpers -> Seq(Items)] /\ pc' \in [Helpers -> Places]
          /\ size' \in [Helpers -> Nat]
      BY <2>11 DEF ReadFails
    <3> QED BY <2>11, <3>1 DEF ReadFails
  <2> QED BY <1>2, <2>1, <2>2, <2>4, <2>6, <2>7, <2>8, <2>9, <2>10, <2>11, ItemsWritten
        DEF HelperStep, WritePack, WriteIdx
<1>3. ASSUME NEW h \in Helpers, Exit(h) PROVE TypeOK'
  BY <1>3 DEF Exit
<1>4. ASSUME NEW h \in Helpers, SourceFires(h) PROVE TypeOK'
  <2>1. CASE Accept(h)
    BY <2>1 DEF Accept
  <2>2. CASE Read(h)
    <3>1. PICK n \in 1 .. Len(up[h]) :
            /\ buffer' = [buffer EXCEPT ![h] = @ \o SubSeq(up[h], 1, n)]
            /\ up' = [up EXCEPT ![h] = SubSeq(@, n + 1, Len(@))]
      BY <2>2 DEF Read
    <3>2. SubSeq(up[h], 1, n) \in Seq(Items) /\ SubSeq(up[h], n + 1, Len(up[h])) \in Seq(Items)
      <4>1. up[h] \in Seq(Items)
        OBVIOUS
      <4> HIDE DEF TypeOK, Places, helperVars, serverVars
      <4> QED BY <4>1
    <3>3. buffer[h] \o SubSeq(up[h], 1, n) \in Seq(Items)
      BY <3>2
    <3> QED BY <2>2, <3>1, <3>2, <3>3 DEF Read
  <2>3. CASE Cancel(h)
    BY <2>3 DEF Cancel
  <2> QED BY <1>4, <2>1, <2>2, <2>3 DEF SourceFires
<1>5. ASSUME NEW h \in Helpers, ServerStep(h) PROVE TypeOK'
  <2>1. ASSUME NEW items \in Seq(Items), Answer(h, items) PROVE TypeOK'
    BY <2>1, ProcessTypes DEF Answer
  <2>2. CASE AnswerList(h)
    <3>1. \A refs \in {<< >>, <<Ref>>} : refs \o <<End>> \in Seq(Items)
      <4>1. Ref \in Items /\ End \in Items
        BY ItemsWritten
      <4>2. << >> \o <<End>> \in Seq(Items) /\ <<Ref>> \o <<End>> \in Seq(Items)
        BY <4>1
      <4> QED BY <4>2
    <3> QED BY <2>1, <2>2, <3>1 DEF AnswerList
  <2>3. CASE AnswerFetch(h)
    <3>1. <<Error>> \in Seq(Items)
      <4>1. Error \in Items
        BY ItemsWritten
      <4> QED BY <4>1
    <3>2. \A n \in 0 .. MaxPack : <<SendPack(n)>> \o Chunks(n) \in Seq(Items)
      <4>1. ASSUME NEW n \in 0 .. MaxPack PROVE <<SendPack(n)>> \o Chunks(n) \in Seq(Items)
        <5>1. SendPack(n) \in Items /\ Chunks(n) \in Seq(Items)
          <6>1. n \in Nat
            BY BoundsAssumption
          <6> QED BY <6>1, ItemsWritten
        <5> QED BY <5>1
      <4> QED BY <4>1
    <3> QED BY <2>1, <2>3, <3>1, <3>2 DEF AnswerFetch
  <2>4. CASE TakePush(h)
    <3>1. Head(buffer[h])[2] \in Nat
      BY <2>4 DEF TakePush, Line, Items
    <3>2. << >> \in Seq(Items)
      OBVIOUS
    <3>3. Process(h, 1, 2, << >>)
      BY <2>4 DEF TakePush
    <3> HIDE DEF TypeOK
    <3>4. /\ down' \in [Helpers -> Seq(Items)]
          /\ app' \in {"up", "down"}
          /\ served' \in [Helpers -> {"none", "backlog", "open", "closed"}]
          /\ buffer' \in [Helpers -> Seq(Items)]
          /\ expected' \in [Helpers -> {0, 2}]
          /\ busy' \in Helpers \union {None}
      BY <3>2, <3>3, ProcessTypes
    <3> QED BY <2>4, <3>1, <3>4 DEF TakePush, TypeOK
  <2>5. CASE HandlePayload(h)
    <3>1. PICK o \in Outcomes :
            /\ Process(h, expected[h], 0, PushReply(o))
            /\ published' = Record(published, h, o = "published")
            /\ queued' = Record(queued, h, o = "queued")
            /\ mute' = Record(mute, h, o = "no client")
      BY <2>5 DEF HandlePayload
    <3>2. expected[h] \in Nat /\ PushReply(o) \in Seq(Items)
      <4>1. PushReply(o) \in Seq(Items)
        BY ItemsWritten
      <4>2. expected[h] \in {0, 2}
        OBVIOUS
      <4> QED BY <4>1, <4>2
    <3> HIDE DEF TypeOK
    <3>3. /\ down' \in [Helpers -> Seq(Items)]
          /\ app' \in {"up", "down"}
          /\ served' \in [Helpers -> {"none", "backlog", "open", "closed"}]
          /\ buffer' \in [Helpers -> Seq(Items)]
          /\ expected' \in [Helpers -> {0, 2}]
          /\ busy' \in Helpers \union {None}
      BY <3>1, <3>2, ProcessTypes
    <3>4. /\ published' \subseteq Helpers \X Nat
          /\ queued' \subseteq Helpers \X Nat
          /\ mute' \subseteq Helpers \X Nat
      <4>1. <<h, pending[h]>> \in Helpers \X Nat
        BY DEF TypeOK
      <4> QED BY <3>1, <4>1 DEF TypeOK, Record
    <3> QED BY <2>5, <3>3, <3>4 DEF HandlePayload, TypeOK
  <2>6. CASE Wait(h)
    BY <2>6 DEF Wait
  <2> QED BY <1>5, <2>2, <2>3, <2>4, <2>5, <2>6 DEF ServerStep
<1>6. CASE Quit
  BY <1>6, AppEndsTypes DEF Quit
<1>7. CASE Start
  BY <1>7 DEF Start
<1>8. CASE ProcessPublishQueue
  BY <1>8 DEF ProcessPublishQueue
<1>9. CASE UNCHANGED vars
  BY <1>9 DEF vars
<1> QED BY <1>1, <1>2, <1>3, <1>4, <1>5, <1>6, <1>7, <1>8, <1>9 DEF Next
----
\* Nothing that Sound says of g has changed.
SameFor(g) ==
  /\ pc'[g] = pc[g] /\ count'[g] = count[g] /\ size'[g] = size[g]
  /\ up'[g] = up[g] /\ down'[g] = down[g] /\ pending'[g] = pending[g]
  /\ g \in torn' <=> g \in torn
  /\ \A t : t[1] = g => (t \in told' <=> t \in told)
  /\ \A n : <<g, n>> \in published' <=> <<g, n>> \in published
  /\ \A n : <<g, n>> \in Postponed' => <<g, n>> \in Postponed

(* A step that leaves a helper and its connection alone keeps them sound.  *)
LEMMA Frame ==
  ASSUME NEW g \in Helpers, Sound(g), SameFor(g),
         served'[g] = served[g], buffer'[g] = buffer[g], expected'[g] = expected[g],
         busy' = g => busy = g
  PROVE  Sound(g)'
<1>1. /\ Request(g)' = Request(g) /\ (Connected(g)' <=> Connected(g))
      /\ (ToldSoFar(g) => ToldSoFar(g)') /\ (Untold(g)' <=> Untold(g))
      /\ (PushReplied(g) => PushReplied(g)') /\ (Served(g)' <=> Served(g))
  BY DEF Request, Connected, ToldSoFar, Untold, PushReplied, Served, SameFor
<1>2. \A rest : PushSent(g, rest) => PushSent(g, rest)'
  BY <1>1 DEF PushSent, SameFor
<1>3. InSync(g) => InSync(g)'
  BY <1>1, <1>2 DEF InSync, SameFor
<1> QED BY <1>1, <1>3 DEF Sound, SameFor

(* The end of the app cuts every helper off.                               *)
LEMMA Cut ==
  ASSUME TypeOK, NEW g \in Helpers, Sound(g), SameFor(g), AppEnds
  PROVE  Sound(g)'
<1>1. buffer'[g] = << >> /\ expected'[g] = 0 /\ busy' = None /\ ~Connected(g)'
  BY DEF AppEnds, Connected, TypeOK
<1>2. /\ (ToldSoFar(g) => ToldSoFar(g)') /\ (Untold(g)' <=> Untold(g))
      /\ (PushReplied(g) => PushReplied(g)')
  BY DEF ToldSoFar, Untold, PushReplied, SameFor
<1>3. pc'[g] = "start" => served'[g] = "none" /\ Served(g)' /\ down'[g] = << >>
  <2> SUFFICES ASSUME pc'[g] = "start"
               PROVE  served'[g] = "none" /\ Served(g)' /\ down'[g] = << >>
    OBVIOUS
  <2>1. served[g] = "none" /\ buffer[g] \o up[g] = << >> /\ down[g] = << >>
    BY DEF Sound, SameFor, Served, Request
  <2>2. up[g] = << >>
    BY <2>1, NothingLeft DEF TypeOK
  <2>3. served'[g] = "none"
    BY <2>1 DEF AppEnds, Connected, TypeOK
  <2> QED BY <2>1, <2>2, <2>3, <1>1 DEF SameFor, Served, Request
<1>4. ASSUME g \notin torn, pc[g] = "reply" PROVE PushReplied(g) \/ down[g] = << >>
  BY <1>4 DEF Sound, InSync
<1>5. busy' # g
  BY <1>1, BoundsAssumption
<1> QED BY <1>1, <1>2, <1>3, <1>4, <1>5 DEF Sound, SameFor
----
(* The streams of a helper are sequences, and an empty stream of requests  *)
(* is empty on both sides of the socket.                                   *)
LEMMA Streams ==
  ASSUME TypeOK, NEW h \in Helpers
  PROVE  /\ buffer[h] \in Seq(Items) /\ up[h] \in Seq(Items) /\ down[h] \in Seq(Items)
         /\ Request(h) \in Seq(Items)
         /\ Request(h) = << >> => buffer[h] = << >> /\ up[h] = << >>
         /\ count[h] \in Nat
         /\ \A t \in told : t[2] \in Nat
<1>1. buffer[h] \in Seq(Items) /\ up[h] \in Seq(Items) /\ down[h] \in Seq(Items)
  BY DEF TypeOK
<1>2. \A t \in told : t[2] \in Nat
  BY DEF TypeOK
<1>3. count[h] \in Nat
  BY DEF TypeOK
<1> QED BY <1>1, <1>2, <1>3, NothingLeft DEF Request

(* What a helper writes is added to its stream of requests.                *)
LEMMA Written ==
  ASSUME TypeOK, NEW h \in Helpers, NEW x \in Items, Write(h, x), buffer'[h] = buffer[h]
  PROVE  Request(h)' = Append(Request(h), x)
<1>1. up'[h] = Append(up[h], x)
  BY DEF Write, TypeOK
<1>2. buffer[h] \in Seq(Items) /\ up[h] \in Seq(Items)
  BY Streams
<1>3. buffer[h] \o Append(up[h], x) = Append(buffer[h] \o up[h], x)
  <2>1. \A s, u \in Seq(Items) : s \o Append(u, x) = Append(s \o u, x)
    BY WriteExtends
  <2> QED BY <1>2, <2>1
<1> QED BY <1>1, <1>3 DEF Request

(* git's next command: it begins with nothing left of the last one.        *)
LEMMA BeginSound ==
  ASSUME TypeOK, NEW h \in Helpers, Sound(h), GitStep(h)
  PROVE  Sound(h)'
<1> USE Streams DEF Goto, serverVars
<1>1. CASE Nothing(h)
  <2>1. /\ pc[h] = "loop" /\ pc' = pc /\ count'[h] = count[h] + 1
        /\ UNCHANGED <<size, told, torn, up, down, served, buffer, expected, pending,
                       busy, published, queued, late>>
    BY <1>1 DEF Nothing, TypeOK
  <2>2. ToldSoFar(h) => ToldSoFar(h)'
    BY <2>1 DEF ToldSoFar, Postponed
  <2>3. (Connected(h)' <=> Connected(h)) /\ (InSync(h) => InSync(h)')
    BY <2>1 DEF InSync, Connected, Served, Request
  <2> QED BY <2>1, <2>2, <2>3 DEF Sound
<1>2. ASSUME NEW c \in Items, NEW where \in {"list", "fetch", "pack"}, Begin(h, c, where)
      PROVE  /\ pc[h] = "loop" /\ pc'[h] = where /\ count'[h] = count[h] + 1
             /\ torn' = torn /\ served' = served /\ busy' = busy /\ expected' = expected
             /\ Request(h)' = Append(Request(h), c) /\ down' = down
             /\ (h \notin torn => ToldSoFar(h)' /\ Untold(h)')
             /\ (Connected(h)' <=> Connected(h)) /\ Connected(h)
  <2>1. /\ pc[h] = "loop" /\ pc'[h] = where /\ count'[h] = count[h] + 1
        /\ UNCHANGED <<told, torn, down, served, buffer, expected, busy, published, queued, late>>
        /\ Connected(h)
    BY <1>2 DEF Begin, TypeOK
  <2>2. Request(h)' = Append(Request(h), c)
    BY <1>2, <2>1, Written DEF Begin
  <2>3. h \notin torn => ToldSoFar(h)' /\ Untold(h)'
    <3> SUFFICES ASSUME h \notin torn PROVE ToldSoFar(h)' /\ Untold(h)'
      OBVIOUS
    <3>1. ToldSoFar(h)
      BY DEF Sound
    <3>2. ASSUME NEW t \in told, t[1] = h, t[2] <= count[h]
          PROVE  t[2] <= count[h] + 1 /\ t[2] # count[h] + 1
      BY <3>2
    <3>3. \A n \in Nat : <<h, n>> \in published \union Postponed => n <= count[h] + 1
      BY <3>1 DEF ToldSoFar
    <3> QED BY <3>1, <3>2, <3>3, <2>1 DEF ToldSoFar, Untold, Postponed
  <2> QED BY <2>1, <2>2, <2>3 DEF Connected
<1>3. \A x : Append(<< >>, x) = <<x>> \o << >>
  OBVIOUS
<1>4. ASSUME pc[h] = "loop", Connected(h), h \notin torn
      PROVE  Request(h) = << >> /\ expected[h] = 0 /\ down[h] = << >>
  BY <1>4 DEF Sound, InSync, Served
<1>5. CASE AskList(h)
  <2>1. Begin(h, List, "list") /\ List \in Items
    BY <1>5, ItemsWritten DEF AskList
  <2>2. h \notin torn => InSync(h)'
    BY <2>1, <1>2, <1>3, <1>4 DEF InSync
  <2> QED BY <2>1, <2>2, <1>2 DEF Sound
<1>6. CASE AskFetch(h)
  <2>1. Begin(h, Fetch, "fetch") /\ Fetch \in Items
    BY <1>6, ItemsWritten DEF AskFetch
  <2>2. h \notin torn => InSync(h)'
    BY <2>1, <1>2, <1>3, <1>4 DEF InSync
  <2> QED BY <2>1, <2>2, <1>2 DEF Sound
<1>7. CASE AskPush(h)
  <2>1. Begin(h, Push(count[h] + 1), "pack") /\ Push(count[h] + 1) \in Items
    BY <1>7, ItemsWritten DEF AskPush
  <2>2. h \notin torn => PushSent(h, << >>)'
    <3>1. ASSUME h \notin torn 
               PROVE  /\ <<h, count[h] + 1>> \notin published \union Postponed
                      /\ published' = published /\ Postponed' = Postponed
      BY <2>1, <3>1 DEF Sound, ToldSoFar, Begin, Postponed
    <3> QED BY <3>1, <2>1, <1>2, <1>3, <1>4 DEF PushSent
  <2>3. h \notin torn => InSync(h)'
    BY <2>1, <2>2, <1>2, <1>4 DEF InSync
  <2> QED BY <2>1, <2>3, <1>2 DEF Sound
<1> QED BY <1>1, <1>5, <1>6, <1>7 DEF GitStep

(* A payload that follows its line; a broken connection ends the command.  *)
LEMMA PayloadSound ==
  ASSUME TypeOK, NEW h \in Helpers, Sound(h), WritePack(h) \/ WriteIdx(h)
  PROVE  Sound(h)'
<1> USE Streams DEF Goto, serverVars
<1>1. ASSUME NEW from \in {"pack", "idx"}, NEW x \in Items, NEW where \in {"idx", "reply"},
             Payload(h, from, x, where)
      PROVE  /\ pc[h] = from /\ torn' = torn /\ served' = served /\ busy' = busy
             /\ expected' = expected /\ pending' = pending /\ count' = count /\ down' = down
             /\ published' = published /\ Postponed' = Postponed
             /\ (ToldSoFar(h)' <=> ToldSoFar(h)) /\ (Untold(h)' <=> Untold(h))
             /\ (Connected(h)' <=> Connected(h))
             /\ (Connected(h) => pc'[h] = where /\ Request(h)' = Append(Request(h), x))
             /\ (~Connected(h) => pc'[h] = "loop")
  <2>1. /\ pc[h] = from
        /\ UNCHANGED <<count, told, torn, down, served, buffer, expected, pending, busy, published, queued, late>>
    BY <1>1 DEF Payload
  <2>2. (Connected(h) => pc'[h] = where) /\ (~Connected(h) => pc'[h] = "loop")
    BY <1>1 DEF Payload, TypeOK
  <2>3. Connected(h) => Request(h)' = Append(Request(h), x)
    BY <1>1, <2>1, Written DEF Payload
  <2> QED BY <2>1, <2>2, <2>3 DEF Connected, ToldSoFar, Untold, Postponed
<1>3. CASE WritePack(h)
  <2>1. Payload(h, "pack", PackBytes, "idx") /\ PackBytes \in Items
    BY <1>3, ItemsWritten DEF WritePack
  <2>2. ASSUME h \notin torn, Connected(h) PROVE PushSent(h, <<PackBytes>>)'
    <3>1. PushSent(h, << >>)
      BY <2>1, <2>2, <1>1 DEF Sound, InSync
    <3>2. /\ Append(<<Push(count[h])>> \o << >>, PackBytes) = <<Push(count[h])>> \o <<PackBytes>>
          /\ Append(<< >>, PackBytes) = <<PackBytes>>
      BY TwoItems, <2>1, ItemsWritten
    <3>3. /\ expected' = expected /\ pending' = pending /\ count' = count
          /\ published' = published /\ Postponed' = Postponed
          /\ Request(h)' = Append(Request(h), PackBytes)
      BY <2>1, <2>2, <1>1
    <3>4. CASE expected[h] = 0 /\ Request(h) = <<Push(count[h])>> \o << >>
      BY <3>1, <3>2, <3>3, <3>4 DEF PushSent, Push
    <3>5. CASE expected[h] = 2 /\ pending[h] = count[h] /\ Request(h) = << >>
      BY <3>1, <3>2, <3>3, <3>5 DEF PushSent
    <3> QED BY <3>1, <3>4, <3>5 DEF PushSent
  <2>3. ASSUME h \notin torn, Connected(h) PROVE InSync(h)'
    BY <2>1, <2>2, <2>3, <1>1 DEF InSync, Sound
  <2> QED BY <2>1, <2>3, <1>1 DEF Sound
<1>4. CASE WriteIdx(h)
  <2>1. Payload(h, "idx", IdxBytes, "reply") /\ IdxBytes \in Items
    BY <1>4, ItemsWritten DEF WriteIdx
  <2>2. ASSUME h \notin torn, Connected(h) PROVE PushSent(h, <<PackBytes>> \o <<IdxBytes>>)'
    <3>1. PushSent(h, <<PackBytes>>)
      BY <2>1, <2>2, <1>1 DEF Sound, InSync
    <3>2. /\ Append(<<Push(count[h])>> \o <<PackBytes>>, IdxBytes)
               = <<Push(count[h])>> \o (<<PackBytes>> \o <<IdxBytes>>)
          /\ Append(<<PackBytes>>, IdxBytes) = <<PackBytes>> \o <<IdxBytes>>
      <4>1. count[h] \in Nat
        BY DEF TypeOK
      <4>2. Push(count[h]) \in Items /\ PackBytes \in Items /\ IdxBytes \in Items
        BY <4>1, ItemsWritten
      <4> QED BY <4>2, TwoItems
    <3>3. /\ expected' = expected /\ pending' = pending /\ count' = count
          /\ published' = published /\ Postponed' = Postponed
          /\ Request(h)' = Append(Request(h), IdxBytes)
      BY <2>1, <2>2, <1>1
    <3>4. CASE expected[h] = 0 /\ Request(h) = <<Push(count[h])>> \o <<PackBytes>>
      BY <3>1, <3>2, <3>3, <3>4 DEF PushSent, Push
    <3>5. CASE expected[h] = 2 /\ pending[h] = count[h] /\ Request(h) = <<PackBytes>>
      BY <3>1, <3>2, <3>3, <3>5 DEF PushSent
    <3> QED BY <3>1, <3>4, <3>5 DEF PushSent
  <2>3. ASSUME h \notin torn, Connected(h) PROVE InSync(h)'
    BY <2>1, <2>2, <2>3, <1>1 DEF InSync, Sound
  <2> QED BY <2>1, <2>3, <1>1 DEF Sound
<1> QED BY <1>3, <1>4

(* Of a pack of k chunks, k - 1 remain when the first has been read.       *)
LEMMA ChunksRest ==
  ASSUME NEW k \in Nat
  PROVE  /\ Chunks(k) \in Seq(Items) /\ Len(Chunks(k)) = k
         /\ (Chunks(k) = << >> <=> k = 0)
         /\ k > 0 => SubSeq(Chunks(k), 2, Len(Chunks(k))) = Chunks(k - 1)
<1>1. \A n \in Nat : Chunks(n) \in Seq(Items) /\ Len(Chunks(n)) = n
                     /\ \A i \in 1 .. n : Chunks(n)[i] = Chunk
  <2>1. Chunk \in Items
    BY ItemsWritten
  <2> QED BY <2>1 DEF Chunks
<1>2. Chunks(k) = << >> <=> k = 0
  BY <1>1
<1>3. ASSUME k > 0 PROVE SubSeq(Chunks(k), 2, Len(Chunks(k))) = Chunks(k - 1)
  <2> DEFINE rest == SubSeq(Chunks(k), 2, Len(Chunks(k)))
  <2>1. rest \in Seq(Items) /\ Len(rest) = k - 1 /\ \A i \in 1 .. k - 1 : rest[i] = Chunk
    BY <1>1, <1>3
  <2>2. k - 1 \in Nat
    BY <1>3
  <2> HIDE DEF rest
  <2>3. rest = Chunks(k - 1)
    BY <1>1, <2>1, <2>2, SeqEqual
  <2> QED BY <2>3 DEF rest
<1> QED BY <1>1, <1>2, <1>3

\* What the steps that only read have in common.
ReadsOnly(h) ==
  /\ UNCHANGED <<count, torn, up, served, buffer, expected, pending, busy, published, queued, late>>
  /\ pc'[h] # "start"

(* A read of the helper's own changes nothing of its request. *)
LEMMA ReadsOnlyKeeps ==
  ASSUME NEW h \in Helpers, ReadsOnly(h)
  PROVE  /\ Request(h)' = Request(h) /\ (Connected(h)' <=> Connected(h))
         /\ (Served(h)' <=> Served(h))
         /\ (told' = told => (ToldSoFar(h)' <=> ToldSoFar(h)) /\ (Untold(h)' <=> Untold(h)))
         /\ \A rest : PushSent(h, rest)' <=> PushSent(h, rest)
BY DEF ReadsOnly, Request, Connected, Served, ToldSoFar, Untold, PushSent, Postponed

(* A command that has read its whole reply leaves the streams empty.       *)
LEMMA ReadSound ==
  ASSUME TypeOK, NEW h \in Helpers, Sound(h),
         \/ ReadRefs(h) \/ ReadHeader(h) \/ CopyPack(h) \/ PackCopied(h)
         \/ PackUnread(h) \/ PackBreaks(h) \/ ReadReply(h) \/ ReadFails(h)
  PROVE  Sound(h)'
<1> USE Streams DEF Goto, serverVars
<1>1. ASSUME NEW n, Consume(h, n) PROVE down'[h] = SubSeq(down[h], n + 1, Len(down[h]))
  BY <1>1 DEF Consume, TypeOK
<1>a. ASSUME Consume(h, 1) PROVE down'[h] = SubSeq(down[h], 2, Len(down[h]))
  <2>1. 1 + 1 = 2
    OBVIOUS
  <2> QED BY <1>a, <1>1, <2>1
<1>2. ASSUME ReadsOnly(h), pc'[h] = "loop", told' = told, pc[h] # "start",
             h \notin torn /\ Connected(h) => Served(h) /\ down'[h] = << >>
      PROVE  Sound(h)'
  BY <1>2, ReadsOnlyKeeps DEF Sound, InSync, ReadsOnly
<1>3. CASE ReadRefs(h)
  <2>1. ReadsOnly(h) /\ pc[h] = "list" /\ pc'[h] = "loop" /\ told' = told
    BY <1>3 DEF ReadRefs, ReadsOnly, TypeOK
  <2>2. PICK n \in DOMAIN down[h] :
          /\ down[h][n] = End /\ (\A i \in 1 .. n - 1 : down[h][i] # End)
          /\ Consume(h, n)
    BY <1>3 DEF ReadRefs
  <2>3. ASSUME h \notin torn, Connected(h) PROVE Served(h) /\ down'[h] = << >>
    <3>1. Served(h) /\ down[h] \in {<<End>>, <<Ref>> \o <<End>>}
      BY <2>1, <2>2, <2>3 DEF Sound, InSync
    <3>2. n = Len(down[h])
      <4>1. Ref # End
        BY DEF Ref, End
      <4>2. DOMAIN down[h] = 1 .. Len(down[h])
        OBVIOUS
      <4>3. CASE down[h] = <<End>>
        BY <2>2, <4>2, <4>3
      <4>4. CASE down[h] = <<Ref>> \o <<End>>
        <5>1. Len(down[h]) = 2 /\ down[h][1] = Ref
          BY <4>4
        <5> QED BY <2>2, <4>1, <4>2, <5>1
      <4> QED BY <3>1, <4>3, <4>4
    <3>3. down'[h] = << >>
      BY <2>2, <3>2, <1>1, NothingLeft
    <3> QED BY <3>1, <3>3
  <2> QED BY <2>1, <2>3, <1>2
<1>4. CASE ReadHeader(h)
  <2>1. /\ ReadsOnly(h) /\ pc[h] = "fetch" /\ told' = told /\ down[h] # << >>
        /\ down'[h] = SubSeq(down[h], 2, Len(down[h]))
    BY <1>4, <1>a DEF ReadHeader, ReadsOnly, TypeOK
  <2>2. IF Head(down[h])[1] = "SEND_PACK"
        THEN pc'[h] = "index-pack" /\ size'[h] = Head(down[h])[2]
        ELSE pc'[h] = "loop"
    BY <1>4 DEF ReadHeader, TypeOK
  <2>3. ASSUME h \notin torn, Connected(h)
        PROVE  Served(h) /\ \/ down[h] = <<Error>> \o << >>
                            \/ \E n \in 0 .. MaxPack : down[h] = <<SendPack(n)>> \o Chunks(n)
    BY <2>1, <2>3 DEF Sound, InSync
  <2>4. ASSUME h \notin torn, Connected(h) PROVE InSync(h)'
    <3>1. CASE down[h] = <<Error>> \o << >>
      <4>1. Error \in Items /\ << >> \in Seq(Items)
        BY ItemsWritten
      <4>2. Head(down[h]) = Error /\ down'[h] = << >>
        BY <2>1, <3>1, <4>1, RestOf
      <4> QED BY <2>1, <2>2, <2>3, <2>4, <4>2, ReadsOnlyKeeps DEF InSync, Error
    <3>2. ASSUME NEW n \in 0 .. MaxPack, down[h] = <<SendPack(n)>> \o Chunks(n)
          PROVE  InSync(h)'
      <4>1. SendPack(n) \in Items /\ Chunks(n) \in Seq(Items)
        <5>1. n \in Nat
          BY BoundsAssumption
        <5> QED BY <5>1, ItemsWritten
      <4>2. Head(down[h]) = SendPack(n) /\ down'[h] = Chunks(n)
        BY <2>1, <3>2, <4>1, RestOf
      <4> QED BY <2>1, <2>2, <2>3, <2>4, <4>2, ReadsOnlyKeeps DEF InSync, SendPack
    <3> QED BY <2>3, <2>4, <3>1, <3>2
  <2> QED BY <2>1, <2>2, <2>4, ReadsOnlyKeeps DEF Sound, ReadsOnly
<1>5. CASE CopyPack(h)
  <2>1. /\ ReadsOnly(h) /\ pc[h] = "index-pack" /\ pc' = pc /\ told' = told
        /\ size[h] > 0 /\ size'[h] = size[h] - 1 /\ size[h] \in Nat
        /\ down'[h] = SubSeq(down[h], 2, Len(down[h]))
    BY <1>5, <1>a DEF CopyPack, ReadsOnly, TypeOK
  <2>2. ASSUME h \notin torn, Connected(h) PROVE InSync(h)'
    <3>1. Served(h) /\ down[h] = Chunks(size[h])
      BY <2>1, <2>2 DEF Sound, InSync
    <3>2. down'[h] = Chunks(size'[h])
      BY <2>1, <3>1, ChunksRest
    <3> QED BY <2>1, <3>1, <3>2, ReadsOnlyKeeps DEF InSync
  <2> QED BY <2>1, <2>2, ReadsOnlyKeeps DEF Sound, ReadsOnly
<1>6. CASE PackCopied(h)
  <2>1. /\ ReadsOnly(h) /\ pc[h] = "index-pack" /\ pc'[h] = "loop" /\ told' = told
        /\ size[h] = 0 /\ down' = down
    BY <1>6 DEF PackCopied, ReadsOnly, TypeOK
  <2>2. h \notin torn /\ Connected(h) => Served(h) /\ down'[h] = << >>
    BY <2>1, ChunksRest DEF Sound, InSync
  <2> QED BY <2>1, <2>2, <1>2
<1>7. CASE PackUnread(h) \/ PackBreaks(h)
  <2>1. pc'[h] = "loop" /\ h \in torn' /\ busy' = busy /\ served' = served
    BY <1>7 DEF PackUnread, PackBreaks, TypeOK
  <2> QED BY <2>1 DEF Sound
<1>8. CASE ReadReply(h)
  <2>1. /\ ReadsOnly(h) /\ pc[h] = "reply" /\ pc'[h] = "loop" /\ down[h] # << >>
        /\ told' = told \union {<<h, count[h], IF Head(down[h]) = Ok THEN "ok" ELSE "error">>}
        /\ down'[h] = SubSeq(down[h], 2, Len(down[h]))
    BY <1>8, <1>a DEF ReadReply, ReadsOnly, TypeOK
  <2>2. ASSUME h \notin torn
        PROVE  PushReplied(h) /\ (Connected(h) => Served(h)) /\ ToldSoFar(h)
    BY <2>1, <2>2 DEF Sound, InSync
  <2>3. ASSUME h \notin torn PROVE down'[h] = << >>
    <3>1. SubSeq(<<Ok>>, 2, Len(<<Ok>>)) = << >> /\ SubSeq(<<Error>>, 2, Len(<<Error>>)) = << >>
      OBVIOUS
    <3> QED BY <2>1, <2>2, <2>3, <3>1 DEF PushReplied
  <2>4. ASSUME h \notin torn PROVE ToldSoFar(h)'
    <3>1. Ok # Error
      BY DEF Ok, Error
    <3>2. /\ Head(down[h]) = Ok <=> <<h, count[h]>> \in published
          /\ Head(down[h]) = Ok => <<h, count[h]>> \notin Postponed
      BY <2>2, <2>4, <3>1 DEF PushReplied
    <3>3. published' = published /\ Postponed' = Postponed /\ count' = count
      BY <2>1 DEF ReadsOnly, Postponed
    <3>4. ASSUME NEW t \in told', t[1] = h
          PROVE  /\ t[2] <= count[h] /\ (t[3] = "ok" <=> <<h, t[2]>> \in published)
                 /\ t[3] = "ok" => <<h, t[2]>> \notin Postponed
      <4>1. CASE t \in told
        BY <2>2, <2>4, <3>4, <4>1 DEF ToldSoFar
      <4>2. CASE t = <<h, count[h], IF Head(down[h]) = Ok THEN "ok" ELSE "error">>
        BY <3>2, <4>2
      <4> QED BY <2>1, <4>1, <4>2
    <3>5. \A n \in Nat : <<h, n>> \in published \union Postponed => n <= count[h]
      BY <2>2, <2>4 DEF ToldSoFar
    <3> QED BY <3>3, <3>4, <3>5 DEF ToldSoFar
  <2> QED BY <2>1, <2>2, <2>3, <2>4, ReadsOnlyKeeps DEF Sound, InSync, ReadsOnly
<1>9. CASE ReadFails(h)
  <2>1. /\ ReadsOnly(h) /\ pc[h] # "start" /\ pc'[h] = "loop" /\ told' = told /\ ~Connected(h)
    BY <1>9 DEF ReadFails, ReadsOnly, Connected, TypeOK
  <2> QED BY <2>1, <1>2
<1> QED BY <1>3, <1>4, <1>5, <1>6, <1>7, <1>8, <1>9

(* A helper that connects, and one whose process ends.                     *)
LEMMA ConnectSound ==
  ASSUME TypeOK, NEW h \in Helpers, Sound(h), Connect(h)
  PROVE  Sound(h)'
<1>1. /\ pc[h] = "start" /\ pc'[h] \in {"loop", "exit"}
      /\ pc'[h] = "exit" => served' = served
      /\ UNCHANGED <<count, told, torn, up, down, buffer, expected, busy, published, queued, late>>
  BY DEF Connect, Goto, serverVars, TypeOK
<1>2. served[h] = "none" /\ Served(h) /\ down[h] = << >> /\ busy # h
  BY <1>1 DEF Sound
<1>3. /\ (Served(h)' <=> Served(h)) /\ (ToldSoFar(h)' <=> ToldSoFar(h))
  BY <1>1 DEF Served, Request, ToldSoFar, Postponed
<1> QED BY <1>1, <1>2, <1>3 DEF Sound, InSync, Connected

(* The end of a helper leaves its streams sound. *)
LEMMA ExitSound ==
  ASSUME TypeOK, NEW h \in Helpers, Sound(h), Exit(h)
  PROVE  Sound(h)'
<1>1. /\ pc[h] \notin {"start", "exit"} /\ pc'[h] = "exit"
      /\ UNCHANGED <<count, size, told, torn, up, down, served, buffer, expected,
                     pending, busy, published, queued, late>>
  BY DEF Exit, Goto, serverVars, TypeOK
<1>2. /\ (Served(h)' <=> Served(h)) /\ (ToldSoFar(h)' <=> ToldSoFar(h))
      /\ (Connected(h)' <=> Connected(h)) /\ (Untold(h)' <=> Untold(h))
      /\ Request(h)' = Request(h)
      /\ \A rest : PushSent(h, rest)' <=> PushSent(h, rest)
  BY <1>1 DEF Served, Request, ToldSoFar, Connected, Untold, PushSent, Postponed
<1>3. ASSUME h \notin torn, Connected(h) PROVE InSync(h)'
  <2>1. pc[h] \in {"loop", "list", "fetch", "index-pack", "pack", "idx", "reply"}
    BY <1>1 DEF TypeOK, Places
  <2>2. InSync(h) /\ (pc[h] \in {"pack", "idx", "reply"} => Untold(h))
    BY <1>3 DEF Sound
  <2>3. \/ Served(h)
        \/ expected[h] = 0 /\ Request(h) \in {<<List>> \o << >>, <<Fetch>> \o << >>}
        \/ Untold(h) /\ \E rest \in Payloads : PushSent(h, rest)
    BY <2>1, <2>2 DEF InSync, Payloads
  <2> QED BY <2>3, <1>1, <1>2 DEF InSync
<1> QED BY <1>1, <1>2, <1>3 DEF Sound

(* The server's sources move bytes from one part of the stream to another. *)
LEMMA SourceSound ==
  ASSUME TypeOK, NEW h \in Helpers, Sound(h), SourceFires(h)
  PROVE  Sound(h)'
<1> USE DEF helperVars, serverVars
<1>1. CASE Accept(h)
  <2>1. /\ UNCHANGED <<pc, count, size, told, torn, up, down, buffer, expected, pending, busy, published, queued, late>>
        /\ served[h] = "backlog" /\ served'[h] = "open"
    BY <1>1 DEF Accept, TypeOK
  <2>2. /\ (Served(h)' <=> Served(h)) /\ (ToldSoFar(h)' <=> ToldSoFar(h))
        /\ Connected(h) /\ (Untold(h)' <=> Untold(h)) /\ Request(h)' = Request(h)
        /\ (PushReplied(h)' <=> PushReplied(h))
        /\ \A rest : PushSent(h, rest)' <=> PushSent(h, rest)
    BY <2>1 DEF Served, Request, ToldSoFar, Connected, Untold, PushSent, PushReplied, Postponed
  <2>3. InSync(h)' <=> InSync(h)
    BY <2>1, <2>2 DEF InSync
  <2> QED BY <2>1, <2>2, <2>3 DEF Sound, Connected
<1>2. CASE Read(h)
  <2>1. /\ UNCHANGED <<pc, count, size, told, torn, down, served, expected, pending, published, queued, late>>
        /\ served[h] = "open" /\ busy' = h
    BY <1>2 DEF Read
  <2>2. PICK n \in 1 .. Len(up[h]) :
          /\ buffer' = [buffer EXCEPT ![h] = @ \o SubSeq(up[h], 1, n)]
          /\ up' = [up EXCEPT ![h] = SubSeq(@, n + 1, Len(@))]
    BY <1>2 DEF Read
  <2>3. Request(h)' = Request(h)
    <3>1. \A s, u \in Seq(Items) : \A k \in 1 .. Len(u) :
            (s \o SubSeq(u, 1, k)) \o SubSeq(u, k + 1, Len(u)) = s \o u
      BY ReadKeeps
    <3>2. /\ buffer'[h] = buffer[h] \o SubSeq(up[h], 1, n)
          /\ up'[h] = SubSeq(up[h], n + 1, Len(up[h]))
      BY <2>2 DEF TypeOK
    <3>3. (buffer[h] \o SubSeq(up[h], 1, n)) \o SubSeq(up[h], n + 1, Len(up[h])) = buffer[h] \o up[h]
      BY <3>1, Streams
    <3> QED BY <3>2, <3>3 DEF Request
  <2>4. /\ (Served(h)' <=> Served(h)) /\ (ToldSoFar(h)' <=> ToldSoFar(h))
        /\ (Connected(h)' <=> Connected(h)) /\ (Untold(h)' <=> Untold(h))
        /\ (PushReplied(h)' <=> PushReplied(h))
        /\ \A rest : PushSent(h, rest)' <=> PushSent(h, rest)
    BY <2>1, <2>3 DEF Served, ToldSoFar, Connected, Untold, PushSent, PushReplied, Postponed
  <2>5. InSync(h)' <=> InSync(h)
    BY <2>1, <2>3, <2>4 DEF InSync
  <2>6. pc[h] # "start"
    BY <2>1 DEF Sound
  <2> QED BY <2>1, <2>4, <2>5, <2>6 DEF Sound
<1>3. CASE Cancel(h)
  <2>1. /\ UNCHANGED <<pc, count, told, torn, published, queued, late, busy>>
        /\ pc[h] = "exit" /\ busy = None
    BY <1>3 DEF Cancel
  <2>2. served'[h] = "closed"
    BY <1>3 DEF Cancel, TypeOK
  <2>3. busy' # h
    BY <2>1, BoundsAssumption
  <2> QED BY <2>1, <2>2, <2>3 DEF Sound, Connected, ToldSoFar, Postponed
<1> QED BY <1>1, <1>2, <1>3 DEF SourceFires

(* The first item of a stream is the first item of the buffer, and what is *)
(* left when it is taken is the rest of the stream.                        *)
LEMMA FirstOfRequest ==
  ASSUME TypeOK, NEW h \in Helpers, buffer[h] # << >>,
         NEW x \in Items, NEW rest \in Seq(Items), Request(h) = <<x>> \o rest
  PROVE  /\ Head(buffer[h]) = x
         /\ SubSeq(buffer[h], 2, Len(buffer[h])) \o up[h] = rest
<1> DEFINE s == buffer[h]
           u == up[h]
           t == SubSeq(s, 2, Len(s))
           l == t \o u
           whole == s \o u
<1>0. s \in Seq(Items) /\ u \in Seq(Items) /\ s # << >> /\ s \o u = <<x>> \o rest
  BY Streams DEF Request
<1> HIDE DEF s, u
<1>1. Len(s) \in Nat \ {0} /\ Len(u) \in Nat /\ Len(rest) \in Nat
  BY <1>0
<1>a. t \in Seq(Items) /\ Len(t) = Len(s) - 1 /\ \A i \in 1 .. Len(s) - 1 : t[i] = s[i + 1]
  BY <1>0, <1>1
<1> HIDE DEF t
<1>b. \A i \in 1 .. Len(s) - 1 + Len(u) :
         l[i] = IF i <= Len(s) - 1 THEN t[i] ELSE u[i - (Len(s) - 1)]
  BY <1>0, <1>a, ConcatProperties
<1>c. Len(whole) = Len(s) + Len(u)
      /\ \A i \in 1 .. Len(s) + Len(u) : whole[i] = IF i <= Len(s) THEN s[i] ELSE u[i - Len(s)]
  BY <1>0, ConcatProperties
<1>4. l \in Seq(Items) /\ Len(l) = Len(s) + Len(u) - 1
  <2>1. l \in Seq(Items) /\ Len(l) = Len(t) + Len(u)
    BY <1>0, <1>a, ConcatProperties
  <2> QED BY <2>1, <1>1, <1>a
<1> HIDE DEF l, whole
<1>2. Len(whole) = Len(s) + Len(u) /\ whole[1] = s[1]
      /\ \A i \in 2 .. Len(whole) : whole[i] = l[i - 1]
  <2>1. ASSUME NEW i \in 2 .. Len(whole) PROVE whole[i] = l[i - 1]
    <3>1. i \in 1 .. Len(s) + Len(u) /\ i - 1 \in 1 .. Len(s) - 1 + Len(u) /\ i \in Nat
          /\ (i <= Len(s) <=> i - 1 <= Len(s) - 1) /\ i - 1 - (Len(s) - 1) = i - Len(s)
      BY <1>1, <1>c
    <3>2. CASE i <= Len(s)
      <4>1. i - 1 \in 1 .. Len(s) - 1 /\ i - 1 + 1 = i
        BY <3>1, <3>2, <1>1
      <4>2. whole[i] = s[i] /\ l[i - 1] = t[i - 1] /\ t[i - 1] = s[i - 1 + 1]
        BY <3>1, <3>2, <4>1, <1>a, <1>b, <1>c
      <4> QED BY <4>1, <4>2
    <3>3. CASE ~(i <= Len(s))
      <4>1. whole[i] = u[i - Len(s)] /\ l[i - 1] = u[i - 1 - (Len(s) - 1)]
        BY <3>1, <3>3, <1>b, <1>c
      <4> QED BY <3>1, <4>1
    <3> QED BY <3>2, <3>3
  <2> QED BY <2>1, <1>1, <1>c
<1>3. Len(whole) = 1 + Len(rest) /\ whole[1] = x
      /\ \A i \in 2 .. Len(whole) : whole[i] = rest[i - 1]
  BY <1>0, <1>1 DEF whole
<1>5. Len(l) = Len(rest)
  BY <1>1, <1>2, <1>3, <1>4
<1>6. ASSUME NEW i \in 1 .. Len(l) PROVE l[i] = rest[i]
  <2>1. i + 1 \in 2 .. Len(whole)
    BY <1>1, <1>3, <1>5
  <2>2. whole[i + 1] = l[i + 1 - 1] /\ whole[i + 1] = rest[i + 1 - 1]
    BY <2>1, <1>2, <1>3
  <2>3. i + 1 - 1 = i
    BY <1>4, <1>1
  <2> QED BY <2>2, <2>3
<1>7. l = rest
  BY <1>4, <1>5, <1>6, SeqEqual
<1>8. Head(s) = x
  BY <1>0, <1>2, <1>3
<1> QED BY <1>7, <1>8 DEF l, t, s, u

(* A payload is a stream. *)
LEMMA PayloadsTyped == Payloads \subseteq Seq(Items)
<1>1. PackBytes \in Items /\ IdxBytes \in Items
  BY ItemsWritten
<1> QED BY <1>1 DEF Payloads

(* The line the server takes is the command its helper is in.              *)
LEMMA LineTaken ==
  ASSUME TypeOK, NEW h \in Helpers, InSync(h), pc[h] # "start", NEW kind, Line(h, kind)
  PROVE  /\ pc[h] \in {"list", "fetch", "pack", "idx", "reply", "exit"}
         /\ expected[h] = 0
         /\ \/ /\ kind = "LIST" /\ pc[h] \in {"list", "exit"}
               /\ Request(h) = <<List>> \o << >>
            \/ /\ kind = "FETCH_SHA" /\ pc[h] \in {"fetch", "exit"}
               /\ Request(h) = <<Fetch>> \o << >>
            \/ /\ kind = "PUSH" /\ pc[h] \in {"pack", "idx", "reply", "exit"}
               /\ Head(buffer[h]) = Push(count[h])
               /\ <<h, count[h]>> \notin published \union Postponed
               /\ pc[h] = "exit" => Untold(h)
               /\ \E rest \in Payloads :
                    /\ Request(h) = <<Push(count[h])>> \o rest
                    /\ pc[h] = "pack" => rest = << >>
                    /\ pc[h] = "idx" => rest = <<PackBytes>>
                    /\ pc[h] = "reply" => rest = <<PackBytes>> \o <<IdxBytes>>
         /\ pc[h] # "exit" => down[h] = << >>
<1>1. buffer[h] # << >> /\ Head(buffer[h])[1] = kind /\ expected[h] = 0
  BY DEF Line
<1>2. Request(h) # << >> /\ ~Served(h)
  BY <1>1, Streams DEF Served
<1>3. pc[h] \in {"list", "fetch", "pack", "idx", "reply", "exit"}
  <2>1. pc[h] # "loop" /\ pc[h] # "index-pack"
    BY <1>2 DEF InSync
  <2> QED BY <2>1 DEF TypeOK, Places
<1>4. ASSUME NEW x \in Items, NEW rest \in Seq(Items), Request(h) = <<x>> \o rest
      PROVE  kind = x[1] /\ Head(buffer[h]) = x
  BY <1>1, <1>4, FirstOfRequest
<1>5. << >> \in Seq(Items) /\ List \in Items /\ Fetch \in Items
      /\ Push(count[h]) \in Items
  BY ItemsWritten, Streams
<1>6. ASSUME pc[h] \in {"list", "fetch", "pack", "idx", "reply"} PROVE down[h] = << >>
  BY <1>2, <1>6 DEF InSync
<1>7. /\ Request(h) = <<List>> \o << >> => kind = "LIST"
      /\ Request(h) = <<Fetch>> \o << >> => kind = "FETCH_SHA"
      /\ \A rest \in Payloads : Request(h) = <<Push(count[h])>> \o rest =>
           kind = "PUSH" /\ Head(buffer[h]) = Push(count[h])
  BY <1>4, <1>5, PayloadsTyped DEF List, Fetch, Push
<1>8. /\ << >> \in Payloads /\ <<PackBytes>> \in Payloads
      /\ <<PackBytes>> \o <<IdxBytes>> \in Payloads
  BY DEF Payloads
<1>9. \A rest : PushSent(h, rest) =>
        /\ Request(h) = <<Push(count[h])>> \o rest
        /\ <<h, count[h]>> \notin published \union Postponed
  BY <1>1 DEF PushSent
<1>10. CASE pc[h] = "list"
  BY <1>1, <1>2, <1>7, <1>10 DEF InSync
<1>11. CASE pc[h] = "fetch"
  BY <1>1, <1>2, <1>7, <1>11 DEF InSync
<1>12. CASE pc[h] \in {"pack", "idx", "reply"}
  BY <1>1, <1>2, <1>6, <1>7, <1>8, <1>9, <1>12 DEF InSync
<1>13. CASE pc[h] = "exit"
  <2>1. \/ Request(h) \in {<<List>> \o << >>, <<Fetch>> \o << >>}
        \/ Untold(h) /\ \E rest \in Payloads : PushSent(h, rest)
    BY <1>2, <1>13 DEF InSync
  <2> QED BY <2>1, <1>1, <1>7, <1>9, <1>13
<1> QED BY <1>3, <1>6, <1>10, <1>11, <1>12, <1>13

(* A payload is complete only when its helper has written both parts.      *)
LEMMA PayloadComplete ==
  ASSUME TypeOK, NEW h \in Helpers, InSync(h), pc[h] # "start",
         expected[h] > 0, Len(buffer[h]) >= expected[h]
  PROVE  /\ pc[h] \in {"reply", "exit"} /\ expected[h] = 2
         /\ pending[h] = count[h] /\ Len(buffer[h]) = 2 /\ up[h] = << >>
         /\ pc[h] = "exit" => Untold(h)
         /\ pc[h] = "reply" => down[h] = << >>
<1>1. expected[h] = 2 /\ Len(buffer[h]) >= 2 /\ ~Served(h)
  BY DEF TypeOK, Served
<1>2. Len(Request(h)) = Len(buffer[h]) + Len(up[h]) /\ Len(buffer[h]) \in Nat /\ Len(up[h]) \in Nat
  BY Streams DEF Request
<1>3. ASSUME NEW rest \in Payloads
      PROVE  Len(rest) <= 2 /\ (Len(rest) = 2 => rest = <<PackBytes>> \o <<IdxBytes>>)
  <2>1. Len(<< >>) = 0 /\ Len(<<PackBytes>>) = 1 /\ Len(<<PackBytes>> \o <<IdxBytes>>) = 2
    OBVIOUS
  <2>2. rest \in {<< >>, <<PackBytes>>, <<PackBytes>> \o <<IdxBytes>>}
    BY DEF Payloads
  <2>3. CASE rest = << >>
    BY <2>1, <2>3
  <2>4. CASE rest = <<PackBytes>>
    BY <2>1, <2>4
  <2>5. CASE rest = <<PackBytes>> \o <<IdxBytes>>
    BY <2>1, <2>5
  <2> QED BY <2>2, <2>3, <2>4, <2>5
<1>4. ASSUME NEW rest \in Payloads, PushSent(h, rest)
      PROVE  pending[h] = count[h] /\ Len(buffer[h]) = 2 /\ Len(up[h]) = 0 /\ Len(rest) = 2
  <2>1. pending[h] = count[h] /\ Request(h) = rest
    BY <1>1, <1>4 DEF PushSent
  <2>2. Len(rest) <= 2 /\ Len(rest) = Len(buffer[h]) + Len(up[h])
    BY <2>1, <1>2, <1>3
  <2>3. Len(buffer[h]) + Len(up[h]) <= 2
    BY <2>2
  <2>4. Len(buffer[h]) = 2 /\ Len(up[h]) = 0
    <3>1. \A a, b \in Nat : a >= 2 /\ a + b <= 2 => a = 2 /\ b = 0
      OBVIOUS
    <3> QED BY <3>1, <2>3, <1>1, <1>2
  <2> QED BY <2>1, <2>2, <2>4
<1>5. up[h] = << >> <=> Len(up[h]) = 0
  BY Streams
<1>6. /\ << >> \in Payloads /\ <<PackBytes>> \in Payloads
      /\ <<PackBytes>> \o <<IdxBytes>> \in Payloads
      /\ Len(<< >>) # 2 /\ Len(<<PackBytes>>) # 2
  BY DEF Payloads
<1>7. pc[h] \notin {"loop", "list", "fetch", "index-pack"}
  BY <1>1 DEF InSync
<1>8. pc[h] \notin {"pack", "idx"}
  BY <1>4, <1>6 DEF InSync
<1>9. pc[h] \in {"reply", "exit"}
  BY <1>7, <1>8 DEF TypeOK, Places
<1>10. CASE pc[h] = "reply"
  <2>1. PushSent(h, <<PackBytes>> \o <<IdxBytes>>) /\ down[h] = << >>
    BY <1>1, <1>10 DEF InSync
  <2> QED BY <2>1, <1>1, <1>4, <1>5, <1>6, <1>9, <1>10
<1>11. CASE pc[h] = "exit"
  <2>1. Untold(h) /\ \E rest \in Payloads : PushSent(h, rest)
    BY <1>1, <1>11 DEF InSync
  <2> QED BY <2>1, <1>1, <1>4, <1>5, <1>9, <1>11
<1> QED BY <1>9, <1>10, <1>11

\* The step is the server's, and writes of h's connection only.
AtServer(h) ==
  /\ UNCHANGED <<helperVars, up>>
  /\ \A g \in Helpers \ {h} : pending'[g] = pending[g]
  /\ \A t : t[1] # h => (t \in published' <=> t \in published)
  /\ \A t : t[1] # h => (t \in Postponed' => t \in Postponed)

(* Processing h's data leaves the other helpers sound.                     *)
LEMMA ProcessOthers ==
  ASSUME TypeOK, NEW h \in Helpers, NEW n \in Nat, NEW still, NEW items,
         Process(h, n, still, items), AtServer(h),
         NEW g \in Helpers, g # h, Sound(g)
  PROVE  Sound(g)'
<1>1. CASE items # << >> /\ pc[h] = "exit"
  <2>1. AppEnds /\ down' = down
    BY <1>1 DEF Process
  <2>2. SameFor(g)
    BY <2>1 DEF SameFor, AtServer, helperVars
  <2> QED BY <2>1, <2>2, Cut
<1>2. CASE ~(items # << >> /\ pc[h] = "exit")
  <2>1. /\ buffer'[g] = buffer[g] /\ expected'[g] = expected[g] /\ down'[g] = down[g]
        /\ served' = served /\ busy' # g
    BY <1>2, BoundsAssumption DEF Process, TypeOK
  <2>2. SameFor(g)
    BY <2>1 DEF SameFor, AtServer, helperVars
  <2> QED BY <2>1, <2>2, Frame
<1> QED BY <1>1, <1>2

(* The first of the buffered lines is answered.                            *)
LEMMA AnswerSound ==
  ASSUME TypeOK, NEW h \in Helpers, Sound(h), AnswerList(h) \/ AnswerFetch(h)
  PROVE  Sound(h)'
<1>1. PICK kind \in {"LIST", "FETCH_SHA"}, items \in Seq(Items) :
        /\ Line(h, kind) /\ Answer(h, items) /\ items # << >>
        /\ kind = "LIST" => items \in {<<End>>, <<Ref>> \o <<End>>}
        /\ kind = "FETCH_SHA" =>
             \/ items = <<Error>> \o << >>
             \/ \E n \in 0 .. MaxPack : items = <<SendPack(n)>> \o Chunks(n)
  <2>1. CASE AnswerList(h)
    <3>1. PICK refs \in {<< >>, <<Ref>>} : Line(h, "LIST") /\ Answer(h, refs \o <<End>>)
      BY <2>1 DEF AnswerList
    <3>2. Ref \in Items /\ End \in Items
      BY ItemsWritten
    <3>3. << >> \o <<End>> = <<End>> /\ <<End>> \in Seq(Items) /\ <<End>> # << >>
      BY <3>2
    <3>4. <<Ref>> \o <<End>> \in Seq(Items) /\ <<Ref>> \o <<End>> # << >>
      BY <3>2
    <3> QED BY <3>1, <3>3, <3>4
  <2>2. CASE AnswerFetch(h)
    <3>1. CASE Answer(h, <<Error>>)
      <4>1. <<Error>> = <<Error>> \o << >> /\ <<Error>> \in Seq(Items) /\ <<Error>> # << >>
        <5>1. Error \in Items
          BY ItemsWritten
        <5> QED BY <5>1
      <4> QED BY <2>2, <3>1, <4>1 DEF AnswerFetch
    <3>2. ASSUME NEW n \in 0 .. MaxPack, Answer(h, <<SendPack(n)>> \o Chunks(n))
          PROVE  \E items \in Seq(Items) :
                   /\ Answer(h, items) /\ items # << >>
                   /\ items = <<SendPack(n)>> \o Chunks(n)
      <4>1. n \in Nat
        BY BoundsAssumption
      <4>2. SendPack(n) \in Items /\ Chunks(n) \in Seq(Items)
        BY <4>1, ItemsWritten
      <4>3. <<SendPack(n)>> \o Chunks(n) \in Seq(Items) /\ <<SendPack(n)>> \o Chunks(n) # << >>
        BY <4>2, RestOf
      <4> QED BY <3>2, <4>3
    <3>3. Line(h, "FETCH_SHA")
      BY <2>2 DEF AnswerFetch
    <3> QED BY <2>2, <3>1, <3>2, <3>3 DEF AnswerFetch
  <2> QED BY <2>1, <2>2
<1>2. /\ Process(h, 1, 0, items) /\ busy = h /\ served[h] = "open" /\ pc[h] # "start"
      /\ UNCHANGED <<pc, count, size, told, torn, up, pending, published, queued, late>>
  BY <1>1 DEF Answer, Line, Sound, helperVars
<1>3. CASE pc[h] = "exit"
  <2>1. AppEnds /\ down' = down
    BY <1>1, <1>2, <1>3 DEF Process
  <2>2. SameFor(h)
    BY <1>2, <2>1 DEF SameFor, Postponed
  <2> QED BY <2>1, <2>2, Cut
<1>4. CASE pc[h] # "exit"
  <2>1. /\ buffer'[h] = SubSeq(buffer[h], 2, Len(buffer[h])) /\ expected'[h] = 0
        /\ down'[h] = down[h] \o items /\ served' = served /\ Connected(h)
        /\ busy' \in {h, None}
    <3>1. 1 + 1 = 2
      OBVIOUS
    <3> QED BY <1>1, <1>2, <1>4, <3>1 DEF Process, TypeOK, Connected
  <2>2. ASSUME h \notin torn PROVE InSync(h)'
    <3>1. InSync(h)
      BY <2>1, <2>2 DEF Sound
    <3>2. /\ down[h] = << >>
          /\ \/ kind = "LIST" /\ pc[h] = "list" /\ Request(h) = <<List>> \o << >>
             \/ kind = "FETCH_SHA" /\ pc[h] = "fetch" /\ Request(h) = <<Fetch>> \o << >>
      BY <1>1, <1>2, <1>4, <3>1, LineTaken
    <3>3. down'[h] = items
      BY <2>1, <3>2, NothingLeft
    <3>4. Request(h)' = << >>
      <4>1. << >> \in Seq(Items) /\ List \in Items /\ Fetch \in Items
        BY ItemsWritten
      <4>2. buffer[h] # << >>
        BY <1>1 DEF Line
      <4>3. SubSeq(buffer[h], 2, Len(buffer[h])) \o up[h] = << >>
        BY <3>2, <4>1, <4>2, FirstOfRequest
      <4> QED BY <1>2, <2>1, <4>3 DEF Request
    <3> QED BY <1>1, <1>2, <2>1, <3>2, <3>3, <3>4 DEF InSync, Served
  <2>3. (ToldSoFar(h)' <=> ToldSoFar(h)) /\ (Untold(h)' <=> Untold(h))
    BY <1>2 DEF ToldSoFar, Untold, Postponed
  <2> QED BY <1>2, <2>1, <2>2, <2>3 DEF Sound, Connected
<1> QED BY <1>3, <1>4

(* The line of a push is taken: its payload is what is left of the stream. *)
LEMMA TakePushSound ==
  ASSUME TypeOK, NEW h \in Helpers, Sound(h), TakePush(h)
  PROVE  Sound(h)'
<1>1. /\ Process(h, 1, 2, << >>) /\ Line(h, "PUSH") /\ busy = h
      /\ served[h] = "open" /\ pc[h] # "start" /\ expected[h] = 0
      /\ UNCHANGED <<pc, count, size, told, torn, up, published, queued, late>>
      /\ pending'[h] = Head(buffer[h])[2]
  BY DEF TakePush, Line, Sound, helperVars, TypeOK
<1>2. /\ buffer'[h] = SubSeq(buffer[h], 2, Len(buffer[h])) /\ expected'[h] = 2
      /\ down'[h] = down[h] /\ served' = served /\ Connected(h) /\ busy' \in {h, None}
  <2>1. 1 + 1 = 2
    OBVIOUS
  <2>2. down[h] \o << >> = down[h]
    BY Streams, NothingLeft
  <2> QED BY <1>1, <2>1, <2>2 DEF Process, TypeOK, Connected
<1>3. (ToldSoFar(h)' <=> ToldSoFar(h)) /\ (Untold(h)' <=> Untold(h))
  BY <1>1 DEF ToldSoFar, Untold, Postponed
<1>4. ASSUME h \notin torn PROVE InSync(h)'
  <2>1. InSync(h)
    BY <1>2, <1>4 DEF Sound
  <2>2. /\ pc[h] \in {"pack", "idx", "reply", "exit"}
        /\ Head(buffer[h]) = Push(count[h])
        /\ <<h, count[h]>> \notin published \union Postponed
        /\ pc[h] = "exit" => Untold(h)
        /\ pc[h] # "exit" => down[h] = << >>
    BY <1>1, <2>1, LineTaken
  <2>3. PICK rest \in Payloads :
          /\ Request(h) = <<Push(count[h])>> \o rest
          /\ pc[h] = "pack" => rest = << >>
          /\ pc[h] = "idx" => rest = <<PackBytes>>
          /\ pc[h] = "reply" => rest = <<PackBytes>> \o <<IdxBytes>>
    BY <1>1, <2>1, LineTaken
  <2>4. SubSeq(buffer[h], 2, Len(buffer[h])) \o up[h] = rest
    <3>1. Push(count[h]) \in Items /\ rest \in Seq(Items) /\ buffer[h] # << >>
      BY <1>1, ItemsWritten, Streams, PayloadsTyped DEF Line
    <3> QED BY <3>1, <2>3, FirstOfRequest
  <2>5. PushSent(h, rest)'
    <3>1. Request(h)' = rest
      BY <1>1, <1>2, <2>4 DEF Request
    <3>2. pending'[h] = count[h]
      BY <1>1, <2>2 DEF Push
    <3>3. <<h, count'[h]>> \notin published' \union Postponed' /\ count'[h] = count[h]
      BY <1>1, <2>2 DEF Postponed
    <3> QED BY <1>2, <3>1, <3>2, <3>3 DEF PushSent
  <2> QED BY <1>1, <1>2, <1>3, <2>2, <2>3, <2>5 DEF InSync
<1> QED BY <1>1, <1>2, <1>3, <1>4 DEF Sound, Connected

(* The payload is handled: what becomes of the push is what git is told.   *)
LEMMA HandlePayloadSound ==
  ASSUME TypeOK, NEW h \in Helpers, Sound(h), HandlePayload(h)
  PROVE  Sound(h)'
<1>1. PICK o \in Outcomes :
        /\ Process(h, expected[h], 0, PushReply(o))
        /\ published' = Record(published, h, o = "published")
        /\ Postponed' = Record(Postponed, h, o = "queued")
  BY DEF HandlePayload, Record, Postponed
<1>2. /\ busy = h /\ served[h] = "open" /\ pc[h] # "start" /\ Connected(h)
      /\ expected[h] > 0 /\ Len(buffer[h]) >= expected[h]
      /\ UNCHANGED <<pc, count, size, told, torn, up, pending>>
  BY DEF HandlePayload, Sound, helperVars, Connected
<1>3. ASSUME h \notin torn
      PROVE  /\ pc[h] \in {"reply", "exit"} /\ expected[h] = 2
             /\ pending[h] = count[h] /\ Len(buffer[h]) = 2 /\ up[h] = << >>
             /\ Untold(h) /\ ToldSoFar(h)
             /\ <<h, count[h]>> \notin published \union Postponed
             /\ pc[h] = "reply" => down[h] = << >>
  <2>1. InSync(h) /\ ToldSoFar(h)
    BY <1>2, <1>3 DEF Sound
  <2>2. /\ pc[h] \in {"reply", "exit"} /\ expected[h] = 2
        /\ pending[h] = count[h] /\ Len(buffer[h]) = 2 /\ up[h] = << >>
        /\ pc[h] = "exit" => Untold(h)
        /\ pc[h] = "reply" => down[h] = << >>
    BY <1>2, <2>1, PayloadComplete
  <2>3. Untold(h)
    BY <1>3, <2>2 DEF Sound
  <2>4. <<h, count[h]>> \notin published \union Postponed
    BY <2>1, <2>2 DEF InSync, PushSent, Served
  <2> QED BY <2>1, <2>2, <2>3, <2>4
<1>4. ASSUME h \notin torn PROVE ToldSoFar(h)'
  <2>1. ToldSoFar(h) /\ Untold(h)
    BY <1>3, <1>4
  <2>2. ASSUME NEW n \in Nat, <<h, n>> \in published' \union Postponed'
        PROVE  n <= count[h]
    <3>1. CASE n = count[h]
      BY <3>1
    <3>2. CASE n # count[h]
      <4>1. <<h, n>> \in published \union Postponed
        BY <1>1, <1>3, <1>4, <2>2, <3>2 DEF Record
      <4> QED BY <2>1, <4>1 DEF ToldSoFar
    <3> QED BY <3>1, <3>2
  <2>3. ASSUME NEW t \in told, t[1] = h
        PROVE  /\ t[2] <= count[h] /\ (t[3] = "ok" <=> <<h, t[2]>> \in published')
               /\ t[3] = "ok" => <<h, t[2]>> \notin Postponed'
    <3>1. t[2] # count[h]
      BY <2>1, <2>3 DEF Untold
    <3>2. /\ <<h, t[2]>> \in published' <=> <<h, t[2]>> \in published
          /\ <<h, t[2]>> \in Postponed' <=> <<h, t[2]>> \in Postponed
      BY <1>1, <1>3, <1>4, <3>1 DEF Record
    <3> QED BY <2>1, <2>3, <3>2 DEF ToldSoFar
  <2> QED BY <1>2, <2>2, <2>3 DEF ToldSoFar
<1>5. CASE PushReply(o) # << >> /\ pc[h] = "exit"
  <2>1. AppEnds
    BY <1>1, <1>5 DEF Process
  <2>2. served'[h] = "closed" /\ busy' = None
    BY <1>2, <2>1 DEF AppEnds
  <2>3. ~Connected(h)' /\ busy' # h
    BY <2>2, BoundsAssumption DEF Connected
  <2> QED BY <1>2, <1>4, <1>5, <2>3 DEF Sound
<1>6. CASE ~(PushReply(o) # << >> /\ pc[h] = "exit")
  <2>1. /\ buffer'[h] = SubSeq(buffer[h], expected[h] + 1, Len(buffer[h]))
        /\ expected'[h] = 0 /\ down'[h] = down[h] \o PushReply(o)
        /\ served' = served /\ busy' = None
    BY <1>1, <1>2, <1>6 DEF Process, TypeOK
  <2>2. busy' # h
    BY <2>1, BoundsAssumption
  <2>3. ASSUME h \notin torn PROVE Served(h)'
    <3>1. SubSeq(buffer[h], Len(buffer[h]) + 1, Len(buffer[h])) = << >>
      BY Streams, NothingLeft
    <3>2. buffer'[h] = << >> /\ up'[h] = << >>
      BY <1>2, <1>3, <2>1, <2>3, <3>1
    <3>3. << >> \o << >> = << >>
      OBVIOUS
    <3> QED BY <2>1, <3>2, <3>3 DEF Served, Request
  <2>4. ASSUME h \notin torn, pc[h] = "reply" PROVE PushReplied(h)' \/ down'[h] = << >>
    <3>1. down'[h] = PushReply(o)
      <4>1. PushReply(o) \in Seq(Items)
        BY ItemsWritten
      <4>2. down[h] = << >>
        BY <1>3, <2>4
      <4> QED BY <2>1, <4>1, <4>2, NothingLeft
    <3>2. /\ <<h, count[h]>> \in published' <=> o = "published" \/ <<h, count[h]>> \in published
          /\ <<h, count[h]>> \in Postponed' <=> o = "queued" \/ <<h, count[h]>> \in Postponed
      BY <1>1, <1>3, <2>4 DEF Record
    <3>3. <<h, count[h]>> \notin published \union Postponed
      BY <1>3, <2>4
    <3> QED BY <1>2, <3>1, <3>2, <3>3 DEF PushReplied, PushReply, Outcomes
  <2>5. ASSUME h \notin torn PROVE InSync(h)'
    BY <1>2, <1>3, <2>3, <2>4, <2>5 DEF InSync
  <2>6. Connected(h)'
    BY <1>2, <2>1 DEF Connected
  <2>7. pc' = pc /\ torn' = torn /\ busy' # h
    BY <1>2, <2>2
  <2>8. ASSUME h \notin torn PROVE pc[h] \notin {"pack", "idx"}
    BY <1>3, <2>8
  <2>9. ASSUME h \notin torn, pc[h] = "reply" PROVE Untold(h)'
    BY <1>2, <1>3, <2>9 DEF Untold
  <2> QED BY <1>2, <1>4, <2>5, <2>6, <2>7, <2>8, <2>9 DEF Sound
<1> QED BY <1>5, <1>6

(* A step of one helper, or of its sources, leaves the others sound.       *)
LEMMA OthersSound ==
  ASSUME TypeOK, NEW h \in Helpers, NEW g \in Helpers, g # h, Sound(g),
         GitStep(h) \/ HelperStep(h) \/ Exit(h) \/ SourceFires(h)
  PROVE  Sound(g)'
<1> USE DEF TypeOK, helperVars, serverVars, Goto
<1>1. ASSUME SameFor(g), served'[g] = served[g], buffer'[g] = buffer[g],
             expected'[g] = expected[g], busy' = g => busy = g
      PROVE  Sound(g)'
  BY <1>1, Frame
<1>2. CASE GitStep(h)
  <2>1. ASSUME NEW c, NEW where, Begin(h, c, where) PROVE Sound(g)'
    BY <2>1, <1>1 DEF Begin, Write, SameFor, Postponed
  <2>2. CASE Nothing(h)
    BY <2>2, <1>1 DEF Nothing, SameFor, Postponed
  <2> QED BY <1>2, <2>1, <2>2 DEF GitStep, AskList, AskFetch, AskPush
<1>3. CASE HelperStep(h)
  <2>1. CASE Connect(h)
    BY <2>1, <1>1 DEF Connect, SameFor, Postponed
  <2>2. ASSUME NEW from, NEW item, NEW where, Payload(h, from, item, where) PROVE Sound(g)'
    BY <2>2, <1>1 DEF Payload, Write, SameFor, Postponed
  <2>3. CASE ReadRefs(h)
    BY <2>3, <1>1 DEF ReadRefs, Consume, SameFor, Postponed
  <2>4. CASE ReadHeader(h)
    BY <2>4, <1>1 DEF ReadHeader, Consume, SameFor, Postponed
  <2>5. CASE CopyPack(h)
    BY <2>5, <1>1 DEF CopyPack, Consume, SameFor, Postponed
  <2>6. CASE PackCopied(h)
    BY <2>6, <1>1 DEF PackCopied, SameFor, Postponed
  <2>7. CASE PackUnread(h) \/ PackBreaks(h)
    BY <2>7, <1>1 DEF PackUnread, PackBreaks, Consume, SameFor, Postponed
  <2>8. CASE ReadReply(h)
    BY <2>8, <1>1 DEF ReadReply, Consume, SameFor, Postponed
  <2>9. CASE ReadFails(h)
    BY <2>9, <1>1 DEF ReadFails, SameFor, Postponed
  <2> QED BY <1>3, <2>1, <2>2, <2>3, <2>4, <2>5, <2>6, <2>7, <2>8, <2>9
        DEF HelperStep, WritePack, WriteIdx
<1>4. CASE Exit(h)
  BY <1>4, <1>1 DEF Exit, SameFor, Postponed
<1>5. CASE SourceFires(h)
  <2>1. CASE Accept(h)
    BY <2>1, <1>1 DEF Accept, SameFor, Postponed
  <2>2. CASE Read(h)
    BY <2>2, <1>1 DEF Read, SameFor, Postponed
  <2>3. CASE Cancel(h)
    BY <2>3, <1>1 DEF Cancel, SameFor, Postponed
  <2> QED BY <1>5, <2>1, <2>2, <2>3 DEF SourceFires
<1> QED BY <1>2, <1>3, <1>4, <1>5

(* So does a step of the server.                                           *)
LEMMA ServerOthersSound ==
  ASSUME TypeOK, NEW h \in Helpers, NEW g \in Helpers, g # h, Sound(g),
         AnswerList(h) \/ AnswerFetch(h) \/ TakePush(h) \/ HandlePayload(h)
  PROVE  Sound(g)'
<1>1. ASSUME NEW items, Answer(h, items) PROVE Sound(g)'
  <2>1. AtServer(h) /\ Process(h, 1, 0, items)
    BY <1>1 DEF Answer, AtServer, Postponed
  <2> QED BY <2>1, ProcessOthers
<1>2. CASE TakePush(h)
  <2>1. AtServer(h) /\ Process(h, 1, 2, << >>)
    BY <1>2 DEF TakePush, AtServer, TypeOK, Postponed
  <2> QED BY <2>1, ProcessOthers
<1>3. CASE HandlePayload(h)
  <2>1. PICK o \in Outcomes :
          /\ Process(h, expected[h], 0, PushReply(o))
          /\ published' = Record(published, h, o = "published")
          /\ Postponed' = Record(Postponed, h, o = "queued")
    BY <1>3 DEF HandlePayload, Record, Postponed
  <2>2. AtServer(h)
    <3>1. UNCHANGED <<helperVars, up, pending>>
      BY <1>3 DEF HandlePayload
    <3>2. \A t : t[1] # h => /\ t \in published' <=> t \in published
                             /\ t \in Postponed' => t \in Postponed
      BY <2>1 DEF Record
    <3> QED BY <3>1, <3>2 DEF AtServer
  <2>3. expected[h] \in Nat
    <3>1. expected[h] \in {0, 2}
      BY DEF TypeOK
    <3> QED BY <3>1
  <2> QED BY <2>1, <2>2, <2>3, ProcessOthers
<1> QED BY <1>1, <1>2, <1>3 DEF AnswerList, AnswerFetch

(* Every step keeps every helper sound.                                    *)
LEMMA SoundStep ==
  ASSUME IInv, [Next]_vars, NEW g \in Helpers
  PROVE  Sound(g)'
<1>1. TypeOK /\ Sound(g)
  BY DEF IInv
<1>2. ASSUME NEW h \in Helpers,
             GitStep(h) \/ HelperStep(h) \/ Exit(h) \/ SourceFires(h)
      PROVE  Sound(g)'
  <2>1. CASE g = h
    BY <1>1, <1>2, <2>1, BeginSound, PayloadSound, ReadSound, ConnectSound, ExitSound,
       SourceSound DEF HelperStep
  <2>2. CASE g # h
    BY <1>1, <1>2, <2>2, OthersSound
  <2> QED BY <2>1, <2>2
<1>3. ASSUME SameFor(g), UNCHANGED <<served, buffer, expected>>, busy' \in {busy, None}
      PROVE  Sound(g)'
  <2>1. busy' = g => busy = g
    BY <1>3, BoundsAssumption
  <2> QED BY <1>1, <1>3, <2>1, Frame
<1>4. ASSUME NEW h \in Helpers, ServerStep(h) PROVE Sound(g)'
  <2>1. CASE Wait(h)
    BY <1>3, <2>1 DEF Wait, SameFor, helperVars, Postponed
  <2>2. CASE AnswerList(h) \/ AnswerFetch(h) \/ TakePush(h) \/ HandlePayload(h)
    <3>1. CASE g = h
      BY <1>1, <2>2, <3>1, AnswerSound, TakePushSound, HandlePayloadSound
    <3>2. CASE g # h
      BY <1>1, <2>2, <3>2, ServerOthersSound
    <3> QED BY <3>1, <3>2
  <2> QED BY <1>4, <2>1, <2>2 DEF ServerStep
<1>5. CASE Quit
  <2>1. AppEnds /\ SameFor(g)
    BY <1>5 DEF Quit, SameFor, helperVars, Postponed
  <2> QED BY <1>1, <2>1, Cut
<1>6. CASE Start
  BY <1>3, <1>6 DEF Start, SameFor, Postponed, helperVars, serverVars
<1>7. CASE ProcessPublishQueue
  <2>1. Postponed' = Postponed
    BY <1>7 DEF ProcessPublishQueue, Postponed
  <2> QED BY <1>3, <1>7, <2>1 DEF ProcessPublishQueue, SameFor, helperVars
<1>8. CASE UNCHANGED vars
  BY <1>3, <1>8 DEF vars, SameFor, Postponed, helperVars, serverVars
<1> QED BY <1>2, <1>4, <1>5, <1>6, <1>7, <1>8 DEF Next
----
(* The invariant holds before any helper runs. *)
LEMMA InitInv == Init => IInv
<1> SUFFICES ASSUME Init PROVE IInv
  OBVIOUS
<1>1. << >> \in Seq(Items) /\ << >> \o << >> = << >>
  OBVIOUS
<1>2. TypeOK
  BY <1>1 DEF Init, TypeOK, Places
<1>3. ASSUME NEW h \in Helpers PROVE Sound(h)
  <2>1. /\ pc[h] = "start" /\ served[h] = "none" /\ Served(h) /\ down[h] = << >>
        /\ busy = None /\ ~Connected(h) /\ busy # h
    BY <1>1, BoundsAssumption DEF Init, Served, Request, Connected
  <2>2. ToldSoFar(h)
    BY DEF Init, ToldSoFar, Postponed
  <2> QED BY <2>1, <2>2 DEF Sound
<1> QED BY <1>2, <1>3 DEF IInv

(* Every variable keeps its type, through every interleaving of the        *)
(* helpers, git, the server's sources and the end of either process.       *)
THEOREM TypeCorrect == Spec => []TypeOK
<1>1. Init => TypeOK
  BY InitInv DEF IInv
<1>2. TypeOK /\ [Next]_vars => TypeOK'
  BY TypeStep
<1> QED BY <1>1, <1>2, PTL DEF Spec

(* What a helper and the server hold of a command, wherever either stands. *)
THEOREM Invariance == Spec => []IInv
<1>1. IInv /\ [Next]_vars => IInv'
  <2>1. IInv /\ [Next]_vars => TypeOK'
    BY TypeStep DEF IInv
  <2>2. IInv /\ [Next]_vars => \A h \in Helpers : Sound(h)'
    BY SoundStep
  <2> QED BY <2>1, <2>2 DEF IInv
<1> QED BY <1>1, InitInv, PTL DEF Spec

(* The two ends agree where a command begins: between commands, nothing of *)
(* the last one is left in the socket or in the server's buffer            *)
(* (SSBGitRemoteCore.c:415, SRGitRemoteHelperServer.m:155).                *)
THEOREM StaysInStep == Spec => []InStep
<1>1. IInv => InStep
  <2> SUFFICES ASSUME IInv, NEW h \in Helpers \ torn, pc[h] = "loop", Connected(h)
               PROVE  up[h] = << >> /\ down[h] = << >> /\ buffer[h] = << >> /\ expected[h] = 0
    BY DEF InStep
  <2>1. Served(h) /\ down[h] = << >>
    BY DEF IInv, Sound, InSync
  <2> QED BY <2>1, Streams DEF Served, IInv
<1> QED BY <1>1, Invariance, PTL

(* git is told "ok" of exactly the pushes that were published when the     *)
(* server answered, and the queue publishes none of them a second time;    *)
(* "error" of the others, of which the queue may publish one later         *)
(* (SSBGitRemoteCore.c:405-412, SRGitRemoteHelperServer.m:246-287,         *)
(* SSBRoomClient.m:1516-1549).                                             *)
THEOREM ToldIsTrue == Spec => []ToldTruth
<1>1. IInv => ToldTruth
  <2> SUFFICES ASSUME IInv, NEW t \in told, t[1] \notin torn
               PROVE  /\ t[3] = "ok" <=> <<t[1], t[2]>> \in published
                      /\ t[3] = "ok" => <<t[1], t[2]>> \notin Postponed
    BY DEF ToldTruth, Postponed
  <2>1. t[1] \in Helpers
    BY DEF IInv, TypeOK
  <2> QED BY <2>1 DEF IInv, Sound, ToldSoFar
<1> QED BY <1>1, Invariance, PTL
====
