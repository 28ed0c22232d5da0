---- MODULE GitRemote ----
(***************************************************************************)
(* git-remote-ssb: the helper processes git starts (SSBGitRemoteCore.c)    *)
(* and the server in the app they talk to over a Unix socket               *)
(* (SRGitRemoteHelperServer.m, all of it on the main queue).  A helper     *)
(* sends one command at a time and reads its reply; the payload of a push  *)
(* follows its line in the same stream.                                    *)
(*                                                                         *)
(* A line or a run of bytes that is written at once is one item of a       *)
(* stream.  What git and its subprocesses do is chosen freely.             *)
(***************************************************************************)
EXTENDS Naturals, Sequences

CONSTANTS
  Helpers,          \* processes, each with one connection
  None,
  MaxCommands,      \* bound: the commands git gives each helper
  MaxPack           \* bound: the writes in which a pack arrives

ASSUME BoundsAssumption ==
  /\ MaxCommands \in [Helpers -> Nat]
  /\ MaxPack \in Nat
  /\ None \notin Helpers

VARIABLES
  pc,          \* where each helper is in ssb_git_remote_run
  count,       \* commands it has begun; they number its pushes
  size,        \* writes of the pack it is reading that are still to come
  told,        \* <<helper, push, "ok" or "error">> printed for git
  torn,        \* helpers that left a pack, or the rest of one, unread
  up, down,    \* the streams of each socket, to the server and back
  app,         \* whether the app runs
  served,      \* each connection as the server holds it
  buffer, expected, pending,   \* SRGitRemoteClient
  busy,        \* the client whose processClientData: is running, or None
  published, queued, late, mute   \* pushes and what became of them: the
               \* update is published at once, waits in the room client's
               \* queue, is published from there, or met no client

helperVars == <<pc, count, size, told, torn>>
serverVars == <<buffer, expected, pending, busy, published, queued, late, mute>>
vars == <<helperVars, up, down, app, served, serverVars>>

\* A line, or the bytes of one write: what it is, and the push or the
\* size it is about.
List == <<"LIST", 0>>
Fetch == <<"FETCH_SHA", 0>>
Push(n) == <<"PUSH", n>>
PackBytes == <<"pack", 0>>
IdxBytes == <<"idx", 0>>
Ref == <<"ref", 0>>
End == <<"END", 0>>
SendPack(k) == <<"SEND_PACK", k>>
Chunk == <<"chunk", 0>>
Ok == <<"OK", 0>>
Error == <<"ERROR", 0>>

Init ==
  /\ pc = [h \in Helpers |-> "start"]
  /\ count = [h \in Helpers |-> 0]
  /\ size = [h \in Helpers |-> 0]
  /\ told = {} /\ torn = {}
  /\ up = [h \in Helpers |-> << >>] /\ down = [h \in Helpers |-> << >>]
  /\ app = "up"
  /\ served = [h \in Helpers |-> "none"]
  /\ buffer = [h \in Helpers |-> << >>]
  /\ expected = [h \in Helpers |-> 0]
  /\ pending = [h \in Helpers |-> 0]
  /\ busy = None
  /\ published = {} /\ queued = {} /\ late = {} /\ mute = {}
----
(* A helper. *)

Goto(h, where) == pc' = [pc EXCEPT ![h] = where]
Connected(h) == served[h] \in {"backlog", "open"}
Write(h, item) == up' = [up EXCEPT ![h] = Append(@, item)]
Consume(h, n) == down' = [down EXCEPT ![h] = SubSeq(@, n + 1, Len(@))]

\* ssb_git_remote_connect_to_app: the kernel completes the connection
\* before the server accepts it.
Connect(h) ==
  /\ pc[h] = "start"
  /\ IF app = "up" THEN Goto(h, "loop") /\ served' = [served EXCEPT ![h] = "backlog"]
                   ELSE Goto(h, "exit") /\ UNCHANGED served
  /\ UNCHANGED <<count, size, told, torn, up, down, app, serverVars>>

\* The next line of standard input, and the command it becomes.  A push
\* first asks for the hash and builds a pack and its index.
Begin(h, command, where) ==
  /\ pc[h] = "loop" /\ count[h] < MaxCommands[h]
  /\ Connected(h)
  /\ Write(h, command)
  /\ Goto(h, where)
  /\ count' = [count EXCEPT ![h] = @ + 1]
  /\ UNCHANGED <<size, told, torn, down, app, served, serverVars>>

AskList(h) == Begin(h, List, "list")
AskFetch(h) == Begin(h, Fetch, "fetch")
AskPush(h) == Begin(h, Push(count[h] + 1), "pack")

\* A command that comes to nothing: the line does not parse, rev-parse or
\* pack-objects or index-pack yields nothing, or the socket refuses the
\* write.  Nothing but the empty line is printed.
Nothing(h) ==
  /\ pc[h] = "loop" /\ count[h] < MaxCommands[h]
  /\ count' = [count EXCEPT ![h] = @ + 1]
  /\ UNCHANGED <<pc, size, told, torn, up, down, app, served, serverVars>>

\* ssb_git_remote_handle_push writes the pack, then the index.
Payload(h, from, item, where) ==
  /\ pc[h] = from
  /\ IF Connected(h) THEN Write(h, item) /\ Goto(h, where)
                     ELSE Goto(h, "loop") /\ UNCHANGED up
  /\ UNCHANGED <<count, size, told, torn, down, app, served, serverVars>>

WritePack(h) == Payload(h, "pack", PackBytes, "idx")
WriteIdx(h) == Payload(h, "idx", IdxBytes, "reply")

\* Lines are read up to END; bytes that are left over count as lines.
ReadRefs(h) ==
  /\ pc[h] = "list"
  /\ \E n \in DOMAIN down[h] :
       /\ down[h][n] = End
       /\ \A i \in 1 .. n - 1 : down[h][i] # End
       /\ Consume(h, n)
  /\ Goto(h, "loop")
  /\ UNCHANGED <<count, size, told, torn, up, app, served, serverVars>>

ReadHeader(h) ==
  /\ pc[h] = "fetch" /\ down[h] # << >>
  /\ Consume(h, 1)
  /\ LET line == Head(down[h])
     IN  IF line[1] = "SEND_PACK"
         THEN Goto(h, "index-pack") /\ size' = [size EXCEPT ![h] = line[2]]
         ELSE Goto(h, "loop") /\ UNCHANGED size
  /\ UNCHANGED <<count, told, torn, up, app, served, serverVars>>

\* The loop that copies the pack to git index-pack, one read a step.
CopyPack(h) ==
  /\ pc[h] = "index-pack" /\ size[h] > 0 /\ down[h] # << >>
  /\ Consume(h, 1)
  /\ size' = [size EXCEPT ![h] = @ - 1]
  /\ UNCHANGED <<pc, count, told, torn, up, app, served, serverVars>>

PackCopied(h) ==
  /\ pc[h] = "index-pack" /\ size[h] = 0
  /\ Goto(h, "loop")
  /\ UNCHANGED <<count, size, told, torn, up, down, app, served, serverVars>>

\* The size does not parse, or pipe or fork fails: the whole pack stays
\* unread.
PackUnread(h) ==
  /\ pc[h] = "fetch" /\ down[h] # << >> /\ Head(down[h])[1] = "SEND_PACK"
  /\ Consume(h, 1)
  /\ Goto(h, "loop")
  /\ torn' = torn \union {h}
  /\ UNCHANGED <<count, size, told, up, app, served, serverVars>>

\* git index-pack is gone: the write fails where SIGPIPE is ignored (else
\* the helper dies, which is Exit), and the rest of the pack stays
\* unread.
PackBreaks(h) ==
  /\ pc[h] = "index-pack" /\ size[h] > 0 /\ down[h] # << >>
  /\ Consume(h, 1)
  /\ Goto(h, "loop")
  /\ torn' = torn \union {h}
  /\ size' = [size EXCEPT ![h] = 0]
  /\ UNCHANGED <<count, told, up, app, served, serverVars>>

\* Mutant: takes any reply for success.
ReadReplyGullible(h) ==
  /\ pc[h] = "reply" /\ down[h] # << >>
  /\ Consume(h, 1)
  /\ told' = told \union {<<h, count[h], "ok">>}
  /\ Goto(h, "loop")
  /\ UNCHANGED <<count, size, torn, up, app, served, serverVars>>

ReadReply(h) ==
  /\ pc[h] = "reply" /\ down[h] # << >>
  /\ Consume(h, 1)
  /\ told' = told \union {<<h, count[h], IF Head(down[h]) = Ok THEN "ok" ELSE "error">>}
  /\ Goto(h, "loop")
  /\ UNCHANGED <<count, size, torn, up, app, served, serverVars>>

\* The server is gone and what it wrote is read: every read returns 0.
ReadFails(h) ==
  /\ pc[h] \in {"list", "fetch", "index-pack", "reply"}
  /\ served[h] = "closed"
  /\ pc[h] = "list" \/ down[h] = << >>
  /\ pc[h] = "list" => \A i \in DOMAIN down[h] : down[h][i] # End
  /\ down' = [down EXCEPT ![h] = << >>]
  /\ Goto(h, "loop")
  /\ size' = [size EXCEPT ![h] = 0]
  /\ UNCHANGED <<count, told, torn, up, app, served, serverVars>>

\* Standard input ends, or a signal (the user's, or SIGPIPE) ends the
\* process.  The kernel closes its socket.
Exit(h) ==
  /\ pc[h] \notin {"start", "exit"}
  /\ Goto(h, "exit")
  /\ UNCHANGED <<count, size, told, torn, up, down, app, served, serverVars>>
----
(* The app. *)

\* The process ends: its sockets close, its clients are gone.
AppEnds ==
  /\ app' = "down"
  /\ served' = [h \in Helpers |-> IF Connected(h) THEN "closed" ELSE served[h]]
  /\ buffer' = [h \in Helpers |-> << >>]
  /\ expected' = [h \in Helpers |-> 0]
  /\ busy' = None

Quit ==
  /\ app = "up"
  /\ AppEnds
  /\ UNCHANGED <<helperVars, up, down, pending, published, queued, late, mute>>

\* start: binds the socket anew.  The queue of the process before lived in
\* its memory.
Start ==
  /\ app = "down" /\ app' = "up"
  /\ queued' = {}
  /\ UNCHANGED <<helperVars, up, down, served, buffer, expected, pending, busy,
                 published, late, mute>>

\* processPublishQueue, once the feed is synced: what was queued is
\* published, and what fails stays in the queue.
ProcessPublishQueue ==
  /\ app = "up"
  /\ \E flushed \in SUBSET queued \ {{}} :
       queued' = queued \ flushed /\ late' = late \union flushed
  /\ UNCHANGED <<helperVars, up, down, app, served, buffer, expected, pending, busy,
                 published, mute>>

\* The listening source's handler and handleClient:.
Accept(h) ==
  /\ busy = None /\ served[h] = "backlog"
  /\ served' = [served EXCEPT ![h] = "open"]
  /\ UNCHANGED <<helperVars, up, down, app, serverVars>>

\* The read source's handler, up to processClientData:.
Read(h) ==
  /\ busy = None /\ served[h] = "open"
  /\ \E n \in 1 .. Len(up[h]) :
       /\ buffer' = [buffer EXCEPT ![h] = @ \o SubSeq(up[h], 1, n)]
       /\ up' = [up EXCEPT ![h] = SubSeq(@, n + 1, Len(@))]
  /\ busy' = h
  /\ UNCHANGED <<helperVars, down, app, served, expected, pending, published, queued, late, mute>>

\* read returns 0; the cancel handler closes the socket.
Cancel(h) ==
  /\ busy = None /\ served[h] = "open"
  /\ pc[h] = "exit" /\ up[h] = << >>
  /\ served' = [served EXCEPT ![h] = "closed"]
  /\ UNCHANGED <<helperVars, up, down, app, serverVars>>

\* One step of processClientData: n items of the buffer are taken, still
\* items of payload remain expected, and the client gets items.  A write
\* to one that has gone raises SIGPIPE, which nothing in the app ignores.
Process(h, n, still, items) ==
  IF items # << >> /\ pc[h] = "exit"
  THEN AppEnds /\ UNCHANGED down
  ELSE /\ buffer' = [buffer EXCEPT ![h] = SubSeq(@, n + 1, Len(@))]
       /\ expected' = [expected EXCEPT ![h] = still]
       /\ down' = [down EXCEPT ![h] = @ \o items]
       /\ busy' = IF expected[h] > 0 THEN None ELSE h
       /\ UNCHANGED <<app, served>>

\* The next line of the buffer, taken when no payload is expected.
Line(h, kind) ==
  /\ busy = h /\ expected[h] = 0
  /\ buffer[h] # << >> /\ Head(buffer[h])[1] = kind

\* processCommand: the refs of the repository, or a pack that holds the
\* hash, or that there is none.
Answer(h, items) ==
  /\ Process(h, 1, 0, items)
  /\ UNCHANGED <<helperVars, up, pending, published, queued, late, mute>>

Chunks(n) == [i \in 1 .. n |-> Chunk]

AnswerList(h) ==
  Line(h, "LIST") /\ \E refs \in {<< >>, <<Ref>>} : Answer(h, refs \o <<End>>)

AnswerFetch(h) ==
  /\ Line(h, "FETCH_SHA")
  /\ \/ Answer(h, <<Error>>)
     \/ \E n \in 0 .. MaxPack : Answer(h, <<SendPack(n)>> \o Chunks(n))

TakePush(h) ==
  /\ Line(h, "PUSH")
  /\ pending' = [pending EXCEPT ![h] = Head(buffer[h])[2]]
  /\ Process(h, 1, 2, << >>)
  /\ UNCHANGED <<helperVars, up, published, queued, late, mute>>

\* handlePushPackData: stores the two blobs, which may fail, and publishes
\* the update through anyConnectedClient, whatever state that is in.  A
\* client whose feed is not synced queues it and returns no message.
\* Without a client the message is sent to nil, and no completion runs.
Outcomes == {"blob fails", "no client", "queued", "published", "publish fails"}

\* Mutant: a blob that cannot be stored ends the handler without a reply.
PushReplySilent(o) ==
  CASE o = "published" -> <<Ok>>
    [] o \in {"no client", "blob fails"} -> << >>
    [] OTHER -> <<Error>>

PushReply(o) ==
  CASE o = "published" -> <<Ok>>
    [] o = "no client" -> << >>
    [] OTHER -> <<Error>>

Record(pushes, h, happened) ==
  IF happened THEN pushes \union {<<h, pending[h]>>} ELSE pushes

\* Mutant: a payload that has been handled is still expected.
HandlePayloadForgetful(h) ==
  /\ busy = h /\ expected[h] > 0 /\ Len(buffer[h]) >= expected[h]
  /\ \E o \in Outcomes :
       /\ Process(h, expected[h], expected[h], PushReply(o))
       /\ published' = Record(published, h, o = "published")
       /\ queued' = Record(queued, h, o = "queued")
       /\ mute' = Record(mute, h, o = "no client")
  /\ UNCHANGED <<helperVars, up, pending, late>>

\* The payload is there.  Lines that came with it wait for the next read.
HandlePayload(h) ==
  /\ busy = h /\ expected[h] > 0 /\ Len(buffer[h]) >= expected[h]
  /\ \E o \in Outcomes :
       /\ Process(h, expected[h], 0, PushReply(o))
       /\ published' = Record(published, h, o = "published")
       /\ queued' = Record(queued, h, o = "queued")
       /\ mute' = Record(mute, h, o = "no client")
  /\ UNCHANGED <<helperVars, up, pending, late>>

\* processClientData: returns: more is to come.
Wait(h) ==
  /\ busy = h
  /\ IF expected[h] > 0 THEN Len(buffer[h]) < expected[h] ELSE buffer[h] = << >>
  /\ busy' = None
  /\ UNCHANGED <<helperVars, up, down, app, served, buffer, expected, pending,
                 published, queued, late, mute>>
----
GitStep(h) == AskList(h) \/ AskFetch(h) \/ AskPush(h) \/ Nothing(h)

HelperStep(h) ==
  \/ Connect(h) \/ WritePack(h) \/ WriteIdx(h) \/ ReadRefs(h) \/ ReadHeader(h)
  \/ CopyPack(h) \/ PackCopied(h) \/ PackUnread(h) \/ PackBreaks(h)
  \/ ReadReply(h) \/ ReadFails(h)

SourceFires(h) == Accept(h) \/ Read(h) \/ Cancel(h)

ServerStep(h) ==
  \/ AnswerList(h) \/ AnswerFetch(h) \/ TakePush(h) \/ HandlePayload(h) \/ Wait(h)

Next ==
  \/ \E h \in Helpers :
       \/ GitStep(h) \/ HelperStep(h) \/ Exit(h)
       \/ SourceFires(h) \/ ServerStep(h)
  \/ Quit \/ Start \/ ProcessPublishQueue

Spec == Init /\ [][Next]_vars

\* Each process runs; the main queue takes its sources in turn, so that one
\* that is ready again and again is served.
FairSpec ==
  /\ Spec
  /\ WF_vars(\E h \in Helpers : ServerStep(h))
  /\ \A h \in Helpers :
       /\ WF_vars(HelperStep(h))
       /\ SF_vars(SourceFires(h))
----
(* Properties. *)

Items ==
  {"LIST", "FETCH_SHA", "PUSH", "pack", "idx", "ref", "END", "SEND_PACK", "chunk",
   "OK", "ERROR"} \X Nat
Places == {"start", "loop", "list", "fetch", "index-pack", "pack", "idx", "reply", "exit"}

\* Every variable keeps its type.
TypeOK ==
  /\ pc \in [Helpers -> Places]
  /\ count \in [Helpers -> Nat]
  /\ size \in [Helpers -> Nat]
  /\ told \subseteq Helpers \X Nat \X {"ok", "error"}
  /\ torn \subseteq Helpers
  /\ up \in [Helpers -> Seq(Items)] /\ down \in [Helpers -> Seq(Items)]
  /\ app \in {"up", "down"}
  /\ served \in [Helpers -> {"none", "backlog", "open", "closed"}]
  /\ buffer \in [Helpers -> Seq(Items)]
  /\ expected \in [Helpers -> {0, 2}]
  /\ pending \in [Helpers -> Nat]
  /\ busy \in Helpers \union {None}
  /\ published \subseteq Helpers \X Nat
  /\ queued \subseteq Helpers \X Nat
  /\ late \subseteq Helpers \X Nat
  /\ mute \subseteq Helpers \X Nat

\* Between two commands nothing of the last one is left, at either end: the
\* two sides agree where the next command begins, unless the helper stopped
\* reading a pack half-way, or before it began (SSBGitRemoteCore.c:264).
InStep ==
  \A h \in Helpers \ torn :
    pc[h] = "loop" /\ Connected(h) =>
      up[h] = << >> /\ down[h] = << >> /\ buffer[h] = << >> /\ expected[h] = 0

\* What git is told of a push (SSBGitRemoteCore.c:407) is what became of it,
\* however commands, payloads, failures of either process and the room's
\* state fall together: "ok" says that it was published, and that it will
\* not be published a second time from the queue; "error" that it was not
\* published when the server answered.  That it never will be "error" does
\* not say: a queued push is answered with an error
\* (SRGitRemoteHelperServer.m:282), and the queue publishes it later.
ToldTruth ==
  \A t \in told : t[1] \notin torn =>
    LET push == <<t[1], t[2]>> IN
    /\ t[3] = "ok" <=> push \in published
    /\ t[3] = "ok" => push \notin queued \union late

Waiting(h) == pc[h] \in {"list", "fetch", "index-pack", "pack", "idx", "reply"}

\* A command comes to an end: with its reply, with the end of the
\* connection or with the process; or it is a push that found no connected
\* client, whose completion never runs (SRGitRemoteHelperServer.m:277).
CommandsEnd ==
  \A h \in Helpers :
    Waiting(h) ~> ~Waiting(h) \/ h \in torn \/ <<h, count[h]>> \in mute
====
