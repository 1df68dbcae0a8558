------------------------------- MODULE WebServer -------------------------------
(***************************************************************************)
(* The HTTP side of web_viewer (src/web_viewer.cpp): main accepts one      *)
(* connection at a time and answers it, a thread of its own streams video, *)
(* and the MQTT thread writes each event to the descriptors that main      *)
(* registered for /events.  All of them share the process's table of file  *)
(* descriptors, where the kernel hands out the lowest free number again.   *)
(***************************************************************************)
EXTENDS Integers, Sequences, FiniteSets, SequencesExt

CONSTANTS Conns,         \* the connections that browsers open
          FdLimit,       \* the descriptors the process can have open
          SocketRoom,    \* what a connection holds that its browser has not read
          None, Image    \* in the table: nothing open, an open snapshot file

ASSUME ServerAssumption ==
  /\ FdLimit \in Nat \ {0} /\ SocketRoom \in Nat \ {0}
  /\ None \notin Conns /\ Image \notin Conns /\ None # Image

Requests == {"page", "snapshot", "stream", "events"}

VARIABLES peer,           \* of each connection: the browser's end
          asked,          \* its request, "" before it was sent
          out,            \* everything written to it while its browser was there
          taken,          \* how much of that the browser has read
          backlog,        \* connections not yet accepted
          table,          \* what each descriptor refers to
          http_pc, http_fd, http_file,   \* main and the descriptors it holds
          streams,        \* descriptors held by mjpeg threads
          sse_clients,
          incoming,       \* messages the broker has sent to the MQTT thread
          mq_pc, mq_event, index         \* the MQTT thread in sse_broadcast

browserVars == <<peer, asked, out, taken>>
httpVars == <<http_pc, http_fd, http_file, streams>>
mqttVars == <<incoming, mq_pc, mq_event, index>>
serverVars == <<browserVars, backlog, table, httpVars, sse_clients, mqttVars>>

Fds == 1 .. FdLimit
\* What is written: parts of a response, and events with their payload.
Part(kind) == [kind |-> kind, id |-> 0, whole |-> TRUE]

ServerInit ==
  /\ peer = [c \in Conns |-> "absent"] /\ asked = [c \in Conns |-> ""]
  /\ out = [c \in Conns |-> <<>>] /\ taken = [c \in Conns |-> 0]
  /\ backlog = <<>> /\ table = [fd \in Fds |-> None]
  /\ http_pc = "accept" /\ http_fd = 0 /\ http_file = 0
  /\ streams = {} /\ sse_clients = <<>>
  /\ incoming = <<>> /\ mq_pc = "connect" /\ mq_event = Part("") /\ index = 0
--------------------------------------------------------------------------------
(* Browsers *)

afterBrowser == <<table, httpVars, sse_clients, mqttVars>>

Connect(c) ==
  /\ peer[c] = "absent"
  /\ peer' = [peer EXCEPT ![c] = "here"]
  /\ backlog' = Append(backlog, c)
  /\ UNCHANGED <<asked, out, taken, afterBrowser>>

\* The server has not closed its end.  What a browser does after that is
\* noticed by nobody and left out.
StillOpen(c) == c \in ToSet(backlog) \/ \E fd \in Fds : table[fd] = c

Ask(c, request) ==
  /\ peer[c] = "here" /\ StillOpen(c) /\ asked[c] = ""
  /\ asked' = [asked EXCEPT ![c] = request]
  /\ UNCHANGED <<peer, out, taken, backlog, afterBrowser>>

Unread(c) == Len(out[c]) - taken[c]

ReadPart(c) ==
  /\ peer[c] = "here" /\ StillOpen(c) /\ Unread(c) > 0
  /\ taken' = [taken EXCEPT ![c] = @ + 1]
  /\ UNCHANGED <<peer, asked, out, backlog, afterBrowser>>

\* The browser goes away, having asked or not, having read everything or not.
Leave(c) ==
  /\ peer[c] = "here" /\ StillOpen(c)
  /\ peer' = [peer EXCEPT ![c] = "left"]
  /\ UNCHANGED <<asked, out, taken, backlog, afterBrowser>>

Browser == \E c \in Conns : \/ Connect(c) \/ ReadPart(c) \/ Leave(c)
                            \/ \E request \in Requests : Ask(c, request)
--------------------------------------------------------------------------------
(* Descriptors and write_all *)

Free == {fd \in Fds : table[fd] = None}
LowestFree == CHOOSE fd \in Free : \A other \in Free : fd <= other

Opened(entry) == Free # {} /\ table' = [table EXCEPT ![LowestFree] = entry]
Closed(fds) == table' = [fd \in Fds |-> IF fd \in fds THEN None ELSE table[fd]]

\* write_all returns true.  It blocks while the connection is full; the first
\* write after the browser left may still be accepted, and provokes a reset.
Written(fd, part) ==
  /\ table[fd] \in Conns
  /\ LET c == table[fd] IN
       \/ /\ peer[c] = "here" /\ Unread(c) < SocketRoom
          /\ out' = [out EXCEPT ![c] = Append(@, part)]
          /\ UNCHANGED peer
       \/ /\ peer[c] = "left"
          /\ peer' = [peer EXCEPT ![c] = "reset"]
          /\ UNCHANGED out
  /\ UNCHANGED <<asked, taken>>

\* write_all returns false: the browser is gone, or the descriptor is no socket.
Unwritable(fd) ==
  /\ table[fd] \in Conns => peer[table[fd]] \in {"left", "reset"}
  /\ UNCHANGED browserVars
--------------------------------------------------------------------------------
(* main: accept, then handle_client to its end *)

mainOnly == <<backlog, streams, sse_clients, mqttVars>>

BackToAccept == http_pc' = "accept" /\ http_fd' = 0 /\ http_file' = 0

\* accept fails while no descriptor is free, and is tried again.
Accept ==
  /\ http_pc = "accept" /\ backlog # <<>>
  /\ Opened(Head(backlog))
  /\ http_fd' = LowestFree /\ http_pc' = "read"
  /\ backlog' = Tail(backlog)
  /\ UNCHANGED <<browserVars, http_file, streams, sse_clients, mqttVars>>

\* read blocks until the browser has sent its request or has gone.
ReadRequest ==
  /\ http_pc = "read"
  /\ asked[table[http_fd]] # ""
  /\ http_pc' = asked[table[http_fd]]
  /\ UNCHANGED <<browserVars, table, http_fd, http_file, mainOnly>>

ReadNothing ==
  /\ http_pc = "read"
  /\ asked[table[http_fd]] = "" /\ peer[table[http_fd]] # "here"
  /\ Closed({http_fd}) /\ BackToAccept
  /\ UNCHANGED <<browserVars, mainOnly>>

\* One write of a whole answer, then close, whether it was written or not.
Answer(part) ==
  /\ http_pc = part
  /\ Written(http_fd, Part(part)) \/ Unwritable(http_fd)
  /\ Closed({http_fd}) /\ BackToAccept
  /\ UNCHANGED mainOnly

ServePage == Answer("page")
SendHttpError == Answer("error")

\* A bad name, no such file, an empty one, or no descriptor left for it.
RefuseSnapshot ==
  /\ http_pc = "snapshot"
  /\ http_pc' = "error"
  /\ UNCHANGED <<browserVars, table, http_fd, http_file, mainOnly>>

OpenSnapshot ==
  /\ http_pc = "snapshot"
  /\ Opened(Image)
  /\ http_file' = LowestFree /\ http_pc' = "head"
  /\ UNCHANGED <<browserVars, http_fd, mainOnly>>

SnapshotHead ==
  /\ http_pc = "head"
  /\ Written(http_fd, Part("head"))
  /\ http_pc' = "image"
  /\ UNCHANGED <<table, http_fd, http_file, mainOnly>>

\* Mutation: this return forgets the file.
SnapshotHeadFailsLeaking ==
  /\ http_pc = "head"
  /\ Unwritable(http_fd)
  /\ Closed({http_fd}) /\ BackToAccept
  /\ UNCHANGED mainOnly

SnapshotHeadFails ==
  /\ http_pc = "head"
  /\ Unwritable(http_fd)
  /\ Closed({http_fd, http_file}) /\ BackToAccept
  /\ UNCHANGED mainOnly

\* The copy loop ends at the end of the file or at a failed write.
SnapshotImage ==
  /\ http_pc = "image"
  /\ Written(http_fd, Part("image")) \/ Unwritable(http_fd)
  /\ Closed({http_fd, http_file}) /\ BackToAccept
  /\ UNCHANGED mainOnly

\* Mutation: main serves the video itself, until the browser leaves.
SpawnStreamNot ==
  /\ http_pc = "stream"
  /\ Unwritable(http_fd)
  /\ Closed({http_fd}) /\ BackToAccept
  /\ UNCHANGED mainOnly

SpawnStream ==
  /\ http_pc = "stream"
  /\ \/ streams' = streams \cup {http_fd} /\ UNCHANGED table
     \/ Closed({http_fd}) /\ UNCHANGED streams     \* pthread_create failed
  /\ BackToAccept
  /\ UNCHANGED <<browserVars, backlog, sse_clients, mqttVars>>

EventsHead ==
  /\ http_pc = "events"
  /\ Written(http_fd, Part("head"))
  /\ http_pc' = "register"
  /\ UNCHANGED <<table, http_fd, http_file, mainOnly>>

EventsHeadFails ==
  /\ http_pc = "events"
  /\ Unwritable(http_fd)
  /\ Closed({http_fd}) /\ BackToAccept
  /\ UNCHANGED mainOnly

\* The MQTT thread holds sse_mtx from its lock to the end of its loop.
sse_mtx_held == mq_pc \in {"write", "erase"}

Register ==
  /\ http_pc = "register" /\ ~sse_mtx_held
  /\ sse_clients' = Append(sse_clients, http_fd)
  /\ BackToAccept
  /\ UNCHANGED <<browserVars, backlog, table, streams, mqttVars>>

Http ==
  \/ Accept \/ ReadRequest \/ ReadNothing \/ ServePage \/ SendHttpError
  \/ RefuseSnapshot \/ OpenSnapshot \/ SnapshotHead \/ SnapshotHeadFails
  \/ SnapshotImage \/ SpawnStream
  \/ EventsHead \/ EventsHeadFails \/ Register

\* serve_mjpeg returns when a write fails; its frames are FrameSharing's.
StreamEnds ==
  \E fd \in streams :
    /\ Unwritable(fd)
    /\ Closed({fd}) /\ streams' = streams \ {fd}
    /\ UNCHANGED <<backlog, http_pc, http_fd, http_file, sse_clients, mqttVars>>
--------------------------------------------------------------------------------
(* The MQTT thread: on_message calls sse_broadcast *)

mqttOnly == <<backlog, httpVars, incoming, mq_event>>

\* Mutation: the loop starts one past the last client.
ReceivePastTheEnd(event) ==
  /\ mq_pc = "idle" /\ incoming # <<>>
  /\ incoming' = Tail(incoming) /\ mq_event' = event
  /\ mq_pc' = "write" /\ index' = Len(sse_clients) + 1
  /\ UNCHANGED <<browserVars, backlog, table, httpVars, sse_clients>>

\* main holds sse_mtx for its push_back only, so the lock is free here.
Receive(event) ==
  /\ mq_pc = "idle" /\ incoming # <<>>
  /\ incoming' = Tail(incoming) /\ mq_event' = event
  /\ mq_pc' = "write" /\ index' = Len(sse_clients)
  /\ UNCHANGED <<browserVars, backlog, table, httpVars, sse_clients>>

WriteClient ==
  /\ mq_pc = "write" /\ index > 0
  /\ Written(sse_clients[index], mq_event)
  /\ index' = index - 1
  /\ UNCHANGED <<table, sse_clients, mq_pc, mqttOnly>>

\* Mutation: a failed write is tried again.
CloseClientNot ==
  /\ mq_pc = "write" /\ index > 0
  /\ Unwritable(sse_clients[index])
  /\ UNCHANGED <<table, sse_clients, mq_pc, index, mqttOnly>>

CloseClient ==
  /\ mq_pc = "write" /\ index > 0
  /\ Unwritable(sse_clients[index])
  /\ Closed({sse_clients[index]})
  /\ mq_pc' = "erase"
  /\ UNCHANGED <<sse_clients, index, mqttOnly>>

\* Mutations: the descriptor stays in the list; the next client is skipped.
EraseClientNot ==
  /\ mq_pc = "erase"
  /\ mq_pc' = "write" /\ index' = index - 1
  /\ UNCHANGED <<browserVars, table, sse_clients, mqttOnly>>

EraseClientAndSkip ==
  /\ mq_pc = "erase"
  /\ sse_clients' = RemoveAt(sse_clients, index)
  /\ mq_pc' = "write" /\ index' = IF index > 1 THEN index - 2 ELSE 0
  /\ UNCHANGED <<browserVars, table, mqttOnly>>

EraseClient ==
  /\ mq_pc = "erase"
  /\ sse_clients' = RemoveAt(sse_clients, index)
  /\ mq_pc' = "write" /\ index' = index - 1
  /\ UNCHANGED <<browserVars, table, mqttOnly>>

Unlock ==
  /\ mq_pc = "write" /\ index = 0
  /\ mq_pc' = "idle"
  /\ UNCHANGED <<browserVars, table, sse_clients, index, mqttOnly>>

Broadcast == WriteClient \/ CloseClient \/ EraseClient \/ Unlock
--------------------------------------------------------------------------------
(* Type invariant of the viewer. *)
ServerTypeOK ==
  /\ \A c \in Conns : /\ peer[c] \in {"absent", "here", "left", "reset"}
                      /\ asked[c] \in Requests \cup {""}
                      /\ taken[c] \in 0 .. Len(out[c])
                      /\ Unread(c) <= SocketRoom
  /\ backlog \in Seq(Conns)
  /\ table \in [Fds -> Conns \cup {None, Image}]
  /\ http_pc \in Requests \cup {"accept", "read", "error", "head", "image", "register"}
  /\ http_fd \in Fds \cup {0} /\ http_file \in Fds \cup {0}
  /\ streams \subseteq Fds /\ sse_clients \in Seq(Fds)
  /\ mq_pc \in {"connect", "idle", "write", "erase", "exited"}
  /\ index \in 0 .. Len(sse_clients)
================================================================================
