--------------------------- MODULE EventDeliveryProofs -------------------------
(***************************************************************************)
(* Proofs about EventDelivery.tla for every size of the three buffers that *)
(* meets PayloadAssumption, and any number of browsers, descriptors and    *)
(* messages: no event is cut on its way from publish_raw_detection to a    *)
(* browser, every descriptor has one owner, every browser receives the     *)
(* answer to its own request, and the whole implements EventFeed.          *)
(***************************************************************************)
EXTENDS EventDelivery, SequenceTheorems, FiniteSetTheorems,
        WellFoundedInduction, TLAPS

(* Text that fits is left as it is by snprintf. *)
LEMMA FittedWhole ==
  ASSUME NEW n \in Nat, NEW room \in Nat, n < room
  PROVE  Fitted(n, room) = n
BY DEF Fitted

(* A message formatted up to the margin reaches the viewer's buffers whole. *)
LEMMA MarginsSuffice ==
  ASSUME offset \in Nat, Margins
  PROVE  PayloadWhole
<1>1. offset < Room => Fitted(offset, Room) = offset
  BY FittedWhole, PayloadAssumption
<1>2. offset < Room => Fitted(offset, ReceiveRoom) = offset
  BY FittedWhole, PayloadAssumption
<1>3. offset + FrameLength < Room => offset < Room
  BY PayloadAssumption DEF FrameLength
<1>4. CASE raw_pc \in {"objects", "tail"}
  BY <1>4, PayloadAssumption DEF PayloadWhole, Margins, TailLength, FrameLength
<1>5. CASE raw_pc = "publish"
  BY <1>1, <1>2, <1>3, <1>5, PayloadAssumption
     DEF PayloadWhole, Margins, MessageLength, Received, FitsEvent, FrameLength
<1> QED
  BY <1>4, <1>5 DEF PayloadWhole

(* The steps of the formatter keep its margin. *)
LEMMA FormatKeepsMargins ==
  ASSUME offset \in Nat, raw_pc \in {"idle", "objects", "tail", "publish"}, Margins,
         Format
  PROVE  /\ offset' \in Nat
         /\ raw_pc' \in {"idle", "objects", "tail", "publish"}
         /\ Margins'
<1>1. CASE RawHead
  BY <1>1, PayloadAssumption DEF RawHead, Margins
<1>2. CASE RawObject
  <2>1. PICK l \in ObjectLengths : offset' = offset + l
    BY <1>2 DEF RawObject
  <2>2. l \in Nat /\ l + TailLength + FrameLength <= Margin
    BY PayloadAssumption
  <2>3. raw_pc = "objects" /\ offset < Room - Margin
    BY <1>2 DEF RawObject, Margins
  <2>4. raw_pc' = IF offset' >= Room - Margin THEN "tail" ELSE "objects"
    BY <1>2 DEF RawObject
  <2> QED
    BY <2>1, <2>2, <2>3, <2>4, PayloadAssumption DEF Margins, TailLength, FrameLength
<1>3. CASE RawTail
  <2>1. raw_pc = "tail" \/ (raw_pc = "objects" /\ offset < Room - Margin)
    BY <1>3 DEF RawTail, Margins
  <2>2. offset + TailLength + FrameLength < Room
    BY <2>1, PayloadAssumption DEF Margins, TailLength, FrameLength
  <2>3. raw_pc' = "publish" /\ offset' = offset + TailLength
    BY <1>3 DEF RawTail
  <2> QED
    BY <2>2, <2>3 DEF Margins, TailLength, FrameLength
<1> QED
  BY <1>1, <1>2, <1>3 DEF Format
--------------------------------------------------------------------------------
(* Whole parts stay whole. *)

(* A write appends at most one part to what one browser has been sent. *)
LEMMA WrittenKeeps ==
  ASSUME out \in [Conns -> Seq(WholePart)], NEW fd, NEW part \in WholePart,
         Written(fd, part) \/ Unwritable(fd)
  PROVE  out' \in [Conns -> Seq(WholePart)]
<1>1. CASE out' = out
  BY <1>1
<1>2. CASE /\ table[fd] \in Conns
           /\ out' = [out EXCEPT ![table[fd]] = Append(@, part)]
  <2>1. out[table[fd]] \in Seq(WholePart)
    BY <1>2
  <2>2. Append(out[table[fd]], part) \in Seq(WholePart)
    BY <2>1
  <2> QED
    BY <1>2, <2>2
<1> QED
  BY <1>1, <1>2 DEF Written, Unwritable, browserVars

(* main writes whole parts only, and leaves the messages alone. *)
LEMMA HttpKeepsWhole ==
  ASSUME WholeInv, HttpStep
  PROVE  WholeInv'
<1> USE DEF WholeInv
<1>1. UNCHANGED <<payloadVars, published>>
  BY DEF HttpStep
<1>2. Http
  BY DEF HttpStep
<1>3. UNCHANGED <<incoming, mq_event>> /\ out' \in [Conns -> Seq(WholePart)]
  <2>1. CASE Accept
    BY <2>1 DEF Accept, browserVars, mqttVars
  <2>2. CASE ReadRequest
    BY <2>2 DEF ReadRequest, browserVars, mainOnly, mqttVars
  <2>3. CASE ReadNothing
    BY <2>3 DEF ReadNothing, browserVars, mainOnly, mqttVars
  <2>4. ASSUME NEW part \in {"page", "error"}, Answer(part)
        PROVE  UNCHANGED <<incoming, mq_event>> /\ out' \in [Conns -> Seq(WholePart)]
    <3>1. Part(part) \in WholePart
      BY DEF Part, WholePart
    <3>2. Written(http_fd, Part(part)) \/ Unwritable(http_fd)
      BY <2>4 DEF Answer
    <3>3. out' \in [Conns -> Seq(WholePart)]
      BY <3>1, <3>2, WrittenKeeps
    <3> QED
      BY <2>4, <3>3 DEF Answer, mainOnly, mqttVars
  <2>5. CASE RefuseSnapshot
    BY <2>5 DEF RefuseSnapshot, browserVars, mainOnly, mqttVars
  <2>6. CASE OpenSnapshot
    BY <2>6 DEF OpenSnapshot, browserVars, mainOnly, mqttVars
  <2>7. CASE SnapshotHead
    <3>1. Part("head") \in WholePart
      BY DEF Part, WholePart
    <3>2. Written(http_fd, Part("head"))
      BY <2>7 DEF SnapshotHead
    <3>3. out' \in [Conns -> Seq(WholePart)]
      BY <3>1, <3>2, WrittenKeeps
    <3> QED
      BY <2>7, <3>3 DEF SnapshotHead, mainOnly, mqttVars
  <2>8. CASE SnapshotHeadFails
    BY <2>8 DEF SnapshotHeadFails, Unwritable, browserVars, mainOnly, mqttVars
  <2>9. CASE SnapshotImage
    <3>1. Part("image") \in WholePart
      BY DEF Part, WholePart
    <3>2. Written(http_fd, Part("image")) \/ Unwritable(http_fd)
      BY <2>9 DEF SnapshotImage
    <3>3. out' \in [Conns -> Seq(WholePart)]
      BY <3>1, <3>2, WrittenKeeps
    <3> QED
      BY <2>9, <3>3 DEF SnapshotImage, mainOnly, mqttVars
  <2>10. CASE SpawnStream
    BY <2>10 DEF SpawnStream, browserVars, mqttVars
  <2>11. CASE EventsHead
    <3>1. Part("head") \in WholePart
      BY DEF Part, WholePart
    <3>2. Written(http_fd, Part("head"))
      BY <2>11 DEF EventsHead
    <3>3. out' \in [Conns -> Seq(WholePart)]
      BY <3>1, <3>2, WrittenKeeps
    <3> QED
      BY <2>11, <3>3 DEF EventsHead, mainOnly, mqttVars
  <2>12. CASE EventsHeadFails
    BY <2>12 DEF EventsHeadFails, Unwritable, browserVars, mainOnly, mqttVars
  <2>13. CASE Register
    BY <2>13 DEF Register, browserVars, mqttVars
  <2> QED
    BY <1>2, <2>1, <2>2, <2>3, <2>4, <2>5, <2>6, <2>7, <2>8, <2>9, <2>10, <2>11,
       <2>12, <2>13 DEF Http, ServePage, SendHttpError
<1> QED
  BY <1>1, <1>3 DEF payloadVars, Margins

(* What publish_raw_detection hands to the broker fits the viewer's buffers. *)
LEMMA PublishKeepsWhole ==
  ASSUME WholeInv, PublishMessage
  PROVE  WholeInv'
<1> USE DEF WholeInv
<1>1. raw_pc = "publish" /\ raw_pc' = "idle" /\ offset' = 0 /\ published' = published + 1
  BY DEF PublishMessage, RawPublish
<1>2. UNCHANGED <<mq_event, out>>
  BY DEF PublishMessage, browserVars
<1>3. DEFINE message == [id |-> published', size |-> MessageLength,
                         whole |-> MessageLength = offset]
<1>4. message \in WholeMessage
  <2>1. PayloadWhole
    BY MarginsSuffice
  <2>2. MessageLength = offset
    BY <1>1, <2>1 DEF PayloadWhole
  <2>3. Received(offset) = offset /\ FitsEvent(offset)
    BY <1>1, <2>1, <2>2 DEF PayloadWhole
  <2>4. offset < ReceiveRoom
    BY <1>1, PayloadAssumption DEF Margins, FrameLength
  <2>5. message = [id |-> published', size |-> offset, whole |-> TRUE]
    BY <2>2
  <2>6. published' \in Nat
    BY <1>1
  <2> HIDE DEF message
  <2> QED
    BY <2>3, <2>4, <2>5, <2>6 DEF WholeMessage
<1>5. incoming' \in Seq(WholeMessage)
  <2>1. incoming' = Append(incoming, message) \/ incoming' = incoming
    BY DEF PublishMessage
  <2> HIDE DEF message
  <2> QED
    BY <1>4, <2>1
<1> QED
  BY <1>1, <1>2, <1>5 DEF Margins

(* on_message passes on what it received. *)
LEMMA OnMessageKeepsWhole ==
  ASSUME WholeInv, OnMessage
  PROVE  WholeInv'
<1> USE DEF WholeInv
<1>1. UNCHANGED <<payloadVars, published, out>>
  BY DEF OnMessage, Receive, browserVars
<1>2. incoming # <<>> /\ incoming' = Tail(incoming)
  BY DEF OnMessage, Receive
<1>3. Head(incoming) \in WholeMessage /\ incoming' \in Seq(WholeMessage)
  BY <1>2
<1>4. PICK message \in WholeMessage : message = Head(incoming)
  BY <1>3
<1>5. mq_event' = [kind |-> "event", id |-> message.id,
                   whole |-> message.whole /\ Received(message.size) = message.size
                             /\ FitsEvent(Received(message.size))]
  BY <1>4 DEF OnMessage, Receive
<1>6. Received(message.size) = message.size
  BY FittedWhole, PayloadAssumption DEF WholeMessage, Received
<1>7. message.id \in Nat /\ message.whole = TRUE /\ FitsEvent(message.size)
  BY DEF WholeMessage
<1>8. mq_event' = [kind |-> "event", id |-> message.id, whole |-> TRUE]
  BY <1>5, <1>6, <1>7, Zenon
<1>9. mq_event' \in WholePart
  BY <1>7, <1>8 DEF WholePart
<1> QED
  BY <1>1, <1>3, <1>9 DEF payloadVars, Margins

(* The loop over the clients writes the event it was given. *)
LEMMA BroadcastKeepsWhole ==
  ASSUME WholeInv, SseBroadcast
  PROVE  WholeInv'
<1> USE DEF WholeInv
<1>1. UNCHANGED <<payloadVars, published>> /\ Broadcast
  BY DEF SseBroadcast, deliveryVars
<1>2. UNCHANGED <<incoming, mq_event>>
  BY <1>1 DEF Broadcast, WriteClient, CloseClient, EraseClient, Unlock, mqttOnly
<1>3. out' \in [Conns -> Seq(WholePart)]
  <2>1. CASE WriteClient
    <3>1. Written(sse_clients[index], mq_event)
      BY <2>1 DEF WriteClient
    <3> QED
      BY <3>1, WrittenKeeps
  <2>2. CASE CloseClient
    BY <2>2 DEF CloseClient, Unwritable, browserVars
  <2>3. CASE EraseClient \/ Unlock
    BY <2>3 DEF EraseClient, Unlock, browserVars
  <2> QED
    BY <1>1, <2>1, <2>2, <2>3 DEF Broadcast
<1> QED
  BY <1>1, <1>2, <1>3 DEF payloadVars, Margins

(* Browsers read; they change nothing that was written. *)
LEMMA BrowserKeepsWhole ==
  ASSUME WholeInv, BrowserStep
  PROVE  WholeInv'
<1>1. UNCHANGED <<payloadVars, published, incoming, mq_event, out>>
  BY DEF BrowserStep, Browser, Connect, Ask, ReadPart, Leave, afterBrowser, mqttVars,
         deliveryVars
<1> QED
  BY <1>1 DEF WholeInv, payloadVars, Margins

(* WholeInv holds in every state, whatever the sizes of the buffers. *)
THEOREM WholeInvariance == FairSpec => []WholeInv
<1>1. Init => WholeInv
  <2> SUFFICES ASSUME Init PROVE WholeInv
    OBVIOUS
  <2>1. Part("") \in WholePart
    BY DEF Part, WholePart
  <2>2. <<>> \in Seq(WholeMessage) /\ <<>> \in Seq(WholePart)
    OBVIOUS
  <2>3. incoming = <<>> /\ out = [c \in Conns |-> <<>>]
    BY DEF Init, ServerInit
  <2>4. incoming \in Seq(WholeMessage) /\ out \in [Conns -> Seq(WholePart)]
    BY <2>2, <2>3
  <2>5. mq_event \in WholePart
    BY <2>1 DEF Init, ServerInit
  <2> QED
    BY <2>4, <2>5 DEF Init, PayloadInit, WholeInv, Margins
<1>2. WholeInv /\ [Next]_vars => WholeInv'
  <2> SUFFICES ASSUME WholeInv, [Next]_vars PROVE WholeInv'
    OBVIOUS
  <2>1. CASE FormatMessage
    <3>1. Format /\ UNCHANGED <<published, incoming, mq_event, out>>
      BY <2>1 DEF FormatMessage, serverVars, browserVars, mqttVars, deliveryVars
    <3> QED
      BY <3>1, FormatKeepsMargins DEF WholeInv
  <2>2. CASE PublishMessage
    BY <2>2, PublishKeepsWhole
  <2>3. CASE LinkLost
    BY <2>3 DEF LinkLost, WholeInv, payloadVars, serverVars, browserVars, mqttVars, Margins
  <2>4. CASE MqttConnect
    BY <2>4 DEF MqttConnect, WholeInv, payloadVars, browserVars, Margins
  <2>5. CASE OnMessage
    BY <2>5, OnMessageKeepsWhole
  <2>6. CASE SseBroadcast
    BY <2>6, BroadcastKeepsWhole
  <2>7. CASE HttpStep
    BY <2>7, HttpKeepsWhole
  <2>8. CASE StreamStep
    BY <2>8 DEF StreamStep, StreamEnds, Unwritable, WholeInv, payloadVars, deliveryVars,
                browserVars, mqttVars, Margins
  <2>9. CASE BrowserStep
    BY <2>9, BrowserKeepsWhole
  <2>10. CASE UNCHANGED vars
    BY <2>10 DEF vars, WholeInv, payloadVars, serverVars, browserVars, mqttVars,
                 deliveryVars, Margins
  <2> QED
    BY <2>1, <2>2, <2>3, <2>4, <2>5, <2>6, <2>7, <2>8, <2>9, <2>10 DEF Next, Mqtt
<1> QED
  BY <1>1, <1>2, PTL DEF FairSpec

(* No event reaches a browser cut off, for every size of the buffers, every
   number of detections and any browsers. *)
THEOREM NothingIsCut == FairSpec => []EventsWhole
<1>1. WholeInv => EventsWhole
  <2> SUFFICES ASSUME WholeInv, NEW c \in Conns, NEW k \in DOMAIN out[c]
               PROVE  out[c][k].whole
    BY DEF EventsWhole
  <2>1. out[c][k] \in WholePart
    BY DEF WholeInv
  <2> QED
    BY <2>1 DEF WholePart
<1> QED
  BY <1>1, WholeInvariance, PTL

(* No snprintf of publish_raw_detection starts at the end of its buffer, where
   the room left would wrap around, and nothing is cut later on. *)
THEOREM FormatterStaysInside == FairSpec => []PayloadWhole
<1>1. WholeInv => PayloadWhole
  BY MarginsSuffice DEF WholeInv
<1> QED
  BY <1>1, WholeInvariance, PTL
--------------------------------------------------------------------------------
\* An entry of sse_clients that is still to be closed by the MQTT thread.
Live(k) == k \in 1 .. Len(sse_clients) /\ ~(mq_pc = "erase" /\ k = index)
Listed(fd) == \E k \in 1 .. Len(sse_clients) : Live(k) /\ sse_clients[k] = fd

\* The event in hand was not written to this client yet.
Pending(k) == mq_pc \in {"write", "erase"} /\ k <= index

Event == [kind : {"event"}, id : 1 .. MaxMessages, whole : BOOLEAN]
Message == [id : 1 .. MaxMessages, size : Nat, whole : BOOLEAN]

(* The types. *)
BrowserTypes ==
  /\ peer \in [Conns -> {"absent", "here", "left", "reset"}]
  /\ asked \in [Conns -> Requests \cup {""}]
  /\ out \in [Conns -> Seq(WholePart)] /\ taken \in [Conns -> Nat]
  /\ \A c \in Conns : taken[c] <= Len(out[c]) /\ Len(out[c]) - taken[c] <= SocketRoom

ViewerTypes ==
  /\ backlog \in Seq(Conns)
  /\ table \in [Fds -> Conns \cup {None, Image}]
  /\ http_pc \in Requests \cup {"accept", "read", "error", "head", "image", "register"}
  /\ http_fd \in Fds \cup {0} /\ http_file \in Fds \cup {0}
  /\ streams \subseteq Fds /\ sse_clients \in Seq(Fds)
  /\ mq_pc \in {"connect", "idle", "write", "erase", "exited"}
  /\ index \in 0 .. Len(sse_clients)
  /\ mq_pc = "erase" => index >= 1

MessageTypes ==
  /\ raw_pc \in {"idle", "objects", "tail", "publish"}
  /\ i \in 0 .. MaxObjects /\ offset \in Nat
  /\ link \in {"none", "subscribed", "deaf"}
  /\ published \in 0 .. MaxMessages
  /\ raw_pc # "idle" => published < MaxMessages
  /\ incoming \in Seq(Message) /\ feed \in Seq(Event)
  /\ Len(feed) + Len(incoming) <= published
  /\ joined \in [Conns -> Int]
  /\ \A c \in Conns : joined[c] >= -1 /\ joined[c] <= Len(feed)

(* Each descriptor in use is in one place: main's, a video thread's or one entry
   of sse_clients that is not being erased. *)
Ownership ==
  /\ \A k, l \in 1 .. Len(sse_clients) :
       Live(k) /\ Live(l) /\ sse_clients[k] = sse_clients[l] => k = l
  /\ \A k \in 1 .. Len(sse_clients) :
       Live(k) => /\ sse_clients[k] # http_fd /\ sse_clients[k] # http_file
                  /\ sse_clients[k] \notin streams
  /\ http_fd # 0 => http_fd # http_file
  /\ http_fd \notin streams /\ http_file \notin streams
  /\ \A fd \in Fds : table[fd] # None <=>
       Listed(fd) \/ fd = http_fd \/ fd = http_file \/ fd \in streams

(* What the descriptors in each place refer to. *)
Places ==
  /\ http_fd = 0 <=> http_pc = "accept"
  /\ http_file = 0 <=> http_pc \notin {"head", "image"}
  /\ http_fd # 0 => table[http_fd] \in Conns
  /\ http_file # 0 => table[http_file] = Image
  /\ \A fd \in streams : table[fd] \in Conns
  /\ \A k \in 1 .. Len(sse_clients) : Live(k) => table[sse_clients[k]] \in Conns

(* A connection is in one place: not opened yet, waiting, behind one
   descriptor, or closed. *)
Connections ==
  /\ \A fd, gd \in Fds : table[fd] \in Conns /\ table[fd] = table[gd] => fd = gd
  /\ \A k, l \in 1 .. Len(backlog) : backlog[k] = backlog[l] => k = l
  /\ \A k \in 1 .. Len(backlog) : /\ peer[backlog[k]] # "absent"
                                  /\ \A fd \in Fds : table[fd] # backlog[k]
  /\ \A fd \in Fds : table[fd] \in Conns => peer[table[fd]] # "absent"

\* The connection main is answering.
Client == table[http_fd]

(* Nothing was written to a connection before main began to answer it. *)
Unanswered(c) == out[c] = <<>> /\ joined[c] = -1
HeadOnly(c) == Len(out[c]) = 1 /\ out[c][1].kind = "head"

NotYet ==
  /\ \A c \in Conns : peer[c] = "absent" => Unanswered(c)
  /\ \A k \in 1 .. Len(backlog) : Unanswered(backlog[k])
  /\ \A fd \in streams : Unanswered(table[fd]) /\ asked[table[fd]] = "stream"

AtMain ==
  http_fd # 0 =>
    /\ joined[Client] = -1
    /\ http_pc \notin {"image", "register"} => out[Client] = <<>>
    /\ http_pc \in {"image", "register"} =>
         HeadOnly(Client) \/ (out[Client] = <<>> /\ peer[Client] # "here")
    /\ http_pc \in Requests => asked[Client] = http_pc
    /\ http_pc \in {"error", "head", "image"} => asked[Client] = "snapshot"
    /\ http_pc = "register" => asked[Client] = "events"

Answering == NotYet /\ AtMain

(* The parts written to a connection, as its request calls for, when n events were
   broadcast. *)
Shape(request, parts, n) ==
  /\ request \in {"", "stream"} => parts = <<>>
  /\ request = "page" => parts = <<>> \/ (Len(parts) = 1 /\ parts[1].kind = "page")
  /\ request = "snapshot" =>
       \/ parts = <<>>
       \/ Len(parts) = 1 /\ parts[1].kind \in {"head", "error"}
       \/ Len(parts) = 2 /\ parts[1].kind = "head" /\ parts[2].kind = "image"
  /\ request = "events" =>
       /\ Len(parts) <= n + 1
       /\ \A k \in 1 .. Len(parts) : parts[k].kind = IF k = 1 THEN "head" ELSE "event"

Shapes == \A c \in Conns : Shape(asked[c], out[c], Len(feed))

(* The event in hand is the last of the feed; a client of /events that is still
   there was sent every event since it joined, but for that one. *)
InHand ==
  mq_pc \in {"write", "erase"} => feed # <<>> /\ mq_event = feed[Len(feed)]

Delivering ==
  /\ \A k \in 1 .. Len(sse_clients) : Live(k) =>
       LET c == table[sse_clients[k]]
           owed == IF Pending(k) THEN 1 ELSE 0
       IN /\ asked[c] = "events"
          /\ Len(out[c]) <= Len(feed) + 1 - owed
          /\ peer[c] = "here" => /\ joined[c] # -1 /\ out[c] # <<>>
                                 /\ joined[c] + Len(out[c]) - 1 = Len(feed) - owed
  /\ \A c \in Conns : joined[c] # -1 =>
       /\ asked[c] = "events"
       /\ peer[c] = "here" =>
            \E k \in 1 .. Len(sse_clients) : Live(k) /\ table[sse_clients[k]] = c

DeliveryInv ==
  /\ BrowserTypes /\ ViewerTypes /\ MessageTypes
  /\ Ownership /\ Places /\ Connections
  /\ Answering /\ Shapes /\ InHand /\ Delivering
--------------------------------------------------------------------------------
(* Facts about numbers and sequences. *)

LEMMA Sizes ==
  /\ FdLimit \in Nat \ {0} /\ SocketRoom \in Nat \ {0}
  /\ None \notin Conns /\ Image \notin Conns /\ None # Image
  /\ 0 \notin Fds /\ Fds \subseteq Nat
BY ServerAssumption DEF Fds

\* The order of the descriptors.
Less == {p \in Nat \X Nat : p[1] < p[2]}

LEMMA LessWellFounded == IsWellFoundedOn(Less, Nat)
BY NatLessThanWellFounded DEF OpToRel, Less

(* The descriptor the kernel hands out is one that is not in use. *)
LEMMA LowestFreeIsFree ==
  ASSUME Free # {}
  PROVE  LowestFree \in Fds /\ table[LowestFree] = None
<1>1. Free \subseteq Nat /\ Free \subseteq Fds
  BY Sizes DEF Free
<1>2. \E fd \in Free : \A other \in Free : ~(<<other, fd>> \in Less)
  BY <1>1, LessWellFounded, WFMin
<1>3. \E fd \in Free : \A other \in Free : fd <= other
  <2>1. PICK fd \in Free : \A other \in Free : ~(<<other, fd>> \in Less)
    BY <1>2
  <2>2. ASSUME NEW other \in Free
        PROVE  fd <= other
    <3>1. fd \in Nat /\ other \in Nat
      BY <1>1
    <3>2. <<other, fd>> \in Less <=> other < fd
      BY <3>1 DEF Less
    <3> QED
      BY <2>1, <3>1, <3>2
  <2> QED
    BY <2>2
<1>4. LowestFree \in Free
  BY <1>3 DEF LowestFree
<1> QED
  BY <1>1, <1>4 DEF Free

LEMMA RemoveAtEffect ==
  ASSUME NEW S, NEW s \in Seq(S), NEW n \in 1 .. Len(s)
  PROVE  /\ RemoveAt(s, n) \in Seq(S)
         /\ Len(RemoveAt(s, n)) = Len(s) - 1
         /\ \A k \in 1 .. Len(s) - 1 :
              RemoveAt(s, n)[k] = IF k < n THEN s[k] ELSE s[k + 1]
<1> DEFINE front == SubSeq(s, 1, n - 1)
           back == SubSeq(s, n + 1, Len(s))
<1>1. Len(s) \in Nat /\ n \in Int /\ 1 <= n /\ n <= Len(s)
  BY LenProperties
<1>2. /\ front \in Seq(S) /\ Len(front) = n - 1
      /\ \A k \in 1 .. n - 1 : front[k] = s[k]
  <2>1. \A k \in 1 .. n - 1 : s[k] \in S
    BY <1>1, ElementOfSeq
  <2>2. /\ front \in Seq(S)
        /\ Len(front) = IF 1 <= n - 1 THEN n - 1 - 1 + 1 ELSE 0
        /\ \A k \in 1 .. n - 1 - 1 + 1 : front[k] = s[1 + k - 1]
    BY <1>1, <2>1, SubSeqProperties
  <2> HIDE DEF front
  <2> QED
    BY <1>1, <2>2
<1>3. /\ back \in Seq(S) /\ Len(back) = Len(s) - n
      /\ \A k \in 1 .. Len(s) - n : back[k] = s[n + k]
  <2>1. \A k \in n + 1 .. Len(s) : s[k] \in S
    BY <1>1, ElementOfSeq
  <2>2. /\ back \in Seq(S)
        /\ Len(back) = IF n + 1 <= Len(s) THEN Len(s) - (n + 1) + 1 ELSE 0
        /\ \A k \in 1 .. Len(s) - (n + 1) + 1 : back[k] = s[n + 1 + k - 1]
    BY <1>1, <2>1, SubSeqProperties
  <2> HIDE DEF back
  <2> QED
    BY <1>1, <2>2
<1>4. RemoveAt(s, n) = front \o back
  BY DEF RemoveAt
<1> HIDE DEF front, back
<1>5. /\ front \o back \in Seq(S)
      /\ Len(front \o back) = Len(front) + Len(back)
      /\ \A k \in 1 .. Len(front) + Len(back) :
           (front \o back)[k] = IF k <= Len(front) THEN front[k]
                                                   ELSE back[k - Len(front)]
  BY <1>2, <1>3, ConcatProperties
<1>6. ASSUME NEW k \in 1 .. Len(s) - 1
      PROVE  (front \o back)[k] = IF k < n THEN s[k] ELSE s[k + 1]
  <2>1. k \in 1 .. Len(front) + Len(back)
    BY <1>1, <1>2, <1>3
  <2>2. CASE k < n
    BY <1>1, <1>2, <1>5, <2>1, <2>2
  <2>3. CASE ~(k < n)
    <3>1. k - Len(front) \in 1 .. Len(s) - n /\ n + (k - Len(front)) = k + 1
      BY <1>1, <1>2, <2>3
    <3>2. ~(k <= Len(front))
      BY <1>1, <1>2, <2>3
    <3> QED
      BY <1>3, <1>5, <2>1, <2>3, <3>1, <3>2
  <2> QED
    BY <2>2, <2>3
<1> QED
  BY <1>1, <1>2, <1>3, <1>4, <1>5, <1>6
--------------------------------------------------------------------------------
(* The descriptors. *)

Structure == ViewerTypes /\ Ownership /\ Places /\ Connections

LEMMA ViewerFacts ==
  ASSUME ViewerTypes
  PROVE  /\ sse_clients \in Seq(Fds) /\ Len(sse_clients) \in Nat
         /\ \A k \in 1 .. Len(sse_clients) : sse_clients[k] \in Fds
         /\ backlog \in Seq(Conns) /\ Len(backlog) \in Nat
         /\ \A k \in 1 .. Len(backlog) : backlog[k] \in Conns
         /\ table \in [Fds -> Conns \cup {None, Image}]
         /\ http_fd \in Fds \cup {0} /\ http_file \in Fds \cup {0} /\ streams \subseteq Fds
         /\ index \in Nat /\ index <= Len(sse_clients) /\ (mq_pc = "erase" => index >= 1)
         /\ \A fd \in Fds : fd # 0 /\ (table[fd] \in Conns => table[fd] # None)
<1>1. sse_clients \in Seq(Fds) /\ backlog \in Seq(Conns) /\ index \in 0 .. Len(sse_clients)
  BY DEF ViewerTypes
<1>2. /\ Len(sse_clients) \in Nat /\ Len(backlog) \in Nat
      /\ \A k \in 1 .. Len(sse_clients) : sse_clients[k] \in Fds
      /\ \A k \in 1 .. Len(backlog) : backlog[k] \in Conns
  BY <1>1, ElementOfSeq
<1>3. index \in Nat /\ index <= Len(sse_clients)
  BY <1>1, <1>2
<1>4. \A fd \in Fds : fd # 0 /\ (table[fd] \in Conns => table[fd] # None)
  BY Sizes
<1> QED
  BY <1>1, <1>2, <1>3, <1>4 DEF ViewerTypes

(* Steps that open, close and hand on nothing. *)
LEMMA StructureSame ==
  ASSUME Structure,
         table' = table, http_fd' = http_fd, http_file' = http_file, streams' = streams,
         sse_clients' = sse_clients, backlog' = backlog, ViewerTypes',
         http_pc' = "accept" <=> http_pc = "accept",
         http_pc' \in {"head", "image"} <=> http_pc \in {"head", "image"},
         mq_pc' = "erase" <=> mq_pc = "erase", mq_pc = "erase" => index' = index,
         \A c \in Conns : peer'[c] = "absent" => peer[c] = "absent"
  PROVE  Structure'
<1>1. ViewerTypes /\ Ownership /\ Places /\ Connections
  BY DEF Structure
<1>2. \A k : Live(k)' <=> Live(k)
  BY DEF Live
<1>3. Ownership'
  BY <1>1, <1>2 DEF Ownership, Listed
<1>4. Places'
  BY <1>1, <1>2 DEF Places
<1>5. Connections'
  BY <1>1, ViewerFacts DEF Connections
<1> QED
  BY <1>3, <1>4, <1>5 DEF Structure

(* main closes what it holds. *)
LEMMA StructureClosed ==
  ASSUME Structure, BackToAccept, http_fd # 0,
         Closed({http_fd} \cup IF http_file = 0 THEN {} ELSE {http_file}),
         streams' = streams, sse_clients' = sse_clients, backlog' = backlog,
         mq_pc' = mq_pc, index' = index,
         \A c \in Conns : peer'[c] = "absent" => peer[c] = "absent"
  PROVE  Structure'
<1>1. ViewerTypes /\ Ownership /\ Places /\ Connections
  BY DEF Structure
<1>2. \A k : Live(k)' <=> Live(k)
  BY DEF Live
<1>3. http_pc' = "accept" /\ http_fd' = 0 /\ http_file' = 0
  BY DEF BackToAccept
<1>4. /\ table' \in [Fds -> Conns \cup {None, Image}]
      /\ \A fd \in Fds : table'[fd] = IF fd \in {http_fd, http_file} THEN None ELSE table[fd]
  BY <1>1, ViewerFacts DEF Closed
<1>5. ViewerTypes'
  BY <1>1, <1>3, <1>4 DEF ViewerTypes
<1>6. Ownership'
  BY <1>1, <1>2, <1>3, <1>4, ViewerFacts, Sizes DEF Ownership, Listed
<1>7. Places'
  <2>1. \A fd \in streams : table'[fd] \in Conns
    <3>1. streams \subseteq Fds /\ \A fd \in streams : fd # http_fd /\ fd # http_file
      BY <1>1 DEF ViewerTypes, Ownership
    <3>2. \A fd \in streams : table'[fd] = table[fd]
      BY <1>4, <3>1
    <3> QED
      BY <1>1, <3>2 DEF Places
  <2>2. \A k \in 1 .. Len(sse_clients) : Live(k) => table'[sse_clients[k]] \in Conns
    <3>1. \A k \in 1 .. Len(sse_clients) : sse_clients[k] \in Fds
      BY <1>1, ViewerFacts
    <3>2. \A k \in 1 .. Len(sse_clients) : Live(k) =>
            table'[sse_clients[k]] = table[sse_clients[k]]
      BY <1>1, <1>4, <3>1 DEF Ownership
    <3> QED
      BY <1>1, <3>2 DEF Places
  <2> QED
    BY <1>2, <1>3, <2>1, <2>2 DEF Places
<1>8. Connections'
  <2>1. \A fd \in Fds : table'[fd] \in Conns => table'[fd] = table[fd]
    BY <1>4, Sizes
  <2>2. \A k \in 1 .. Len(backlog) :
          /\ peer'[backlog[k]] # "absent" /\ \A fd \in Fds : table'[fd] # backlog[k]
    BY <1>1, <2>1, ViewerFacts DEF Connections
  <2>3. \A fd \in Fds : table'[fd] \in Conns => peer'[table'[fd]] # "absent"
    BY <1>1, <2>1 DEF Connections
  <2>4. \A fd, gd \in Fds : table'[fd] \in Conns /\ table'[fd] = table'[gd] => fd = gd
    BY <1>1, <2>1 DEF Connections
  <2> QED
    BY <1>1, <2>2, <2>3, <2>4 DEF Connections
<1> QED
  BY <1>5, <1>6, <1>7, <1>8 DEF Structure

(* accept: the connection takes the lowest free descriptor. *)
LEMMA StructureAccept ==
  ASSUME Structure, Accept
  PROVE  Structure'
<1>1. ViewerTypes /\ Ownership /\ Places /\ Connections
  BY DEF Structure
<1> DEFINE fd0 == LowestFree
           c0 == backlog[1]
<1>2. /\ http_pc = "accept" /\ http_pc' = "read" /\ http_fd' = fd0 /\ http_file' = http_file
      /\ streams' = streams /\ sse_clients' = sse_clients /\ peer' = peer
      /\ mq_pc' = mq_pc /\ index' = index
      /\ backlog # <<>> /\ backlog' = Tail(backlog) /\ Free # {}
      /\ table' = [table EXCEPT ![fd0] = Head(backlog)]
  BY DEF Accept, Opened, browserVars, mqttVars
<1>3. fd0 \in Fds /\ table[fd0] = None /\ fd0 # 0
  BY <1>2, LowestFreeIsFree, Sizes
<1>4. /\ Len(backlog) \in Nat \ {0} /\ Head(backlog) = c0 /\ c0 \in Conns
      /\ backlog' \in Seq(Conns) /\ Len(backlog') = Len(backlog) - 1
      /\ \A k \in 1 .. Len(backlog') : backlog'[k] = backlog[k + 1]
  <2>1. backlog \in Seq(Conns) /\ backlog # <<>>
    BY <1>1, <1>2, ViewerFacts
  <2>2. Head(backlog) = backlog[1]
    BY <2>1
  <2> QED
    BY <1>2, <2>1, <2>2, HeadTailProperties, EmptySeq
<1> HIDE DEF fd0, c0
<1>5. http_fd = 0 /\ http_file = 0
  BY <1>1, <1>2 DEF Places
<1>6. /\ table' \in [Fds -> Conns \cup {None, Image}]
      /\ \A fd \in Fds : table'[fd] = IF fd = fd0 THEN c0 ELSE table[fd]
  BY <1>1, <1>2, <1>3, <1>4, ViewerFacts
<1>7. \A k : Live(k)' <=> Live(k)
  BY <1>2 DEF Live
<1>8. ViewerTypes'
  BY <1>1, <1>2, <1>3, <1>4, <1>6 DEF ViewerTypes
<1>9. fd0 # http_fd /\ fd0 # http_file /\ fd0 \notin streams /\ ~Listed(fd0)
  BY <1>1, <1>3 DEF Ownership
<1>10. Ownership'
  <2>1. c0 # None
    BY <1>4, Sizes
  <2> QED
    BY <1>1, <1>2, <1>3, <1>5, <1>6, <1>7, <1>9, <2>1, ViewerFacts DEF Ownership, Listed
<1>11. Places'
  BY <1>1, <1>2, <1>3, <1>4, <1>5, <1>6, <1>7, <1>9, ViewerFacts DEF Places, Listed
<1>12. Connections'
  <2>1. \A k \in 1 .. Len(backlog') : /\ k + 1 \in 1 .. Len(backlog) /\ k + 1 # 1
                                      /\ 1 \in 1 .. Len(backlog)
    BY <1>4
  <2>2. \A fd \in Fds : table[fd] # c0
    BY <1>1, <1>4 DEF Connections
  <2>3. \A k, l \in 1 .. Len(backlog') : backlog'[k] = backlog'[l] => k = l
    <3> SUFFICES ASSUME NEW k \in 1 .. Len(backlog'), NEW l \in 1 .. Len(backlog'),
                        backlog'[k] = backlog'[l]
                 PROVE  k = l
      OBVIOUS
    <3>1. k + 1 = l + 1
      BY <1>1, <1>4, <2>1 DEF Connections
    <3> QED
      BY <3>1
  <2>4. \A k \in 1 .. Len(backlog') : backlog'[k] # c0
    BY <1>1, <1>4, <2>1 DEF Connections, c0
  <2>5. \A k \in 1 .. Len(backlog') :
          /\ peer'[backlog'[k]] # "absent" /\ \A fd \in Fds : table'[fd] # backlog'[k]
    BY <1>1, <1>2, <1>4, <1>6, <2>1, <2>4 DEF Connections
  <2>6. 1 \in 1 .. Len(backlog) /\ peer[c0] # "absent"
    <3>1. 1 \in 1 .. Len(backlog)
      BY <1>4
    <3> QED
      BY <1>1, <3>1 DEF Connections, c0
  <2>7. \A fd \in Fds : table'[fd] \in Conns => peer'[table'[fd]] # "absent"
    BY <1>1, <1>2, <1>6, <2>6 DEF Connections
  <2>8. \A fd, gd \in Fds : table'[fd] \in Conns /\ table'[fd] = table'[gd] => fd = gd
    BY <1>1, <1>6, <2>2 DEF Connections
  <2> QED
    BY <2>3, <2>5, <2>7, <2>8 DEF Connections
<1> QED
  BY <1>8, <1>10, <1>11, <1>12 DEF Structure

(* fopen: the file takes the lowest free descriptor. *)
LEMMA StructureOpens ==
  ASSUME Structure, OpenSnapshot
  PROVE  Structure'
<1>1. ViewerTypes /\ Ownership /\ Places /\ Connections
  BY DEF Structure
<1> DEFINE fd0 == LowestFree
<1>2. /\ http_pc = "snapshot" /\ http_pc' = "head" /\ http_fd' = http_fd /\ http_file' = fd0
      /\ streams' = streams /\ sse_clients' = sse_clients /\ peer' = peer
      /\ mq_pc' = mq_pc /\ index' = index /\ backlog' = backlog /\ Free # {}
      /\ table' = [table EXCEPT ![fd0] = Image]
  BY DEF OpenSnapshot, Opened, browserVars, mainOnly, mqttVars
<1>3. fd0 \in Fds /\ table[fd0] = None /\ fd0 # 0
  BY <1>2, LowestFreeIsFree, Sizes
<1> HIDE DEF fd0
<1>4. http_fd # 0 /\ http_file = 0
  BY <1>1, <1>2 DEF Places
<1>5. /\ table' \in [Fds -> Conns \cup {None, Image}]
      /\ \A fd \in Fds : table'[fd] = IF fd = fd0 THEN Image ELSE table[fd]
  BY <1>1, <1>2, <1>3, ViewerFacts
<1>6. \A k : Live(k)' <=> Live(k)
  BY <1>2 DEF Live
<1>7. ViewerTypes'
  BY <1>1, <1>2, <1>3, <1>5 DEF ViewerTypes
<1>8. fd0 # http_fd /\ fd0 \notin streams /\ ~Listed(fd0)
  BY <1>1, <1>3 DEF Ownership
<1>9. Ownership'
  BY <1>1, <1>2, <1>3, <1>4, <1>5, <1>6, <1>8, ViewerFacts, Sizes DEF Ownership, Listed
<1>10. Places'
  BY <1>1, <1>2, <1>3, <1>4, <1>5, <1>6, <1>8, ViewerFacts DEF Places, Listed
<1>11. Connections'
  <2>1. \A fd \in Fds : table'[fd] \in Conns => table'[fd] = table[fd]
    BY <1>5, Sizes
  <2>2. \A k \in 1 .. Len(backlog) :
          /\ peer'[backlog[k]] # "absent" /\ \A fd \in Fds : table'[fd] # backlog[k]
    BY <1>1, <1>2, <2>1, ViewerFacts DEF Connections
  <2>3. \A fd \in Fds : table'[fd] \in Conns => peer'[table'[fd]] # "absent"
    BY <1>1, <1>2, <2>1 DEF Connections
  <2>4. \A fd, gd \in Fds : table'[fd] \in Conns /\ table'[fd] = table'[gd] => fd = gd
    BY <1>1, <2>1 DEF Connections
  <2> QED
    BY <1>1, <1>2, <2>2, <2>3, <2>4 DEF Connections
<1> QED
  BY <1>7, <1>9, <1>10, <1>11 DEF Structure

(* main hands the descriptor over to a video thread. *)
LEMMA StructureSpawned ==
  ASSUME Structure, http_pc = "stream", BackToAccept, streams' = streams \cup {http_fd},
         UNCHANGED <<table, sse_clients, backlog, mq_pc, index, peer>>
  PROVE  Structure'
<1>1. ViewerTypes /\ Ownership /\ Places /\ Connections
  BY DEF Structure
<1>2. http_fd # 0 /\ http_file = 0 /\ http_fd \in Fds /\ table[http_fd] \in Conns
  BY <1>1, ViewerFacts DEF Places
<1>3. http_pc' = "accept" /\ http_fd' = 0 /\ http_file' = 0
  BY DEF BackToAccept
<1>4. \A k : Live(k)' <=> Live(k)
  BY DEF Live
<1>5. ViewerTypes'
  BY <1>1, <1>2, <1>3 DEF ViewerTypes
<1>6. Ownership'
  BY <1>1, <1>2, <1>3, <1>4, ViewerFacts, Sizes DEF Ownership, Listed
<1>7. Places'
  BY <1>1, <1>2, <1>3, <1>4 DEF Places
<1>8. Connections'
  BY <1>1 DEF Connections
<1> QED
  BY <1>5, <1>6, <1>7, <1>8 DEF Structure

(* main hands the descriptor over to the MQTT thread. *)
LEMMA StructureRegistered ==
  ASSUME Structure, Register
  PROVE  Structure'
<1>1. ViewerTypes /\ Ownership /\ Places /\ Connections
  BY DEF Structure
<1>2. /\ http_pc = "register" /\ mq_pc \notin {"write", "erase"}
      /\ sse_clients' = Append(sse_clients, http_fd)
      /\ UNCHANGED <<table, streams, backlog, mq_pc, index, peer>>
  BY DEF Register, sse_mtx_held, browserVars, mqttVars
<1>3. http_pc' = "accept" /\ http_fd' = 0 /\ http_file' = 0
  BY DEF Register, BackToAccept
<1>4. http_fd # 0 /\ http_file = 0 /\ http_fd \in Fds /\ table[http_fd] \in Conns
  BY <1>1, <1>2, ViewerFacts DEF Places
<1> DEFINE n == Len(sse_clients)
<1>5. /\ n \in Nat /\ sse_clients' \in Seq(Fds) /\ Len(sse_clients') = n + 1
      /\ \A k \in 1 .. n : sse_clients'[k] = sse_clients[k]
      /\ sse_clients'[n + 1] = http_fd
  BY <1>1, <1>2, <1>4, ViewerFacts, AppendProperties
<1>6. \A k \in 1 .. n + 1 : k \in 1 .. n \/ k = n + 1
  BY <1>5
<1>7. \A k \in 1 .. n : k \in 1 .. n + 1 /\ k # n + 1
  BY <1>5
<1>8. n + 1 \in 1 .. n + 1
  BY <1>5
<1>9. \A k \in 1 .. n : Live(k)
  BY <1>2 DEF Live
<1>10. \A k : Live(k)' <=> k \in 1 .. n + 1
  BY <1>2, <1>5 DEF Live
<1>11. ViewerTypes'
  <2>1. index' \in 0 .. Len(sse_clients')
    BY <1>1, <1>2, <1>5, ViewerFacts
  <2> QED
    BY <1>1, <1>2, <1>3, <1>5, <2>1 DEF ViewerTypes
<1> HIDE DEF n
<1>12. \A k \in 1 .. n : sse_clients[k] # http_fd
  BY <1>1, <1>9 DEF Ownership, n
<1>13. Ownership'
  <2>1. \A k, l \in 1 .. n + 1 : sse_clients'[k] = sse_clients'[l] => k = l
    <3> SUFFICES ASSUME NEW k \in 1 .. n + 1, NEW l \in 1 .. n + 1,
                        sse_clients'[k] = sse_clients'[l]
                 PROVE  k = l
      OBVIOUS
    <3>1. CASE k \in 1 .. n /\ l \in 1 .. n
      BY <1>1, <1>5, <1>9, <3>1 DEF Ownership, n
    <3> QED
      BY <1>5, <1>6, <1>12, <3>1
  <2>2. \A k \in 1 .. n + 1 : sse_clients'[k] # 0 /\ sse_clients'[k] \notin streams
    BY <1>1, <1>4, <1>5, <1>6, <1>9, ViewerFacts DEF Ownership, n
  <2>3. \A fd : Listed(fd)' <=> Listed(fd) \/ fd = http_fd
    <3>1. \A fd : Listed(fd)' <=> \E k \in 1 .. n + 1 : sse_clients'[k] = fd
      BY <1>5, <1>10 DEF Listed
    <3>2. \A fd : Listed(fd) <=> \E k \in 1 .. n : sse_clients[k] = fd
      BY <1>9 DEF Listed, n
    <3> QED
      BY <1>5, <1>6, <1>7, <1>8, <3>1, <3>2
  <2>4. \A fd \in Fds : table'[fd] # None <=> Listed(fd)' \/ fd \in streams
    BY <1>1, <1>2, <1>4, <2>3, ViewerFacts DEF Ownership
  <2> QED
    BY <1>1, <1>2, <1>3, <1>5, <2>1, <2>2, <2>4, ViewerFacts, Sizes DEF Ownership
<1>14. Places'
  <2>1. \A k \in 1 .. n + 1 : table[sse_clients'[k]] \in Conns
    BY <1>1, <1>4, <1>5, <1>6, <1>9 DEF Places, n
  <2> QED
    BY <1>1, <1>2, <1>3, <1>5, <2>1 DEF Places
<1>15. Connections'
  BY <1>1, <1>2 DEF Connections
<1> QED
  BY <1>11, <1>13, <1>14, <1>15 DEF Structure

(* A video thread closes its descriptor. *)
LEMMA StructureStreamEnds ==
  ASSUME Structure, StreamEnds
  PROVE  Structure'
<1>1. ViewerTypes /\ Ownership /\ Places /\ Connections
  BY DEF Structure
<1>2. PICK fd0 \in streams : Closed({fd0}) /\ streams' = streams \ {fd0}
  BY DEF StreamEnds
<1>3. UNCHANGED <<sse_clients, backlog, mq_pc, index, peer, http_pc, http_fd, http_file>>
  BY DEF StreamEnds, Unwritable, browserVars, mqttVars
<1>4. \A k : Live(k)' <=> Live(k)
  BY <1>3 DEF Live
<1>5. /\ table' \in [Fds -> Conns \cup {None, Image}] /\ fd0 \in Fds
      /\ \A fd \in Fds : table'[fd] = IF fd = fd0 THEN None ELSE table[fd]
  BY <1>1, <1>2, ViewerFacts DEF Closed
<1>6. ViewerTypes'
  BY <1>1, <1>2, <1>3, <1>5 DEF ViewerTypes
<1>7. Ownership'
  BY <1>1, <1>2, <1>3, <1>4, <1>5, ViewerFacts, Sizes DEF Ownership, Listed
<1>8. Places'
  BY <1>1, <1>2, <1>3, <1>4, <1>5, ViewerFacts, Sizes DEF Places, Ownership
<1>9. Connections'
  <2>1. \A fd \in Fds : table'[fd] \in Conns => table'[fd] = table[fd]
    BY <1>5, Sizes
  <2>2. \A k \in 1 .. Len(backlog) :
          /\ peer'[backlog[k]] # "absent" /\ \A fd \in Fds : table'[fd] # backlog[k]
    BY <1>1, <1>3, <2>1, ViewerFacts DEF Connections
  <2>3. \A fd \in Fds : table'[fd] \in Conns => peer'[table'[fd]] # "absent"
    BY <1>1, <1>3, <2>1 DEF Connections
  <2>4. \A fd, gd \in Fds : table'[fd] \in Conns /\ table'[fd] = table'[gd] => fd = gd
    BY <1>1, <2>1 DEF Connections
  <2> QED
    BY <1>1, <1>3, <2>2, <2>3, <2>4 DEF Connections
<1> QED
  BY <1>6, <1>7, <1>8, <1>9 DEF Structure

(* sse_broadcast closes the descriptor of a client that is gone. *)
LEMMA StructureClientClosed ==
  ASSUME Structure, CloseClient
  PROVE  Structure'
<1>1. ViewerTypes /\ Ownership /\ Places /\ Connections
  BY DEF Structure
<1>2. /\ mq_pc = "write" /\ mq_pc' = "erase" /\ index > 0 /\ index' = index
      /\ Closed({sse_clients[index]})
      /\ UNCHANGED <<sse_clients, streams, backlog, peer, http_pc, http_fd, http_file>>
  BY DEF CloseClient, Unwritable, browserVars, httpVars, mqttOnly
<1> DEFINE fd0 == sse_clients[index]
<1>3. index \in 1 .. Len(sse_clients) /\ fd0 \in Fds
  BY <1>1, <1>2, ViewerFacts
<1>4. /\ \A k \in 1 .. Len(sse_clients) : Live(k)
      /\ \A k : Live(k)' <=> k \in 1 .. Len(sse_clients) /\ k # index
  BY <1>2 DEF Live
<1>5. /\ table' \in [Fds -> Conns \cup {None, Image}]
      /\ \A fd \in Fds : table'[fd] = IF fd = fd0 THEN None ELSE table[fd]
  BY <1>1, <1>2, ViewerFacts DEF Closed
<1>6. ViewerTypes'
  BY <1>1, <1>2, <1>3, <1>5 DEF ViewerTypes
<1>7. \A k \in 1 .. Len(sse_clients) : k # index => sse_clients[k] # fd0
  BY <1>1, <1>3, <1>4 DEF Ownership
<1>8. fd0 # http_fd /\ fd0 # http_file /\ fd0 \notin streams
  BY <1>1, <1>3, <1>4 DEF Ownership
<1>9. Ownership'
  BY <1>1, <1>2, <1>3, <1>4, <1>5, <1>7, <1>8, ViewerFacts DEF Ownership, Listed
<1>10. Places'
  BY <1>1, <1>2, <1>3, <1>4, <1>5, <1>7, <1>8, ViewerFacts DEF Places
<1>11. Connections'
  <2>1. \A fd \in Fds : table'[fd] \in Conns => table'[fd] = table[fd]
    BY <1>5, Sizes
  <2>2. \A k \in 1 .. Len(backlog) :
          /\ peer'[backlog[k]] # "absent" /\ \A fd \in Fds : table'[fd] # backlog[k]
    BY <1>1, <1>2, <2>1, ViewerFacts DEF Connections
  <2>3. \A fd \in Fds : table'[fd] \in Conns => peer'[table'[fd]] # "absent"
    BY <1>1, <1>2, <2>1 DEF Connections
  <2>4. \A fd, gd \in Fds : table'[fd] \in Conns /\ table'[fd] = table'[gd] => fd = gd
    BY <1>1, <2>1 DEF Connections
  <2> QED
    BY <1>1, <1>2, <2>2, <2>3, <2>4 DEF Connections
<1> QED
  BY <1>6, <1>9, <1>10, <1>11 DEF Structure

\* Where the entries of sse_clients come from when the one at index is erased.
Before(k) == IF k < index THEN k ELSE k + 1

LEMMA ErasedEntries ==
  ASSUME ViewerTypes, EraseClient
  PROVE  /\ mq_pc = "erase" /\ mq_pc' = "write" /\ index' = index - 1
         /\ sse_clients' \in Seq(Fds) /\ Len(sse_clients') = Len(sse_clients) - 1
         /\ index' \in 0 .. Len(sse_clients')
         /\ \A k \in 1 .. Len(sse_clients') :
              /\ Live(k)' /\ Before(k) \in 1 .. Len(sse_clients) /\ Live(Before(k))
              /\ sse_clients'[k] = sse_clients[Before(k)]
         /\ \A k \in 1 .. Len(sse_clients) : Live(k) =>
              \E l \in 1 .. Len(sse_clients') : Before(l) = k
         /\ \A k, l \in 1 .. Len(sse_clients') : Before(k) = Before(l) => k = l
         /\ UNCHANGED <<browserVars, table, streams, backlog, http_pc, http_fd, http_file,
                        incoming, mq_event>>
<1>1. /\ mq_pc = "erase" /\ mq_pc' = "write" /\ index' = index - 1
      /\ sse_clients' = RemoveAt(sse_clients, index)
      /\ UNCHANGED <<browserVars, table, streams, backlog, http_pc, http_fd, http_file,
                     incoming, mq_event>>
  BY DEF EraseClient, httpVars, mqttOnly
<1>2. /\ Len(sse_clients) \in Nat /\ sse_clients \in Seq(Fds)
      /\ index \in Nat /\ 1 <= index /\ index <= Len(sse_clients)
  BY <1>1, ViewerFacts
<1>3. index \in 1 .. Len(sse_clients)
  BY <1>2
<1>4. /\ sse_clients' \in Seq(Fds) /\ Len(sse_clients') = Len(sse_clients) - 1
      /\ \A k \in 1 .. Len(sse_clients) - 1 :
           sse_clients'[k] = IF k < index THEN sse_clients[k] ELSE sse_clients[k + 1]
  BY <1>1, <1>2, <1>3, RemoveAtEffect
<1>5. index' \in 0 .. Len(sse_clients')
  BY <1>1, <1>2, <1>4
<1>6. ASSUME NEW k \in 1 .. Len(sse_clients')
      PROVE  /\ Live(k)' /\ Before(k) \in 1 .. Len(sse_clients) /\ Live(Before(k))
             /\ sse_clients'[k] = sse_clients[Before(k)]
  <2>1. k \in Nat /\ 1 <= k /\ k <= Len(sse_clients) - 1
    BY <1>2, <1>4
  <2>2. Before(k) \in 1 .. Len(sse_clients) /\ Before(k) # index
    BY <1>2, <2>1 DEF Before
  <2>3. sse_clients'[k] = sse_clients[Before(k)]
    BY <1>4 DEF Before
  <2> QED
    BY <1>1, <2>2, <2>3 DEF Live
<1>7. ASSUME NEW k \in 1 .. Len(sse_clients), Live(k)
      PROVE  \E l \in 1 .. Len(sse_clients') : Before(l) = k
  <2>1. k # index /\ k \in Nat /\ 1 <= k /\ k <= Len(sse_clients)
    BY <1>1, <1>2, <1>7 DEF Live
  <2>2. CASE k < index
    <3>1. k \in 1 .. Len(sse_clients') /\ Before(k) = k
      BY <1>2, <1>4, <2>1, <2>2 DEF Before
    <3> QED
      BY <3>1
  <2>3. CASE k > index
    <3>1. k - 1 \in 1 .. Len(sse_clients') /\ Before(k - 1) = k
      BY <1>2, <1>4, <2>1, <2>3 DEF Before
    <3> QED
      BY <3>1
  <2> QED
    BY <1>2, <2>1, <2>2, <2>3
<1>8. \A k, l \in 1 .. Len(sse_clients') : Before(k) = Before(l) => k = l
  <2> SUFFICES ASSUME NEW k \in 1 .. Len(sse_clients'), NEW l \in 1 .. Len(sse_clients'),
                      Before(k) = Before(l)
               PROVE  k = l
    OBVIOUS
  <2>1. k \in Int /\ l \in Int
    BY <1>2, <1>4
  <2> QED
    BY <1>2, <2>1 DEF Before
<1> QED
  BY <1>1, <1>4, <1>5, <1>6, <1>7, <1>8

(* It takes the entry out of the list. *)
LEMMA StructureErased ==
  ASSUME Structure, EraseClient
  PROVE  Structure'
<1>1. ViewerTypes /\ Ownership /\ Places /\ Connections
  BY DEF Structure
<1>2. ViewerTypes'
  BY <1>1, ErasedEntries DEF ViewerTypes
<1>3. \A fd : Listed(fd)' <=> Listed(fd)
  BY <1>1, ErasedEntries DEF Listed
<1>4. Ownership'
  <2>1. \A k, l \in 1 .. Len(sse_clients') : sse_clients'[k] = sse_clients'[l] => k = l
    BY <1>1, ErasedEntries DEF Ownership
  <2>2. \A k \in 1 .. Len(sse_clients') :
          /\ sse_clients'[k] # http_fd /\ sse_clients'[k] # http_file
          /\ sse_clients'[k] \notin streams
    BY <1>1, ErasedEntries DEF Ownership
  <2>3. http_fd' = http_fd /\ http_file' = http_file /\ streams' = streams /\ table' = table
    BY <1>1, ErasedEntries
  <2> QED
    BY <1>1, <1>3, <2>1, <2>2, <2>3 DEF Ownership
<1>5. Places'
  BY <1>1, ErasedEntries DEF Places
<1>6. Connections'
  BY <1>1, ErasedEntries DEF Connections, browserVars
<1> QED
  BY <1>2, <1>4, <1>5, <1>6 DEF Structure
--------------------------------------------------------------------------------
(* What is written to the connections. *)

\* A write to connection c: the part is appended, or its browser is gone.
Touched(c, part) ==
  /\ asked' = asked /\ taken' = taken
  /\ \A d \in Conns : d # c => out'[d] = out[d] /\ peer'[d] = peer[d]
  /\ \/ peer[c] = "here" /\ peer'[c] = "here" /\ out'[c] = Append(out[c], part)
     \/ /\ peer[c] \in {"left", "reset"} /\ peer'[c] \notin {"here", "absent"}
        /\ out'[c] = out[c]

LEMMA WriteTouches ==
  ASSUME BrowserTypes, NEW fd, table[fd] \in Conns, NEW part \in WholePart,
         Written(fd, part) \/ Unwritable(fd)
  PROVE  /\ BrowserTypes' /\ Touched(table[fd], part)
         /\ Unwritable(fd) => peer[table[fd]] # "here"
<1> DEFINE c == table[fd]
<1>1. /\ peer \in [Conns -> {"absent", "here", "left", "reset"}]
      /\ asked \in [Conns -> Requests \cup {""}]
      /\ out \in [Conns -> Seq(WholePart)] /\ taken \in [Conns -> Nat]
      /\ \A d \in Conns : taken[d] <= Len(out[d]) /\ Len(out[d]) - taken[d] <= SocketRoom
  BY DEF BrowserTypes
<1>2. out' \in [Conns -> Seq(WholePart)]
  BY <1>1, WrittenKeeps
<1>3. /\ Append(out[c], part) \in Seq(WholePart) /\ Len(out[c]) \in Nat
      /\ Len(Append(out[c], part)) = Len(out[c]) + 1
  <2>1. out[c] \in Seq(WholePart)
    BY <1>1
  <2> HIDE DEF c
  <2> QED
    BY <2>1, AppendProperties
<1>4. CASE /\ peer[c] = "here" /\ Len(out[c]) - taken[c] < SocketRoom
           /\ out' = [out EXCEPT ![c] = Append(@, part)]
           /\ UNCHANGED <<peer, asked, taken>>
  <2>1. /\ out'[c] = Append(out[c], part)
        /\ \A d \in Conns : d # c => out'[d] = out[d]
    BY <1>1, <1>4
  <2>2. ASSUME NEW d \in Conns
        PROVE  taken'[d] <= Len(out'[d]) /\ Len(out'[d]) - taken'[d] <= SocketRoom
    <3>1. CASE d = c
      <4>1. taken[c] \in Nat /\ taken[c] <= Len(out[c]) /\ Len(out'[c]) = Len(out[c]) + 1
        BY <1>1, <1>3, <2>1
      <4> QED
        BY <1>3, <1>4, <3>1, <4>1, Sizes
    <3>2. CASE d # c
      BY <1>1, <1>4, <2>1, <3>2
    <3> QED
      BY <3>1, <3>2
  <2> HIDE DEF c
  <2>3. BrowserTypes'
    BY <1>1, <1>2, <1>4, <2>2 DEF BrowserTypes
  <2>4. Touched(c, part)
    BY <1>4, <2>1 DEF Touched
  <2> QED
    BY <1>4, <2>3, <2>4 DEF Unwritable, c
<1>5. CASE /\ peer[c] = "left" /\ peer' = [peer EXCEPT ![c] = "reset"]
           /\ UNCHANGED <<out, asked, taken>>
  <2>1. /\ peer' \in [Conns -> {"absent", "here", "left", "reset"}] /\ peer'[c] = "reset"
        /\ \A d \in Conns : d # c => peer'[d] = peer[d]
    BY <1>1, <1>5
  <2>2. BrowserTypes'
    BY <1>1, <1>2, <1>5, <2>1 DEF BrowserTypes
  <2> QED
    BY <1>5, <2>1, <2>2 DEF Touched
<1>6. CASE peer[c] \in {"left", "reset"} /\ UNCHANGED <<peer, asked, out, taken>>
  <2>1. BrowserTypes'
    BY <1>1, <1>6 DEF BrowserTypes
  <2> QED
    BY <1>6, <2>1 DEF Touched
<1> QED
  BY <1>4, <1>5, <1>6 DEF Written, Unwritable, browserVars, Unread

(* The parts of a connection after a write. *)
LEMMA PartAppended ==
  ASSUME BrowserTypes, NEW c \in Conns, NEW part \in WholePart, out'[c] = Append(out[c], part)
  PROVE  /\ Len(out[c]) \in Nat /\ Len(out'[c]) = Len(out[c]) + 1 /\ out'[c] # <<>>
         /\ \A k \in 1 .. Len(out[c]) : out'[c][k] = out[c][k]
         /\ out'[c][Len(out[c]) + 1] = part
<1>1. out[c] \in Seq(WholePart)
  BY DEF BrowserTypes
<1>2. /\ Len(out[c]) \in Nat /\ Append(out[c], part) \in Seq(WholePart)
      /\ Len(Append(out[c], part)) = Len(out[c]) + 1
      /\ \A k \in 1 .. Len(out[c]) : Append(out[c], part)[k] = out[c][k]
      /\ Append(out[c], part)[Len(out[c]) + 1] = part
  BY <1>1, AppendProperties
<1> QED
  BY <1>2, EmptySeq

LEMMA PartFacts ==
  ASSUME BrowserTypes
  PROVE  \A c \in Conns : /\ out[c] \in Seq(WholePart) /\ Len(out[c]) \in Nat
                          /\ out[c] = <<>> <=> Len(out[c]) = 0
<1>1. \A c \in Conns : out[c] \in Seq(WholePart)
  BY DEF BrowserTypes
<1> QED
  BY <1>1, EmptySeq

LEMMA MessageFacts ==
  ASSUME MessageTypes
  PROVE  /\ feed \in Seq(Event) /\ Len(feed) \in Nat /\ (feed = <<>> <=> Len(feed) = 0)
         /\ incoming \in Seq(Message) /\ Len(incoming) \in Nat
         /\ \A k \in 1 .. Len(feed) : feed[k] \in Event /\ feed[k].kind = "event"
         /\ \A c \in Conns : joined[c] \in Int /\ joined[c] >= -1 /\ joined[c] <= Len(feed)
         /\ published \in Nat /\ published <= MaxMessages /\ Len(feed) <= published
<1>1. feed \in Seq(Event) /\ incoming \in Seq(Message) /\ published \in 0 .. MaxMessages
      /\ joined \in [Conns -> Int] /\ Len(feed) + Len(incoming) <= published
      /\ \A c \in Conns : joined[c] >= -1 /\ joined[c] <= Len(feed)
  BY DEF MessageTypes
<1>2. Len(feed) \in Nat /\ Len(incoming) \in Nat /\ (feed = <<>> <=> Len(feed) = 0)
  BY <1>1, EmptySeq
<1>3. \A k \in 1 .. Len(feed) : feed[k] \in Event
  BY <1>1, ElementOfSeq
<1>4. \A k \in 1 .. Len(feed) : feed[k].kind = "event"
  BY <1>3 DEF Event
<1> QED
  BY <1>1, <1>2, <1>3, <1>4
--------------------------------------------------------------------------------
(* The shape of what was written. *)

LEMMA ShapeGrows ==
  ASSUME NEW request, NEW parts, Len(parts) \in Nat, NEW n \in Nat, NEW m \in Nat, n <= m,
         Shape(request, parts, n)
  PROVE  Shape(request, parts, m)
<1>1. request = "events" => Len(parts) <= m + 1
  BY DEF Shape
<1> QED
  BY <1>1 DEF Shape

LEMMA NothingHasShape ==
  ASSUME NEW request, NEW n \in Nat
  PROVE  Shape(request, <<>>, n)
<1> DEFINE none == <<>>
<1>1. none = <<>> /\ Len(none) = 0
  OBVIOUS
<1> HIDE DEF none
<1>2. Shape(request, none, n)
  BY <1>1 DEF Shape
<1> QED
  BY <1>1, <1>2

LEMMA ShapesSame ==
  ASSUME Shapes, BrowserTypes, MessageTypes, Len(feed') \in Nat, out' = out,
         Len(feed) <= Len(feed'),
         \A c \in Conns : asked'[c] = asked[c] \/ asked[c] = ""
  PROVE  Shapes'
<1> SUFFICES ASSUME NEW c \in Conns PROVE Shape(asked'[c], out'[c], Len(feed'))
  BY DEF Shapes
<1>1. Shape(asked[c], out[c], Len(feed)) /\ Len(feed) \in Nat /\ Len(out[c]) \in Nat
  BY MessageFacts, PartFacts DEF Shapes
<1>2. CASE asked'[c] = asked[c]
  BY <1>1, <1>2, ShapeGrows
<1>3. CASE asked[c] = ""
  <2>1. out'[c] = <<>>
    BY <1>1, <1>3 DEF Shape
  <2> QED
    BY <2>1, NothingHasShape
<1> QED
  BY <1>2, <1>3

LEMMA ShapesTouched ==
  ASSUME Shapes, feed' = feed, NEW c0 \in Conns, NEW part, Touched(c0, part),
         out'[c0] = Append(out[c0], part) => Shape(asked[c0], out'[c0], Len(feed))
  PROVE  Shapes'
<1> SUFFICES ASSUME NEW c \in Conns PROVE Shape(asked'[c], out'[c], Len(feed'))
  BY DEF Shapes
<1>1. Shape(asked[c], out[c], Len(feed)) /\ asked' = asked
  BY DEF Shapes, Touched
<1>2. \/ out'[c] = out[c]
      \/ c = c0 /\ out'[c0] = Append(out[c0], part)
  BY DEF Touched
<1> QED
  BY <1>1, <1>2
--------------------------------------------------------------------------------
(* What the clients of /events are owed. *)

(* Steps that write to no client of /events. *)
LEMMA DeliveringApart ==
  ASSUME Delivering, Structure, BrowserTypes,
         sse_clients' = sse_clients, joined' = joined, feed' = feed,
         \A c \in Conns : asked'[c] = asked[c] \/ asked[c] = "",
         \A k \in 1 .. Len(sse_clients) : Live(k)' =>
           /\ Live(k) /\ (Pending(k)' <=> Pending(k))
           /\ table'[sse_clients[k]] = table[sse_clients[k]],
         \A k \in 1 .. Len(sse_clients) :
           Live(k) /\ peer'[table[sse_clients[k]]] = "here" => Live(k)',
         \A k \in 1 .. Len(sse_clients) : Live(k) =>
           out'[table[sse_clients[k]]] = out[table[sse_clients[k]]],
         \A c \in Conns : peer[c] # "absent" /\ peer'[c] = "here" => peer[c] = "here",
         \A c \in Conns : peer[c] = "absent" => joined[c] = -1
  PROVE  Delivering'
<1>1. /\ \A k \in 1 .. Len(sse_clients) : Live(k) =>
           /\ table[sse_clients[k]] \in Conns /\ peer[table[sse_clients[k]]] # "absent"
           /\ sse_clients[k] \in Fds
  BY ViewerFacts DEF Structure, Places, Connections
<1>2. \A k \in 1 .. Len(sse_clients') : Live(k)' =>
        LET c == table'[sse_clients'[k]]
            owed == IF Pending(k)' THEN 1 ELSE 0
        IN /\ asked'[c] = "events"
           /\ Len(out'[c]) <= Len(feed') + 1 - owed
           /\ peer'[c] = "here" => /\ joined'[c] # -1 /\ out'[c] # <<>>
                                   /\ joined'[c] + Len(out'[c]) - 1 = Len(feed') - owed
  <2> SUFFICES ASSUME NEW k \in 1 .. Len(sse_clients), Live(k)'
               PROVE  LET c == table'[sse_clients[k]]
                          owed == IF Pending(k)' THEN 1 ELSE 0
                      IN /\ asked'[c] = "events"
                         /\ Len(out'[c]) <= Len(feed) + 1 - owed
                         /\ peer'[c] = "here" =>
                              /\ joined[c] # -1 /\ out'[c] # <<>>
                              /\ joined[c] + Len(out'[c]) - 1 = Len(feed) - owed
    OBVIOUS
  <2> DEFINE c == table[sse_clients[k]]
  <2>1. /\ Live(k) /\ (Pending(k)' <=> Pending(k)) /\ table'[sse_clients[k]] = c
        /\ out'[c] = out[c]
    OBVIOUS
  <2>2. c \in Conns /\ peer[c] # "absent"
    BY <1>1, <2>1
  <2>3. LET owed == IF Pending(k) THEN 1 ELSE 0
        IN /\ asked[c] = "events"
           /\ Len(out[c]) <= Len(feed) + 1 - owed
           /\ peer[c] = "here" => /\ joined[c] # -1 /\ out[c] # <<>>
                                  /\ joined[c] + Len(out[c]) - 1 = Len(feed) - owed
    BY <2>1 DEF Delivering
  <2>4. asked'[c] = "events" /\ (peer'[c] = "here" => peer[c] = "here")
    BY <2>2, <2>3
  <2> HIDE DEF c
  <2> QED
    BY <2>1, <2>3, <2>4
<1>3. \A c \in Conns : joined'[c] # -1 =>
        /\ asked'[c] = "events"
        /\ peer'[c] = "here" =>
             \E k \in 1 .. Len(sse_clients') : Live(k)' /\ table'[sse_clients'[k]] = c
  <2> SUFFICES ASSUME NEW c \in Conns, joined[c] # -1
               PROVE  /\ asked'[c] = "events"
                      /\ peer'[c] = "here" =>
                           \E k \in 1 .. Len(sse_clients) :
                             Live(k)' /\ table'[sse_clients[k]] = c
    OBVIOUS
  <2>1. /\ asked[c] = "events"
        /\ peer[c] = "here" =>
             \E k \in 1 .. Len(sse_clients) : Live(k) /\ table[sse_clients[k]] = c
    BY DEF Delivering
  <2>2. asked'[c] = "events" /\ (peer'[c] = "here" => peer[c] = "here")
    BY <2>1
  <2> QED
    BY <2>1, <2>2
<1> QED
  BY <1>2, <1>3 DEF Delivering

\* What holds of the client behind entry k, who is owed so many events.
Served(k, owed) ==
  LET c == table[sse_clients[k]]
  IN /\ asked[c] = "events"
     /\ Len(out[c]) <= Len(feed) + 1 - owed
     /\ peer[c] = "here" => /\ joined[c] # -1 /\ out[c] # <<>>
                            /\ joined[c] + Len(out[c]) - 1 = Len(feed) - owed

LEMMA ServedClients ==
  ASSUME Delivering, Structure
  PROVE  \A k \in 1 .. Len(sse_clients) : Live(k) =>
           /\ Pending(k) => Served(k, 1)
           /\ ~Pending(k) => Served(k, 0)
           /\ sse_clients[k] \in Fds /\ table[sse_clients[k]] \in Conns
           /\ peer[table[sse_clients[k]]] # "absent"
<1>1. ViewerTypes /\ Places /\ Connections
  BY DEF Structure
<1>2. \A k \in 1 .. Len(sse_clients) : Live(k) => sse_clients[k] \in Fds
  BY <1>1, ViewerFacts
<1>3. \A k \in 1 .. Len(sse_clients) : Live(k) => table[sse_clients[k]] \in Conns
  BY <1>1 DEF Places
<1>4. \A k \in 1 .. Len(sse_clients) : Live(k) => peer[table[sse_clients[k]]] # "absent"
  BY <1>1, <1>2, <1>3 DEF Connections
<1>5. \A k \in 1 .. Len(sse_clients) : Live(k) => Served(k, IF Pending(k) THEN 1 ELSE 0)
  BY DEF Delivering, Served
<1> QED
  BY <1>2, <1>3, <1>4, <1>5

(* Two live entries are two connections. *)
LEMMA ApartClients ==
  ASSUME Structure, NEW k \in 1 .. Len(sse_clients), NEW l \in 1 .. Len(sse_clients),
         Live(k), Live(l), table[sse_clients[k]] = table[sse_clients[l]]
  PROVE  k = l
<1>1. ViewerTypes /\ Ownership /\ Places /\ Connections
  BY DEF Structure
<1>2. sse_clients[k] \in Fds /\ sse_clients[l] \in Fds /\ table[sse_clients[k]] \in Conns
  BY <1>1, ViewerFacts DEF Places
<1>3. sse_clients[k] = sse_clients[l]
  BY <1>1, <1>2 DEF Connections
<1> QED
  BY <1>1, <1>3 DEF Ownership

(* One event is written to one client. *)
LEMMA ClientWritten ==
  ASSUME Structure, Delivering, InHand, BrowserTypes, MessageTypes, Shapes,
         mq_event \in WholePart, WriteClient, joined' = joined, feed' = feed
  PROVE  /\ BrowserTypes' /\ Shapes' /\ Delivering'
         /\ Touched(table[sse_clients[index]], mq_event)
         /\ index \in 1 .. Len(sse_clients) /\ Live(index)
<1>1. ViewerTypes /\ Ownership /\ Places /\ Connections
  BY DEF Structure
<1>2. /\ mq_pc = "write" /\ mq_pc' = "write" /\ index > 0 /\ index' = index - 1
      /\ Written(sse_clients[index], mq_event)
      /\ table' = table /\ sse_clients' = sse_clients
  BY DEF WriteClient
<1>3. index \in 1 .. Len(sse_clients) /\ Live(index) /\ Pending(index) /\ index \in Nat
  BY <1>1, <1>2, ViewerFacts DEF Live, Pending
<1> DEFINE c0 == table[sse_clients[index]]
<1>4. /\ c0 \in Conns /\ asked[c0] = "events" /\ Len(out[c0]) <= Len(feed)
      /\ peer[c0] = "here" => /\ joined[c0] # -1 /\ out[c0] # <<>>
                              /\ joined[c0] + Len(out[c0]) - 1 = Len(feed) - 1
  <2>1. Served(index, 1) /\ c0 \in Conns
    BY <1>3, ServedClients
  <2>2. Len(feed) \in Nat
    BY MessageFacts
  <2> QED
    BY <2>1, <2>2 DEF Served
<1>5. BrowserTypes' /\ Touched(c0, mq_event)
  BY <1>2, <1>4, WriteTouches
<1> HIDE DEF c0
<1>6. mq_event.kind = "event"
  <2>1. mq_event = feed[Len(feed)] /\ feed # <<>>
    BY <1>2 DEF InHand
  <2>2. Len(feed) \in 1 .. Len(feed)
    BY <2>1, MessageFacts
  <2> QED
    BY <2>1, <2>2, MessageFacts
<1>7. /\ Len(feed) \in Nat /\ Len(out[c0]) \in Nat /\ joined[c0] \in Int
      /\ (out[c0] = <<>> <=> Len(out[c0]) = 0)
  BY <1>4, MessageFacts, PartFacts
<1>8. ASSUME out'[c0] = Append(out[c0], mq_event)
      PROVE  /\ Len(out'[c0]) = Len(out[c0]) + 1 /\ out'[c0] # <<>>
             /\ \A k \in 1 .. Len(out[c0]) : out'[c0][k] = out[c0][k]
             /\ out'[c0][Len(out[c0]) + 1] = mq_event
  BY <1>4, <1>8, PartAppended
<1>9. Shapes'
  <2>1. ASSUME out'[c0] = Append(out[c0], mq_event)
        PROVE  Shape(asked[c0], out'[c0], Len(feed))
    <3>1. peer[c0] = "here" \/ out'[c0] = out[c0]
      BY <1>5 DEF Touched
    <3>2. Len(out[c0]) # 0
      BY <1>4, <1>7, <1>8, <2>1, <3>1
    <3>3. Shape("events", out[c0], Len(feed))
      BY <1>4 DEF Shapes
    <3>4. \A k \in 1 .. Len(out'[c0]) : out'[c0][k].kind = IF k = 1 THEN "head" ELSE "event"
      <4> SUFFICES ASSUME NEW k \in 1 .. Len(out'[c0])
                   PROVE  out'[c0][k].kind = IF k = 1 THEN "head" ELSE "event"
        OBVIOUS
      <4>1. k \in 1 .. Len(out[c0]) \/ (k = Len(out[c0]) + 1 /\ k # 1)
        BY <1>7, <1>8, <2>1, <3>2
      <4>2. CASE k \in 1 .. Len(out[c0])
        BY <1>8, <2>1, <3>3, <4>2 DEF Shape
      <4>3. CASE k = Len(out[c0]) + 1 /\ k # 1
        BY <1>6, <1>8, <2>1, <4>3
      <4> QED
        BY <4>1, <4>2, <4>3
    <3>5. Len(out'[c0]) <= Len(feed) + 1
      BY <1>4, <1>7, <1>8, <2>1
    <3> QED
      BY <1>4, <3>4, <3>5 DEF Shape
  <2> QED
    BY <1>4, <1>5, <2>1, ShapesTouched
<1>10. Delivering'
  <2>1. \A k : Live(k)' <=> Live(k)
    BY <1>2 DEF Live
  <2>2. ASSUME NEW k \in 1 .. Len(sse_clients), Live(k)
        PROVE  Served(k, IF Pending(k) THEN 1 ELSE 0)'
    <3>1. k \in Nat
      BY <1>1, ViewerFacts
    <3>2. CASE k = index
      <4>1. ~Pending(k)'
        BY <1>2, <1>3, <3>2 DEF Pending
      <4>2. /\ asked'[c0] = "events" /\ Len(out'[c0]) <= Len(feed) + 1
            /\ peer'[c0] = "here" => /\ joined[c0] # -1 /\ out'[c0] # <<>>
                                     /\ joined[c0] + Len(out'[c0]) - 1 = Len(feed)
        <5>1. CASE peer[c0] = "here" /\ out'[c0] = Append(out[c0], mq_event)
          <6>1. asked' = asked /\ Len(out'[c0]) = Len(out[c0]) + 1 /\ out'[c0] # <<>>
            BY <1>5, <1>8, <5>1 DEF Touched
          <6>2. joined[c0] # -1 /\ joined[c0] + Len(out[c0]) - 1 = Len(feed) - 1
            BY <1>4, <5>1
          <6>3. Len(out[c0]) <= Len(feed)
            BY <1>4
          <6>4. Len(out'[c0]) <= Len(feed) + 1
            BY <1>7, <6>1, <6>3
          <6>5. joined[c0] + Len(out'[c0]) - 1 = Len(feed)
            BY <1>7, <6>1, <6>2
          <6> QED
            BY <1>4, <6>1, <6>2, <6>4, <6>5
        <5>2. CASE peer'[c0] # "here" /\ out'[c0] = out[c0]
          BY <1>4, <1>5, <1>7, <5>2 DEF Touched
        <5> QED
          BY <1>5, <5>1, <5>2 DEF Touched
      <4>3. Served(k, 0)'
        BY <1>2, <1>7, <3>2, <4>2 DEF Served, c0
      <4> QED
        BY <4>1, <4>3
    <3>3. CASE k # index
      <4>1. Pending(k)' <=> Pending(k)
        BY <1>2, <1>3, <3>1, <3>3 DEF Pending
      <4> DEFINE c == table[sse_clients[k]]
      <4>2. c \in Conns /\ c # c0 /\ Served(k, IF Pending(k) THEN 1 ELSE 0)
        BY <1>3, <2>2, <3>3, ServedClients, ApartClients DEF c0
      <4>3. asked'[c] = asked[c] /\ out'[c] = out[c] /\ peer'[c] = peer[c]
        BY <1>5, <4>2 DEF Touched
      <4>4. Served(k, IF Pending(k) THEN 1 ELSE 0)' <=> Served(k, IF Pending(k)' THEN 1 ELSE 0)
        BY <1>2, <4>3 DEF Served
      <4> QED
        BY <4>1, <4>2, <4>4
    <3> QED
      BY <3>2, <3>3
  <2>3. ASSUME NEW c \in Conns, joined'[c] # -1
        PROVE  /\ asked'[c] = "events"
               /\ peer'[c] = "here" =>
                    \E k \in 1 .. Len(sse_clients) : Live(k) /\ table[sse_clients[k]] = c
    <3>1. asked'[c] = asked[c] /\ (peer'[c] = "here" => peer[c] = "here")
      BY <1>5 DEF Touched
    <3> QED
      BY <2>3, <3>1 DEF Delivering
  <2>4. \A k \in 1 .. Len(sse_clients') : Live(k)' =>
          Served(k, IF Pending(k) THEN 1 ELSE 0)'
    BY <1>2, <2>1, <2>2
  <2>5. \A c \in Conns : joined'[c] # -1 =>
          /\ asked'[c] = "events"
          /\ peer'[c] = "here" =>
               \E k \in 1 .. Len(sse_clients') : Live(k)' /\ table'[sse_clients'[k]] = c
    BY <1>2, <2>1, <2>3
  <2> QED
    BY <2>4, <2>5 DEF Delivering, Served
<1> QED
  BY <1>3, <1>5, <1>9, <1>10 DEF c0

(* The entry of a closed connection is erased. *)
LEMMA DeliveringErased ==
  ASSUME Structure, Delivering, EraseClient, joined' = joined, feed' = feed
  PROVE  Delivering'
<1>1. ViewerTypes
  BY DEF Structure
<1>2. /\ mq_pc = "erase" /\ mq_pc' = "write" /\ index' = index - 1
      /\ peer' = peer /\ asked' = asked /\ out' = out /\ table' = table
      /\ \A k \in 1 .. Len(sse_clients') :
           /\ Live(k)' /\ Before(k) \in 1 .. Len(sse_clients) /\ Live(Before(k))
           /\ sse_clients'[k] = sse_clients[Before(k)]
      /\ \A k \in 1 .. Len(sse_clients) : Live(k) =>
           \E l \in 1 .. Len(sse_clients') : Before(l) = k
      /\ Len(sse_clients') \in Nat /\ index \in Nat
  BY <1>1, ErasedEntries, ViewerFacts, LenProperties DEF browserVars
<1>3. ASSUME NEW k \in 1 .. Len(sse_clients')
      PROVE  Served(k, IF Pending(k) THEN 1 ELSE 0)'
  <2>1. /\ Before(k) \in 1 .. Len(sse_clients) /\ Live(Before(k))
        /\ sse_clients'[k] = sse_clients[Before(k)]
    BY <1>2
  <2>2. k \in Int
    BY <1>2
  <2>3. Pending(k)' <=> Pending(Before(k))
    BY <1>2, <2>2 DEF Pending, Before
  <2>4. Served(Before(k), IF Pending(Before(k)) THEN 1 ELSE 0)
    BY <2>1, ServedClients
  <2> DEFINE b == Before(k)
  <2> HIDE DEF b
  <2>5. ASSUME NEW owed, Served(b, owed), sse_clients'[k] = sse_clients[b]
        PROVE  Served(k, owed)'
    BY <1>2, <2>5 DEF Served
  <2>6. CASE Pending(b)
    BY <2>1, <2>3, <2>4, <2>5, <2>6 DEF b
  <2>7. CASE ~Pending(b)
    BY <2>1, <2>3, <2>4, <2>5, <2>7 DEF b
  <2> QED
    BY <2>6, <2>7
<1>4. ASSUME NEW c \in Conns, joined'[c] # -1
      PROVE  /\ asked'[c] = "events"
             /\ peer'[c] = "here" =>
                  \E k \in 1 .. Len(sse_clients') : Live(k)' /\ table'[sse_clients'[k]] = c
  <2>1. /\ asked[c] = "events"
        /\ peer[c] = "here" =>
             \E k \in 1 .. Len(sse_clients) : Live(k) /\ table[sse_clients[k]] = c
    BY <1>4 DEF Delivering
  <2> QED
    BY <1>2, <2>1
<1> QED
  BY <1>3, <1>4 DEF Delivering, Served

(* A new event is owed to everybody. *)
LEMMA DeliveringNew ==
  ASSUME Structure, Delivering, BrowserTypes, MessageTypes, OnMessage, Len(feed') = Len(feed) + 1
  PROVE  Delivering'
<1>1. ViewerTypes
  BY DEF Structure
<1>2. /\ mq_pc = "idle" /\ mq_pc' = "write" /\ index' = Len(sse_clients)
      /\ peer' = peer /\ asked' = asked /\ out' = out /\ table' = table
      /\ sse_clients' = sse_clients /\ joined' = joined
  BY DEF OnMessage, Receive, browserVars
<1>3. \A k : Live(k)' <=> Live(k)
  BY <1>2 DEF Live
<1>4. ASSUME NEW k \in 1 .. Len(sse_clients), Live(k)
      PROVE  Served(k, IF Pending(k) THEN 1 ELSE 0)'
  <2>1. Pending(k)' /\ ~Pending(k)
    BY <1>1, <1>2, ViewerFacts DEF Pending
  <2>2. Served(k, 0) /\ table[sse_clients[k]] \in Conns
    BY <1>4, <2>1, ServedClients
  <2>3. Len(feed) \in Nat /\ Len(out[table[sse_clients[k]]]) \in Nat
        /\ joined[table[sse_clients[k]]] \in Int
    BY <2>2, MessageFacts, PartFacts
  <2>4. Served(k, 1)'
    BY <1>2, <2>2, <2>3 DEF Served
  <2> QED
    BY <2>1, <2>4
<1>5. \A k \in 1 .. Len(sse_clients') : Live(k)' => Served(k, IF Pending(k) THEN 1 ELSE 0)'
  BY <1>2, <1>3, <1>4
<1>6. \A c \in Conns : joined'[c] # -1 =>
        /\ asked'[c] = "events"
        /\ peer'[c] = "here" =>
             \E k \in 1 .. Len(sse_clients') : Live(k)' /\ table'[sse_clients'[k]] = c
  BY <1>2, <1>3 DEF Delivering
<1> QED
  BY <1>5, <1>6 DEF Delivering, Served

(* A client that is registered is owed what is broadcast from now on. *)
LEMMA DeliveringRegistered ==
  ASSUME Structure, Delivering, Answering, BrowserTypes, MessageTypes, Register, HttpStep
  PROVE  Delivering'
<1>1. ViewerTypes /\ Ownership /\ Places /\ Connections
  BY DEF Structure
<1>2. /\ http_pc = "register" /\ mq_pc \notin {"write", "erase"} /\ mq_pc' = mq_pc
      /\ sse_clients' = Append(sse_clients, http_fd)
      /\ index' = index /\ peer' = peer /\ asked' = asked /\ out' = out /\ table' = table
  BY DEF Register, sse_mtx_held, browserVars, mqttVars
<1>3. http_fd # 0 /\ http_fd \in Fds /\ table[http_fd] \in Conns
  BY <1>1, <1>2, ViewerFacts DEF Places
<1> DEFINE n == Len(sse_clients)
           c0 == table[http_fd]
<1>4. /\ n \in Nat /\ Len(sse_clients') = n + 1
      /\ \A k \in 1 .. n : sse_clients'[k] = sse_clients[k]
      /\ sse_clients'[n + 1] = http_fd
  BY <1>1, <1>2, <1>3, ViewerFacts, AppendProperties
<1>5. /\ feed' = feed
      /\ joined' = IF peer[c0] = "here" THEN [joined EXCEPT ![c0] = Len(feed)] ELSE joined
  <2>1. Len(sse_clients') > Len(sse_clients)
    BY <1>4
  <2> QED
    BY <2>1 DEF HttpStep
<1> PICK m \in Nat : m = n + 1
  BY <1>4
<1>6. /\ Len(sse_clients') = m /\ m \in 1 .. m /\ sse_clients'[m] = http_fd
      /\ \A k \in 1 .. m : k \in 1 .. n \/ k = m
      /\ \A k \in 1 .. n : k \in 1 .. m /\ k # m
  BY <1>4
<1>7. /\ \A k \in 1 .. n : Live(k)
      /\ \A k \in 1 .. m : Live(k)' /\ ~Pending(k)'
      /\ \A k : ~Pending(k)
  BY <1>2, <1>4 DEF Live, Pending
<1>8. /\ joined \in [Conns -> Int] /\ Len(feed) \in Nat /\ c0 \in Conns
      /\ asked[c0] = "events"
      /\ Len(out[c0]) \in Nat /\ Len(out[c0]) <= 1
      /\ peer[c0] = "here" => Len(out[c0]) = 1 /\ out[c0] # <<>>
  <2>1. \/ Len(out[c0]) = 1
        \/ out[c0] = <<>> /\ peer[c0] # "here"
    BY <1>2, <1>3 DEF Answering, AtMain, HeadOnly, Client
  <2>2. asked[c0] = "events"
    BY <1>2, <1>3 DEF Answering, AtMain, Client
  <2>3. Len(out[c0]) \in Nat /\ (out[c0] = <<>> <=> Len(out[c0]) = 0)
    BY <1>3, PartFacts
  <2> HIDE DEF c0
  <2>4. Len(out[c0]) <= 1
    <3>1. CASE Len(out[c0]) = 1
      BY <3>1
    <3>2. CASE out[c0] = <<>>
      <4>1. Len(out[c0]) = 0
        BY <2>3, <3>2
      <4> QED
        BY <4>1
    <3> QED
      BY <2>1, <3>1, <3>2
  <2>5. peer[c0] = "here" => Len(out[c0]) = 1
    BY <2>1
  <2>6. peer[c0] = "here" => out[c0] # <<>>
    BY <2>3, <2>5
  <2> QED
    BY <1>3, <2>2, <2>3, <2>4, <2>5, <2>6, MessageFacts DEF MessageTypes, c0
<1> HIDE DEF n, c0
<1>9. ASSUME NEW k \in 1 .. n
      PROVE  Served(k, 0)' /\ table[sse_clients[k]] # c0
  <2>1. Served(k, 0) /\ sse_clients[k] \in Fds /\ table[sse_clients[k]] \in Conns
    BY <1>7, ServedClients DEF n
  <2>2. sse_clients[k] # http_fd
    BY <1>1, <1>7 DEF Ownership, n
  <2>3. table[sse_clients[k]] # c0
    BY <1>1, <1>3, <2>1, <2>2 DEF Connections, c0
  <2>4. joined'[table[sse_clients[k]]] = joined[table[sse_clients[k]]]
    BY <1>5, <1>8, <2>1, <2>3
  <2>5. Served(k, 0)'
    BY <1>2, <1>4, <1>5, <2>1, <2>4 DEF Served
  <2> QED
    BY <2>3, <2>5
<1>10. Served(m, 0)'
  <2>1. peer[c0] = "here" => joined'[c0] = Len(feed)
    BY <1>5, <1>8
  <2>2. ASSUME NEW owed, owed = 0
        PROVE  /\ Len(out[c0]) <= Len(feed) + 1 - owed
               /\ peer[c0] = "here" => /\ joined'[c0] # -1 /\ out[c0] # <<>>
                                       /\ joined'[c0] + Len(out[c0]) - 1 = Len(feed) - owed
    BY <1>8, <2>1, <2>2
  <2>3. table'[sse_clients'[m]] = c0
    BY <1>2, <1>6 DEF c0
  <2>4. asked'[c0] = "events" /\ peer' = peer /\ out' = out /\ feed' = feed
    BY <1>2, <1>5, <1>8
  <2>5. ASSUME NEW owed, owed = 0
        PROVE  Served(m, owed)'
    BY <2>2, <2>3, <2>4, <2>5 DEF Served
  <2> QED
    BY <2>5
<1>11. \A k \in 1 .. Len(sse_clients') : Live(k)' => Served(k, IF Pending(k) THEN 1 ELSE 0)'
  <2> SUFFICES ASSUME NEW k \in 1 .. m
               PROVE  Served(k, IF Pending(k) THEN 1 ELSE 0)'
    BY <1>6
  <2>1. Served(k, 0)'
    BY <1>6, <1>9, <1>10
  <2>2. ~Pending(k)'
    BY <1>7
  <2> QED
    BY <2>1, <2>2
<1>12. ASSUME NEW c \in Conns, joined'[c] # -1
       PROVE  /\ asked'[c] = "events"
              /\ peer'[c] = "here" =>
                   \E k \in 1 .. Len(sse_clients') : Live(k)' /\ table'[sse_clients'[k]] = c
  <2>1. CASE c = c0
    <3>1. m \in 1 .. Len(sse_clients') /\ Live(m)' /\ table'[sse_clients'[m]] = c
      BY <1>2, <1>6, <1>7, <2>1 DEF c0
    <3>2. asked'[c] = "events"
      BY <1>2, <1>8, <2>1
    <3> QED
      BY <3>1, <3>2
  <2>2. CASE c # c0
    <3>1. joined[c] # -1
      BY <1>5, <1>8, <1>12, <2>2
    <3>2. /\ asked[c] = "events"
          /\ peer[c] = "here" => \E k \in 1 .. n : table[sse_clients[k]] = c
      BY <3>1 DEF Delivering, n
    <3> QED
      BY <1>2, <1>4, <1>6, <1>7, <3>2 DEF n
  <2> QED
    BY <2>1, <2>2
<1> QED
  BY <1>11, <1>12 DEF Delivering, Served
--------------------------------------------------------------------------------
(* What main has written. *)

\* The connection is not opened, waits, or belongs to a video thread.
Idle(c) == \/ peer[c] = "absent"
           \/ \E k \in 1 .. Len(backlog) : backlog[k] = c
           \/ \E fd \in streams : table[fd] = c

(* main's connection is no idle one and no client of /events. *)
LEMMA ClientApart ==
  ASSUME Structure, http_fd # 0
  PROVE  /\ http_fd \in Fds /\ Client \in Conns /\ peer[Client] # "absent" /\ ~Idle(Client)
         /\ \A k \in 1 .. Len(sse_clients) : Live(k) => table[sse_clients[k]] # Client
<1>1. ViewerTypes /\ Ownership /\ Places /\ Connections
  BY DEF Structure
<1>2. http_fd \in Fds /\ Client \in Conns
  BY <1>1, ViewerFacts DEF Places, Client
<1>3. peer[Client] # "absent" /\ \A k \in 1 .. Len(backlog) : backlog[k] # Client
  BY <1>1, <1>2 DEF Connections, Client
<1>4. \A fd \in Fds : table[fd] = Client => fd = http_fd
  BY <1>1, <1>2 DEF Connections, Client
<1>5. \A fd \in streams : table[fd] # Client
  BY <1>1, <1>4, ViewerFacts DEF Ownership
<1>6. \A k \in 1 .. Len(sse_clients) : Live(k) => table[sse_clients[k]] # Client
  BY <1>1, <1>4, ViewerFacts DEF Ownership
<1> QED
  BY <1>2, <1>3, <1>5, <1>6 DEF Idle

(* Nor is a client of /events. *)
LEMMA ListenerApart ==
  ASSUME Structure, NEW k \in 1 .. Len(sse_clients), Live(k)
  PROVE  /\ sse_clients[k] \in Fds /\ table[sse_clients[k]] \in Conns
         /\ peer[table[sse_clients[k]]] # "absent"
         /\ ~Idle(table[sse_clients[k]])
         /\ http_fd # 0 => table[sse_clients[k]] # Client
<1> DEFINE c == table[sse_clients[k]]
<1>1. ViewerTypes /\ Ownership /\ Places /\ Connections
  BY DEF Structure
<1>2. sse_clients[k] \in Fds /\ c \in Conns
  BY <1>1, ViewerFacts DEF Places
<1>3. peer[c] # "absent" /\ \A l \in 1 .. Len(backlog) : backlog[l] # c
  BY <1>1, <1>2 DEF Connections
<1>4. \A fd \in Fds : table[fd] = c => fd = sse_clients[k]
  BY <1>1, <1>2 DEF Connections
<1>5. \A fd \in streams : table[fd] # c
  BY <1>1, <1>4, ViewerFacts DEF Ownership
<1>6. ~Idle(c)
  BY <1>3, <1>5 DEF Idle
<1> QED
  BY <1>2, <1>3, <1>6, ClientApart

LEMMA NotYetKept ==
  ASSUME NotYet, ViewerTypes,
         \A c \in Conns : peer'[c] = "absent" => peer[c] = "absent",
         \A k \in 1 .. Len(backlog') :
           /\ backlog'[k] \in Conns
           /\ \/ \E l \in 1 .. Len(backlog) : backlog'[k] = backlog[l]
              \/ peer[backlog'[k]] = "absent",
         \A fd \in streams' :
           \/ fd \in streams /\ table'[fd] = table[fd]
           \/ /\ out'[table'[fd]] = <<>> /\ joined'[table'[fd]] = -1
              /\ asked'[table'[fd]] = "stream",
         Places,
         \A c \in Conns : Idle(c) => out'[c] = out[c] /\ joined'[c] = joined[c],
         \A c \in Conns : asked[c] = "stream" => asked'[c] = "stream"
  PROVE  NotYet'
<1>1. \A c \in Conns : Idle(c) => out'[c] = <<>> /\ joined'[c] = -1
  <2> SUFFICES ASSUME NEW c \in Conns, Idle(c) PROVE out'[c] = <<>> /\ joined'[c] = -1
    OBVIOUS
  <2>1. CASE peer[c] = "absent"
    BY <2>1 DEF NotYet, Unanswered
  <2>2. CASE \E k \in 1 .. Len(backlog) : backlog[k] = c
    BY <2>2 DEF NotYet, Unanswered
  <2>3. CASE \E fd \in streams : table[fd] = c
    BY <2>3 DEF NotYet, Unanswered
  <2> QED
    BY <2>1, <2>2, <2>3 DEF Idle
<1>2. \A c \in Conns : peer'[c] = "absent" => out'[c] = <<>> /\ joined'[c] = -1
  BY <1>1 DEF Idle
<1>3. \A k \in 1 .. Len(backlog') : out'[backlog'[k]] = <<>> /\ joined'[backlog'[k]] = -1
  BY <1>1 DEF Idle
<1>4. \A fd \in streams' : /\ out'[table'[fd]] = <<>> /\ joined'[table'[fd]] = -1
                           /\ asked'[table'[fd]] = "stream"
  <2> SUFFICES ASSUME NEW fd \in streams'
               PROVE  /\ out'[table'[fd]] = <<>> /\ joined'[table'[fd]] = -1
                      /\ asked'[table'[fd]] = "stream"
    OBVIOUS
  <2>1. CASE fd \in streams /\ table'[fd] = table[fd]
    <3>1. table[fd] \in Conns /\ Idle(table[fd]) /\ asked[table[fd]] = "stream"
      BY <2>1 DEF Places, Idle, NotYet
    <3> QED
      BY <1>1, <2>1, <3>1
  <2> QED
    BY <2>1
<1> QED
  BY <1>2, <1>3, <1>4 DEF NotYet, Unanswered

LEMMA AtMainKept ==
  ASSUME AtMain, Structure, http_fd' = http_fd, http_pc' = http_pc,
         http_fd # 0 => /\ table'[http_fd] = table[http_fd]
                        /\ out'[Client] = out[Client] /\ joined'[Client] = joined[Client]
                        /\ peer'[Client] = "here" => peer[Client] = "here"
                        /\ asked'[Client] = asked[Client] \/ asked[Client] = ""
  PROVE  AtMain'
<1>1. CASE http_fd = 0
  BY <1>1 DEF AtMain
<1>2. CASE http_fd # 0
  <2> DEFINE c == table[http_fd]
  <2>1. /\ joined[c] = -1
        /\ http_pc \notin {"image", "register"} => out[c] = <<>>
        /\ http_pc \in {"image", "register"} =>
             (Len(out[c]) = 1 /\ out[c][1].kind = "head") \/ (out[c] = <<>> /\ peer[c] # "here")
        /\ http_pc \in Requests => asked[c] = http_pc
        /\ http_pc \in {"error", "head", "image"} => asked[c] = "snapshot"
        /\ http_pc = "register" => asked[c] = "events"
    BY <1>2 DEF AtMain, Client, HeadOnly
  <2>2. /\ table'[http_fd'] = c /\ out'[c] = out[c] /\ joined'[c] = joined[c]
        /\ peer'[c] = "here" => peer[c] = "here"
        /\ asked[c] # "" => asked'[c] = asked[c]
    BY <1>2 DEF Client
  <2> HIDE DEF c
  <2>3. /\ joined'[c] = -1
        /\ http_pc' \notin {"image", "register"} => out'[c] = <<>>
        /\ http_pc' \in {"image", "register"} =>
             (Len(out'[c]) = 1 /\ out'[c][1].kind = "head") \/ (out'[c] = <<>> /\ peer'[c] # "here")
        /\ http_pc' \in Requests => asked'[c] = http_pc'
        /\ http_pc' \in {"error", "head", "image"} => asked'[c] = "snapshot"
        /\ http_pc' = "register" => asked'[c] = "events"
    BY <2>1, <2>2 DEF Requests
  <2> QED
    BY <2>2, <2>3 DEF AtMain, Client, HeadOnly
<1> QED
  BY <1>1, <1>2

(* Back in accept, main answers nobody. *)
LEMMA AtMainDone ==
  ASSUME BackToAccept
  PROVE  AtMain'
BY DEF AtMain, BackToAccept
--------------------------------------------------------------------------------
(* The steps. *)

LEMMA DeliveryFacts ==
  ASSUME DeliveryInv
  PROVE  /\ BrowserTypes /\ ViewerTypes /\ MessageTypes /\ Structure
         /\ Places /\ NotYet /\ AtMain /\ Answering /\ Shapes /\ InHand /\ Delivering
BY DEF DeliveryInv, Structure, Answering

(* A message is formatted and published, and the connection to the broker comes
   and goes: the viewer sees nothing of it. *)
LEMMA ViewerRests ==
  ASSUME DeliveryInv,
         UNCHANGED <<browserVars, backlog, table, httpVars, sse_clients, mq_event, index,
                     feed, joined>>,
         \/ mq_pc' = mq_pc
         \/ mq_pc = "connect" /\ mq_pc' \in {"idle", "exited"},
         MessageTypes'
  PROVE  DeliveryInv'
<1>1. /\ peer' = peer /\ asked' = asked /\ out' = out /\ taken' = taken
      /\ backlog' = backlog /\ table' = table /\ sse_clients' = sse_clients
      /\ http_pc' = http_pc /\ http_fd' = http_fd /\ http_file' = http_file
      /\ streams' = streams /\ index' = index /\ mq_event' = mq_event
      /\ feed' = feed /\ joined' = joined
  BY DEF browserVars, httpVars
<1>2. /\ \A k : Live(k)' <=> Live(k)
      /\ \A k : Pending(k)' <=> Pending(k)
  BY <1>1 DEF Live, Pending
<1>3. BrowserTypes'
  BY <1>1, DeliveryFacts DEF BrowserTypes
<1>4. Structure'
  <2>1. ViewerTypes'
    BY <1>1, DeliveryFacts DEF ViewerTypes
  <2> QED
    BY <1>1, <2>1, DeliveryFacts, StructureSame
<1>5. NotYet' /\ AtMain'
  <2>1. NotYet'
    BY <1>1, DeliveryFacts DEF NotYet, Unanswered
  <2>2. AtMain'
    BY <1>1, DeliveryFacts, AtMainKept
  <2> QED
    BY <2>1, <2>2
<1>6. Shapes'
  BY <1>1, DeliveryFacts DEF Shapes
<1>7. InHand'
  BY <1>1, DeliveryFacts DEF InHand
<1>8. Delivering'
  <2>1. \A c \in Conns : peer[c] = "absent" => joined[c] = -1
    BY DeliveryFacts DEF NotYet, Unanswered
  <2> QED
    BY <1>1, <1>2, <2>1, DeliveryFacts, DeliveringApart
<1> QED
  BY <1>3, <1>4, <1>5, <1>6, <1>7, <1>8 DEF DeliveryInv, Structure, Answering

LEMMA FormatDelivers ==
  ASSUME DeliveryInv, WholeInv, FormatMessage
  PROVE  DeliveryInv'
<1>1. /\ Format /\ published < MaxMessages
      /\ UNCHANGED <<serverVars, deliveryVars>>
  BY DEF FormatMessage
<1>2. /\ UNCHANGED <<browserVars, backlog, table, httpVars, sse_clients, mq_pc, mq_event,
                     index, feed, joined, link, published, incoming>>
  BY <1>1 DEF serverVars, deliveryVars, mqttVars
<1>3. offset' \in Nat /\ raw_pc' \in {"idle", "objects", "tail", "publish"}
  BY <1>1, FormatKeepsMargins DEF WholeInv
<1>4. i' \in 0 .. MaxObjects
  <2>1. i \in Nat /\ i <= MaxObjects /\ MaxObjects \in Nat
    BY PayloadAssumption, DeliveryFacts DEF MessageTypes
  <2>2. i' = 0 \/ i' = i \/ (i < MaxObjects /\ i' = i + 1)
    BY <1>1 DEF Format, RawHead, RawObject, RawTail
  <2> QED
    BY <2>1, <2>2
<1>5. MessageTypes'
  BY <1>1, <1>2, <1>3, <1>4, DeliveryFacts DEF MessageTypes, Message, Event
<1> QED
  BY <1>2, <1>5, ViewerRests

LEMMA PublishDelivers ==
  ASSUME DeliveryInv, WholeInv, PublishMessage
  PROVE  DeliveryInv'
<1>1. /\ raw_pc = "publish" /\ raw_pc' = "idle" /\ offset' = 0 /\ published' = published + 1
      /\ i' \in {0, i}
      /\ UNCHANGED <<browserVars, backlog, table, httpVars, sse_clients, mq_pc, mq_event,
                     index, feed, joined, link>>
  BY DEF PublishMessage, RawPublish
<1>2. /\ published \in Nat /\ MaxMessages \in Nat /\ published < MaxMessages
      /\ i \in 0 .. MaxObjects /\ Len(incoming) \in Nat /\ Len(feed) \in Nat
      /\ incoming \in Seq(Message) /\ Len(feed) + Len(incoming) <= published
      /\ published \in 0 .. MaxMessages
  BY <1>1, DeliveryFacts, MessageFacts, DeliveryAssumption DEF MessageTypes
<1>3. published' \in 1 .. MaxMessages
  BY <1>1, <1>2
<1> DEFINE message == [id |-> published', size |-> MessageLength,
                       whole |-> MessageLength = offset]
<1>4. message \in Message
  <2>1. MessageLength \in Nat
    <3>1. PayloadWhole
      BY MarginsSuffice DEF WholeInv
    <3> QED
      BY <1>1, <3>1 DEF PayloadWhole, WholeInv
  <2> QED
    BY <1>3, <2>1 DEF Message
<1>5. incoming' = Append(incoming, message) \/ incoming' = incoming
  BY DEF PublishMessage
<1> HIDE DEF message
<1>6. incoming' \in Seq(Message) /\ Len(incoming') <= Len(incoming) + 1 /\ Len(incoming') \in Nat
  <2>1. CASE incoming' = incoming
    BY <1>2, <2>1
  <2>2. CASE incoming' = Append(incoming, message)
    BY <1>2, <1>4, <2>2, AppendProperties
  <2> QED
    BY <1>5, <2>1, <2>2
<1>7. Len(feed) + Len(incoming') <= published'
  BY <1>1, <1>2, <1>6
<1>8. MessageTypes'
  <2>1. 0 \in 0 .. MaxObjects /\ published' \in 0 .. MaxMessages
    BY <1>2, <1>3, PayloadAssumption
  <2> QED
    BY <1>1, <1>2, <1>6, <1>7, <2>1, DeliveryFacts DEF MessageTypes, Message, Event
<1> QED
  BY <1>1, <1>8, ViewerRests

LEMMA LinkDelivers ==
  ASSUME DeliveryInv, MqttConnect \/ LinkLost \/ UNCHANGED vars
  PROVE  DeliveryInv'
<1>1. /\ UNCHANGED <<raw_pc, i, offset, browserVars, backlog, table, httpVars, sse_clients,
                     mq_event, index, feed, joined, published, incoming>>
      /\ link' \in {link, "subscribed", "deaf"}
      /\ \/ mq_pc' = mq_pc
         \/ mq_pc = "connect" /\ mq_pc' \in {"idle", "exited"}
  BY DEF MqttConnect, LinkLost, vars, payloadVars, serverVars, mqttVars, deliveryVars
<1>2. MessageTypes'
  BY <1>1, DeliveryFacts DEF MessageTypes, Message, Event
<1> QED
  BY <1>1, <1>2, ViewerRests

(* on_message: the event is the next of the feed. *)
LEMMA OnMessageDelivers ==
  ASSUME DeliveryInv, OnMessage
  PROVE  DeliveryInv'
<1>1. /\ peer' = peer /\ asked' = asked /\ out' = out /\ taken' = taken
      /\ backlog' = backlog /\ table' = table /\ sse_clients' = sse_clients
      /\ http_pc' = http_pc /\ http_fd' = http_fd /\ http_file' = http_file
      /\ streams' = streams /\ joined' = joined /\ link' = link /\ published' = published
      /\ raw_pc' = raw_pc /\ i' = i /\ offset' = offset
      /\ mq_pc = "idle" /\ mq_pc' = "write" /\ index' = Len(sse_clients)
      /\ incoming # <<>> /\ incoming' = Tail(incoming) /\ feed' = Append(feed, mq_event')
  BY DEF OnMessage, Receive, browserVars, httpVars, payloadVars
<1>2. /\ incoming \in Seq(Message) /\ Len(incoming) \in Nat /\ feed \in Seq(Event)
      /\ Len(feed) \in Nat
  BY DeliveryFacts, MessageFacts
<1>3. /\ Head(incoming) \in Message /\ incoming' \in Seq(Message)
      /\ Len(incoming') = Len(incoming) - 1 /\ Len(incoming) >= 1
  BY <1>1, <1>2, HeadTailProperties, EmptySeq
<1>4. mq_event' \in Event
  <2>1. PICK message \in Message : message = Head(incoming)
    BY <1>3
  <2>2. mq_event' = [kind |-> "event", id |-> message.id,
                     whole |-> message.whole /\ Received(message.size) = message.size
                               /\ FitsEvent(Received(message.size))]
    BY <2>1 DEF OnMessage, Receive
  <2>3. (message.whole /\ Received(message.size) = message.size
           /\ FitsEvent(Received(message.size))) \in BOOLEAN
    OBVIOUS
  <2>4. message.id \in 1 .. MaxMessages
    BY DEF Message
  <2> QED
    BY <2>2, <2>3, <2>4, Zenon DEF Event
<1>5. /\ feed' \in Seq(Event) /\ Len(feed') = Len(feed) + 1
      /\ feed'[Len(feed')] = mq_event' /\ feed' # <<>>
  <2> DEFINE e == mq_event'
             longer == Append(feed, e)
  <2>1. /\ longer \in Seq(Event) /\ Len(longer) = Len(feed) + 1
        /\ longer[Len(feed) + 1] = e
    BY <1>2, <1>4, AppendProperties
  <2>2. longer # <<>>
    BY <1>2, <2>1, EmptySeq
  <2> QED
    BY <1>1, <2>1, <2>2
<1>6. MessageTypes'
  <2>1. \A c \in Conns : joined[c] >= -1 /\ joined[c] <= Len(feed')
    BY <1>2, <1>5, DeliveryFacts, MessageFacts
  <2>2. Len(feed') + Len(incoming') <= published'
    BY <1>1, <1>2, <1>3, <1>5, DeliveryFacts DEF MessageTypes
  <2> QED
    BY <1>1, <1>3, <1>5, <2>1, <2>2, DeliveryFacts DEF MessageTypes, Message, Event
<1>7. BrowserTypes'
  BY <1>1, DeliveryFacts DEF BrowserTypes
<1>8. Structure'
  <2>1. index' \in 0 .. Len(sse_clients')
    BY <1>1, DeliveryFacts, ViewerFacts
  <2>2. ViewerTypes'
    BY <1>1, <2>1, DeliveryFacts DEF ViewerTypes
  <2> QED
    BY <1>1, <2>2, DeliveryFacts, StructureSame
<1>9. NotYet' /\ AtMain'
  <2>1. NotYet'
    BY <1>1, DeliveryFacts DEF NotYet, Unanswered
  <2>2. AtMain'
    BY <1>1, DeliveryFacts, AtMainKept
  <2> QED
    BY <2>1, <2>2
<1>10. Shapes'
  <2>1. Len(feed') \in Nat /\ Len(feed) <= Len(feed')
    BY <1>2, <1>5
  <2> QED
    BY <1>1, <2>1, DeliveryFacts, ShapesSame
<1>11. InHand'
  BY <1>5 DEF InHand
<1>12. Delivering'
  BY <1>5, DeliveryFacts, DeliveringNew
<1> QED
  BY <1>6, <1>7, <1>8, <1>9, <1>10, <1>11, <1>12 DEF DeliveryInv, Structure, Answering

(* Steps of the MQTT thread and of a video thread that write nothing. *)
LEMMA ClosingDelivers ==
  ASSUME DeliveryInv, Structure', Delivering',
         UNCHANGED <<browserVars, backlog, http_pc, http_fd, incoming, mq_event, payloadVars,
                     deliveryVars>>,
         streams' \subseteq streams,
         \A fd \in streams' : table'[fd] = table[fd],
         http_fd # 0 => table'[http_fd] = table[http_fd],
         mq_pc' \in {"write", "erase"} => mq_pc \in {"write", "erase"}
  PROVE  DeliveryInv'
<1>1. /\ peer' = peer /\ asked' = asked /\ out' = out /\ taken' = taken
      /\ backlog' = backlog /\ http_pc' = http_pc /\ http_fd' = http_fd
      /\ mq_event' = mq_event /\ incoming' = incoming
      /\ feed' = feed /\ joined' = joined /\ link' = link /\ published' = published
      /\ raw_pc' = raw_pc /\ i' = i /\ offset' = offset
  BY DEF browserVars, payloadVars, deliveryVars
<1>2. BrowserTypes'
  BY <1>1, DeliveryFacts DEF BrowserTypes
<1>3. MessageTypes'
  BY <1>1, DeliveryFacts DEF MessageTypes, Message, Event
<1>4. NotYet'
  BY <1>1, DeliveryFacts DEF NotYet, Unanswered
<1>5. AtMain'
  BY <1>1, DeliveryFacts, AtMainKept
<1>6. Shapes'
  BY <1>1, DeliveryFacts DEF Shapes
<1>7. InHand'
  BY <1>1, DeliveryFacts DEF InHand
<1> QED
  BY <1>2, <1>3, <1>4, <1>5, <1>6, <1>7 DEF DeliveryInv, Structure, Answering

(* sse_broadcast: a write, a descriptor closed, an entry erased, the end. *)
LEMMA BroadcastDelivers ==
  ASSUME DeliveryInv, WholeInv, SseBroadcast
  PROVE  DeliveryInv'
<1>0. /\ UNCHANGED <<payloadVars, deliveryVars, mqttOnly>>
      /\ feed' = feed /\ joined' = joined
  BY DEF SseBroadcast, Broadcast, WriteClient, CloseClient, EraseClient, Unlock, deliveryVars
<1>1. /\ UNCHANGED <<backlog, http_pc, http_fd, http_file, streams, incoming, mq_event>>
  BY <1>0 DEF mqttOnly, httpVars
<1>2. CASE WriteClient
  <2>1. /\ BrowserTypes' /\ Shapes' /\ Delivering'
        /\ Touched(table[sse_clients[index]], mq_event)
        /\ index \in 1 .. Len(sse_clients) /\ Live(index)
    BY <1>0, <1>2, DeliveryFacts, ClientWritten DEF WholeInv
  <2>2. /\ mq_pc = "write" /\ mq_pc' = "write" /\ index' = index - 1
        /\ table' = table /\ sse_clients' = sse_clients
    BY <1>2 DEF WriteClient
  <2> DEFINE c0 == table[sse_clients[index]]
  <2>3. /\ c0 \in Conns /\ peer[c0] # "absent" /\ ~Idle(c0)
        /\ http_fd # 0 => c0 # Client
    BY <2>1, DeliveryFacts, ListenerApart
  <2> HIDE DEF c0
  <2>4. /\ asked' = asked /\ (peer'[c0] = "here" => peer[c0] = "here")
        /\ \A d \in Conns : d # c0 => out'[d] = out[d] /\ peer'[d] = peer[d]
        /\ \A d \in Conns : peer'[d] = "absent" => peer[d] = "absent"
    BY <2>1 DEF Touched, c0
  <2>5. MessageTypes'
    BY <1>0, <1>1, DeliveryFacts DEF MessageTypes, Message, Event, payloadVars, deliveryVars
  <2>6. Structure'
    <3>1. index' \in 0 .. Len(sse_clients')
      BY <2>1, <2>2, DeliveryFacts, ViewerFacts
    <3>2. ViewerTypes'
      BY <1>1, <2>2, <3>1, DeliveryFacts DEF ViewerTypes
    <3> QED
      BY <1>1, <2>2, <2>4, <3>2, DeliveryFacts, StructureSame
  <2>7. NotYet'
    <3>1. \A c \in Conns : Idle(c) => out'[c] = out[c] /\ joined'[c] = joined[c]
      BY <1>0, <2>3, <2>4
    <3>2. \A k \in 1 .. Len(backlog') :
            /\ backlog'[k] \in Conns
            /\ \E l \in 1 .. Len(backlog) : backlog'[k] = backlog[l]
      BY <1>1, DeliveryFacts, ViewerFacts
    <3> QED
      BY <1>0, <1>1, <2>2, <2>4, <3>1, <3>2, DeliveryFacts, NotYetKept
  <2>8. AtMain'
    <3>1. http_fd # 0 => /\ Client \in Conns /\ Client # c0
      BY <2>3, DeliveryFacts, ClientApart
    <3> QED
      BY <1>0, <1>1, <2>2, <2>4, <3>1, DeliveryFacts, AtMainKept
  <2>9. InHand'
    BY <1>0, <1>1, <2>2, DeliveryFacts DEF InHand
  <2> QED
    BY <2>1, <2>5, <2>6, <2>7, <2>8, <2>9 DEF DeliveryInv, Structure, Answering
<1>3. CASE CloseClient
  <2>1. /\ mq_pc = "write" /\ mq_pc' = "erase" /\ index > 0 /\ index' = index
        /\ Unwritable(sse_clients[index]) /\ Closed({sse_clients[index]})
        /\ sse_clients' = sse_clients /\ UNCHANGED browserVars
    BY <1>3 DEF CloseClient, Unwritable
  <2>2. index \in 1 .. Len(sse_clients) /\ Live(index)
    BY <2>1, DeliveryFacts, ViewerFacts DEF Live
  <2> DEFINE fd0 == sse_clients[index]
  <2>3. /\ fd0 \in Fds /\ table[fd0] \in Conns /\ peer[table[fd0]] # "here"
        /\ \A k \in 1 .. Len(sse_clients) : k # index => sse_clients[k] # fd0
        /\ fd0 # http_fd /\ fd0 \notin streams
    <3>1. fd0 \in Fds /\ table[fd0] \in Conns
      BY <2>2, DeliveryFacts, ListenerApart
    <3>2. \A k \in 1 .. Len(sse_clients) : Live(k)
      BY <2>1 DEF Live
    <3>3. /\ \A k \in 1 .. Len(sse_clients) : k # index => sse_clients[k] # fd0
          /\ fd0 # http_fd /\ fd0 \notin streams
      BY <2>2, <3>2 DEF DeliveryInv, Ownership
    <3> QED
      BY <2>1, <3>1, <3>3 DEF Unwritable
  <2>4. \A fd \in Fds : fd # fd0 => table'[fd] = table[fd]
    BY <2>1 DEF Closed
  <2>5. Structure'
    BY <1>3, DeliveryFacts, StructureClientClosed
  <2>6. Delivering'
    <3>1. /\ \A k : Pending(k)' <=> Pending(k)
          /\ \A k \in 1 .. Len(sse_clients) : Live(k)
          /\ \A k \in 1 .. Len(sse_clients) : Live(k)' <=> k # index
      BY <2>1 DEF Pending, Live
    <3>2. peer' = peer /\ asked' = asked /\ out' = out
      BY <2>1 DEF browserVars
    <3>3. \A k \in 1 .. Len(sse_clients) : Live(k)' =>
            /\ Live(k) /\ (Pending(k)' <=> Pending(k))
            /\ table'[sse_clients[k]] = table[sse_clients[k]]
      BY <2>3, <2>4, <3>1, DeliveryFacts, ViewerFacts
    <3>4. \A k \in 1 .. Len(sse_clients) :
            Live(k) /\ peer'[table[sse_clients[k]]] = "here" => Live(k)'
      BY <2>3, <3>1, <3>2
    <3>5. \A c \in Conns : peer[c] = "absent" => joined[c] = -1
      BY DeliveryFacts DEF NotYet, Unanswered
    <3> QED
      BY <1>0, <2>1, <3>2, <3>3, <3>4, <3>5, DeliveryFacts, DeliveringApart
  <2>7. \A fd \in streams : table'[fd] = table[fd]
    BY <2>3, <2>4, DeliveryFacts, ViewerFacts
  <2>8. http_fd # 0 => table'[http_fd] = table[http_fd]
    BY <2>3, <2>4, DeliveryFacts, ViewerFacts
  <2> QED
    BY <1>0, <1>1, <2>1, <2>5, <2>6, <2>7, <2>8, ClosingDelivers
<1>4. CASE EraseClient
  <2>1. /\ mq_pc = "erase" /\ mq_pc' = "write" /\ table' = table /\ UNCHANGED browserVars
    BY <1>4 DEF EraseClient
  <2>2. Structure' /\ Delivering'
    BY <1>0, <1>4, DeliveryFacts, StructureErased, DeliveringErased
  <2> QED
    BY <1>0, <1>1, <2>1, <2>2, ClosingDelivers
<1>5. CASE Unlock
  <2>1. /\ mq_pc = "write" /\ mq_pc' = "idle" /\ index = 0 /\ index' = index
        /\ table' = table /\ sse_clients' = sse_clients /\ UNCHANGED browserVars
    BY <1>5 DEF Unlock
  <2>2. peer' = peer /\ asked' = asked /\ out' = out
    BY <2>1 DEF browserVars
  <2>3. Structure'
    <3>1. ViewerTypes'
      BY <1>1, <2>1, DeliveryFacts DEF ViewerTypes
    <3> QED
      BY <1>1, <2>1, <2>2, <3>1, DeliveryFacts, StructureSame
  <2>4. Delivering'
    <3>1. /\ \A k : Live(k)' <=> Live(k)
          /\ \A k \in 1 .. Len(sse_clients) : Pending(k)' <=> Pending(k)
      BY <2>1, DeliveryFacts, ViewerFacts DEF Live, Pending
    <3>2. \A c \in Conns : peer[c] = "absent" => joined[c] = -1
      BY DeliveryFacts DEF NotYet, Unanswered
    <3> QED
      BY <1>0, <2>1, <2>2, <3>1, <3>2, DeliveryFacts, DeliveringApart
  <2> QED
    BY <1>0, <1>1, <2>1, <2>3, <2>4, ClosingDelivers
<1> QED
  BY <1>2, <1>3, <1>4, <1>5 DEF SseBroadcast, Broadcast

(* A video thread ends. *)
LEMMA StreamDelivers ==
  ASSUME DeliveryInv, StreamStep
  PROVE  DeliveryInv'
<1>1. PICK fd0 \in streams : Closed({fd0}) /\ streams' = streams \ {fd0}
  BY DEF StreamStep, StreamEnds
<1>2. /\ UNCHANGED <<payloadVars, deliveryVars, browserVars, backlog, http_pc, http_fd,
                     http_file, sse_clients, mqttVars>>
      /\ mq_pc' = mq_pc /\ index' = index /\ peer' = peer /\ asked' = asked /\ out' = out
      /\ feed' = feed /\ joined' = joined /\ sse_clients' = sse_clients
      /\ incoming' = incoming /\ mq_event' = mq_event
  BY DEF StreamStep, StreamEnds, Unwritable, browserVars, mqttVars, deliveryVars
<1>3. \A fd \in Fds : fd # fd0 => table'[fd] = table[fd]
  BY <1>1 DEF Closed
<1>4. Structure'
  BY DeliveryFacts, StructureStreamEnds DEF StreamStep
<1>5. http_fd # fd0 /\ \A k \in 1 .. Len(sse_clients) : Live(k) => sse_clients[k] # fd0
  BY <1>1 DEF DeliveryInv, Ownership
<1>6. Delivering'
  <2>1. /\ \A k : Live(k)' <=> Live(k)
        /\ \A k : Pending(k)' <=> Pending(k)
    BY <1>2 DEF Live, Pending
  <2>2. \A c \in Conns : peer[c] = "absent" => joined[c] = -1
    BY DeliveryFacts DEF NotYet, Unanswered
  <2>3. \A k \in 1 .. Len(sse_clients) : Live(k) => table'[sse_clients[k]] = table[sse_clients[k]]
    BY <1>3, <1>5, DeliveryFacts, ViewerFacts
  <2> QED
    BY <1>2, <2>1, <2>2, <2>3, DeliveryFacts, DeliveringApart
<1>7. \A fd \in streams' : table'[fd] = table[fd]
  BY <1>1, <1>3, DeliveryFacts, ViewerFacts
<1>8. http_fd # 0 => table'[http_fd] = table[http_fd]
  BY <1>3, <1>5, DeliveryFacts, ViewerFacts
<1> QED
  BY <1>1, <1>2, <1>4, <1>6, <1>7, <1>8, ClosingDelivers

(* A browser connects, asks, reads or leaves. *)
LEMMA BrowserDelivers ==
  ASSUME DeliveryInv, BrowserStep
  PROVE  DeliveryInv'
<1>1. /\ table' = table /\ sse_clients' = sse_clients
      /\ http_pc' = http_pc /\ http_fd' = http_fd /\ http_file' = http_file
      /\ streams' = streams /\ index' = index /\ mq_pc' = mq_pc /\ mq_event' = mq_event
      /\ incoming' = incoming /\ out' = out
      /\ feed' = feed /\ joined' = joined /\ link' = link /\ published' = published
      /\ raw_pc' = raw_pc /\ i' = i /\ offset' = offset
  BY DEF BrowserStep, Browser, Connect, Ask, ReadPart, Leave, afterBrowser, httpVars, mqttVars,
         payloadVars, deliveryVars
<1>2. MessageTypes'
  BY <1>1, DeliveryFacts DEF MessageTypes, Message, Event
<1>3. InHand'
  BY <1>1, DeliveryFacts DEF InHand
<1>4. /\ \A k : Live(k)' <=> Live(k)
      /\ \A k : Pending(k)' <=> Pending(k)
  BY <1>1 DEF Live, Pending
<1>5. \A c \in Conns : peer[c] = "absent" => joined[c] = -1
  BY DeliveryFacts DEF NotYet, Unanswered
<1>6. /\ peer \in [Conns -> {"absent", "here", "left", "reset"}]
      /\ asked \in [Conns -> Requests \cup {""}]
      /\ out \in [Conns -> Seq(WholePart)] /\ taken \in [Conns -> Nat]
      /\ \A c \in Conns : /\ taken[c] <= Len(out[c]) /\ Len(out[c]) - taken[c] <= SocketRoom
                          /\ Len(out[c]) \in Nat
  BY DeliveryFacts, PartFacts DEF BrowserTypes
\* The steps that leave the backlog alone.
<1>7. ASSUME backlog' = backlog, BrowserTypes',
             \A c \in Conns : /\ peer'[c] = "absent" => peer[c] = "absent"
                              /\ peer'[c] = "here" => peer[c] = "here"
                              /\ asked'[c] = asked[c] \/ asked[c] = ""
      PROVE  DeliveryInv'
  <2>1. Structure'
    <3>1. ViewerTypes'
      BY <1>1, <1>7, DeliveryFacts DEF ViewerTypes
    <3> QED
      BY <1>1, <1>7, <3>1, DeliveryFacts, StructureSame
  <2>2. NotYet'
    <3>1. \A k \in 1 .. Len(backlog') :
            /\ backlog'[k] \in Conns
            /\ \E l \in 1 .. Len(backlog) : backlog'[k] = backlog[l]
      BY <1>7, DeliveryFacts, ViewerFacts
    <3> QED
      BY <1>1, <1>7, <3>1, DeliveryFacts, NotYetKept
  <2>3. AtMain'
    <3>1. http_fd # 0 => Client \in Conns
      BY DeliveryFacts, ClientApart
    <3> QED
      BY <1>1, <1>7, <3>1, DeliveryFacts, AtMainKept
  <2>4. Shapes'
    <3>1. Len(feed') \in Nat /\ Len(feed) <= Len(feed')
      BY <1>1, DeliveryFacts, MessageFacts
    <3>2. \A c \in Conns : asked'[c] = asked[c] \/ asked[c] = ""
      BY <1>7
    <3> QED
      BY <1>1, <3>1, <3>2, DeliveryFacts, ShapesSame
  <2>5. Delivering'
    BY <1>1, <1>4, <1>5, <1>7, DeliveryFacts, DeliveringApart
  <2> QED
    BY <1>2, <1>3, <1>7, <2>1, <2>2, <2>3, <2>4, <2>5 DEF DeliveryInv, Structure, Answering
<1>8. ASSUME NEW c \in Conns, Connect(c)
      PROVE  DeliveryInv'
  <2>1. /\ peer[c] = "absent" /\ peer' = [peer EXCEPT ![c] = "here"]
        /\ backlog' = Append(backlog, c) /\ asked' = asked /\ taken' = taken
    BY <1>8 DEF Connect
  <2>2. /\ peer' \in [Conns -> {"absent", "here", "left", "reset"}]
        /\ peer'[c] = "here" /\ \A d \in Conns : d # c => peer'[d] = peer[d]
    BY <1>6, <2>1
  <2>3. BrowserTypes'
    BY <1>1, <1>6, <2>1, <2>2 DEF BrowserTypes
  <2> DEFINE n == Len(backlog)
  <2>4. PICK m \in Nat : m = n + 1
    BY DeliveryFacts, ViewerFacts
  <2>5. /\ n \in Nat /\ backlog' \in Seq(Conns) /\ Len(backlog') = m
        /\ \A k \in 1 .. n : backlog'[k] = backlog[k] /\ backlog[k] \in Conns
        /\ backlog'[m] = c
        /\ \A k \in 1 .. m : k \in 1 .. n \/ k = m
    BY <2>1, <2>4, DeliveryFacts, ViewerFacts, AppendProperties
  <2> HIDE DEF n
  <2>6. /\ \A k \in 1 .. n : backlog[k] # c
        /\ \A fd \in Fds : table[fd] # c
    BY <2>1 DEF DeliveryInv, Connections, n
  <2>7. Structure'
    <3>1. ViewerTypes'
      BY <1>1, <2>5, DeliveryFacts DEF ViewerTypes
    <3>2. Ownership'
      BY <1>1, <1>4 DEF DeliveryInv, Ownership, Listed
    <3>3. Places'
      BY <1>1, <1>4 DEF DeliveryInv, Places
    <3>4. \A k, l \in 1 .. m : backlog'[k] = backlog'[l] => k = l
      <4> SUFFICES ASSUME NEW k \in 1 .. m, NEW l \in 1 .. m, backlog'[k] = backlog'[l]
                   PROVE  k = l
        OBVIOUS
      <4>1. CASE k \in 1 .. n /\ l \in 1 .. n
        BY <2>5, <4>1 DEF DeliveryInv, Connections, n
      <4> QED
        BY <2>5, <2>6, <4>1
    <3>5. ASSUME NEW k \in 1 .. m
          PROVE  /\ peer'[backlog'[k]] # "absent"
                 /\ \A fd \in Fds : table'[fd] # backlog'[k]
      <4>1. CASE k = m
        BY <1>1, <2>2, <2>5, <2>6, <4>1
      <4>2. CASE k \in 1 .. n
        <5>1. /\ backlog[k] \in Conns /\ peer[backlog[k]] # "absent"
              /\ \A fd \in Fds : table[fd] # backlog[k]
          BY <2>5, <4>2 DEF DeliveryInv, Connections, n
        <5> QED
          BY <1>1, <2>2, <2>5, <4>2, <5>1
      <4> QED
        BY <2>5, <4>1, <4>2
    <3>6. \A fd \in Fds : table'[fd] \in Conns => peer'[table'[fd]] # "absent"
      BY <1>1, <2>2, <2>6 DEF DeliveryInv, Connections
    <3>7. \A fd, gd \in Fds : table'[fd] \in Conns /\ table'[fd] = table'[gd] => fd = gd
      BY <1>1 DEF DeliveryInv, Connections
    <3> QED
      BY <2>5, <3>1, <3>2, <3>3, <3>4, <3>5, <3>6, <3>7 DEF Structure, Connections
  <2>8. NotYet'
    <3>1. \A k \in 1 .. Len(backlog') :
            /\ backlog'[k] \in Conns
            /\ \/ \E l \in 1 .. Len(backlog) : backlog'[k] = backlog[l]
               \/ peer[backlog'[k]] = "absent"
      BY <2>1, <2>5 DEF n
    <3>2. \A d \in Conns : peer'[d] = "absent" => peer[d] = "absent"
      BY <2>2
    <3> QED
      BY <1>1, <2>1, <3>1, <3>2, DeliveryFacts, NotYetKept
  <2>9. AtMain'
    <3>1. http_fd # 0 => Client \in Conns /\ Client # c
      BY <2>1, DeliveryFacts, ClientApart
    <3> QED
      BY <1>1, <2>1, <2>2, <3>1, DeliveryFacts, AtMainKept
  <2>10. Shapes'
    BY <1>1, <2>1, DeliveryFacts, MessageFacts, ShapesSame
  <2>11. Delivering'
    <3>1. \A d \in Conns : peer[d] # "absent" /\ peer'[d] = "here" => peer[d] = "here"
      BY <2>1, <2>2
    <3> QED
      BY <1>1, <1>4, <1>5, <2>1, <3>1, DeliveryFacts, DeliveringApart
  <2> QED
    BY <1>2, <1>3, <2>3, <2>7, <2>8, <2>9, <2>10, <2>11 DEF DeliveryInv, Structure, Answering
<1>9. ASSUME NEW c \in Conns, NEW request \in Requests, Ask(c, request)
      PROVE  DeliveryInv'
  <2>1. /\ asked[c] = "" /\ asked' = [asked EXCEPT ![c] = request]
        /\ backlog' = backlog /\ peer' = peer /\ taken' = taken
    BY <1>9 DEF Ask
  <2>2. BrowserTypes'
    BY <1>1, <1>6, <2>1 DEF BrowserTypes
  <2>3. \A d \in Conns : asked'[d] = asked[d] \/ asked[d] = ""
    BY <1>6, <2>1
  <2> QED
    BY <1>7, <2>1, <2>2, <2>3
<1>10. ASSUME NEW c \in Conns, ReadPart(c)
       PROVE  DeliveryInv'
  <2>1. /\ Len(out[c]) - taken[c] > 0 /\ taken' = [taken EXCEPT ![c] = @ + 1]
        /\ backlog' = backlog /\ peer' = peer /\ asked' = asked
    BY <1>10 DEF ReadPart, Unread
  <2>2. ASSUME NEW d \in Conns
        PROVE  taken'[d] \in Nat /\ taken'[d] <= Len(out[d]) /\ Len(out[d]) - taken'[d] <= SocketRoom
    <3>1. /\ taken[d] \in Nat /\ Len(out[d]) \in Nat /\ taken[d] <= Len(out[d])
          /\ Len(out[d]) - taken[d] <= SocketRoom /\ SocketRoom \in Nat
      BY <1>6, Sizes
    <3>2. CASE d = c
      <4>1. taken'[d] = taken[d] + 1 /\ Len(out[d]) - taken[d] > 0
        BY <1>6, <2>1, <3>2
      <4> QED
        BY <3>1, <4>1
    <3>3. CASE d # c
      <4>1. taken'[d] = taken[d]
        BY <1>6, <2>1, <3>3
      <4> QED
        BY <3>1, <4>1
    <3> QED
      BY <3>2, <3>3
  <2>3. taken' \in [Conns -> Nat]
    <3>1. taken[c] \in Nat
      BY <1>6
    <3>2. taken[c] + 1 \in Nat
      BY <3>1
    <3> QED
      BY <1>6, <2>1, <3>2
  <2>4. BrowserTypes'
    BY <1>1, <1>6, <2>1, <2>2, <2>3 DEF BrowserTypes
  <2> QED
    BY <1>7, <2>1, <2>4
<1>11. ASSUME NEW c \in Conns, Leave(c)
       PROVE  DeliveryInv'
  <2>1. /\ peer[c] = "here" /\ peer' = [peer EXCEPT ![c] = "left"]
        /\ backlog' = backlog /\ asked' = asked /\ taken' = taken
    BY <1>11 DEF Leave
  <2>2. /\ peer' \in [Conns -> {"absent", "here", "left", "reset"}]
        /\ \A d \in Conns : /\ peer'[d] = "absent" => peer[d] = "absent"
                            /\ peer'[d] = "here" => peer[d] = "here"
    BY <1>6, <2>1
  <2>3. BrowserTypes'
    BY <1>1, <1>6, <2>1, <2>2 DEF BrowserTypes
  <2> QED
    BY <1>7, <2>1, <2>2, <2>3
<1> QED
  BY <1>8, <1>9, <1>10, <1>11 DEF BrowserStep, Browser
--------------------------------------------------------------------------------
(* main *)

\* main writes to its own connection, or to none.
OnlyClient ==
  /\ asked' = asked
  /\ \A c \in Conns : c # Client => out'[c] = out[c] /\ peer'[c] = peer[c]
  /\ peer'[Client] = "absent" => peer[Client] = "absent"
  /\ peer'[Client] = "here" => peer[Client] = "here"

(* What a step of main that registers nobody leaves as it is. *)
LEMMA MainElsewhere ==
  ASSUME DeliveryInv, Structure', AtMain', Shapes', BrowserTypes', http_fd # 0, OnlyClient,
         UNCHANGED <<sse_clients, mqttVars, backlog, payloadVars, deliveryVars>>,
         \A fd \in Fds : table[fd] # None /\ fd # http_fd /\ fd # http_file =>
           table'[fd] = table[fd],
         \A fd \in streams' :
           \/ fd \in streams
           \/ /\ out'[table'[fd]] = <<>> /\ joined'[table'[fd]] = -1
              /\ asked'[table'[fd]] = "stream"
  PROVE  DeliveryInv'
<1>1. /\ sse_clients' = sse_clients /\ backlog' = backlog /\ asked' = asked
      /\ index' = index /\ mq_pc' = mq_pc /\ mq_event' = mq_event /\ incoming' = incoming
      /\ feed' = feed /\ joined' = joined /\ link' = link /\ published' = published
      /\ raw_pc' = raw_pc /\ i' = i /\ offset' = offset
  BY DEF mqttVars, payloadVars, deliveryVars, OnlyClient
<1>2. MessageTypes'
  BY <1>1, DeliveryFacts DEF MessageTypes, Message, Event
<1>3. InHand'
  BY <1>1, DeliveryFacts DEF InHand
<1>4. /\ \A k : Live(k)' <=> Live(k)
      /\ \A k : Pending(k)' <=> Pending(k)
  BY <1>1 DEF Live, Pending
<1>5. \A c \in Conns : peer[c] = "absent" => joined[c] = -1
  BY DeliveryFacts DEF NotYet, Unanswered
<1>6. /\ http_fd \in Fds /\ Client \in Conns /\ peer[Client] # "absent" /\ ~Idle(Client)
      /\ \A k \in 1 .. Len(sse_clients) : Live(k) => table[sse_clients[k]] # Client
  BY DeliveryFacts, ClientApart
<1>7. \A c \in Conns : /\ peer'[c] = "absent" => peer[c] = "absent"
                       /\ peer'[c] = "here" => peer[c] = "here"
                       /\ Idle(c) => out'[c] = out[c]
  BY <1>6 DEF OnlyClient
<1>8. NotYet'
  <2>1. \A fd \in streams : fd \in Fds /\ table[fd] # None /\ fd # http_fd /\ fd # http_file
    BY DeliveryFacts, ViewerFacts, Sizes DEF DeliveryInv, Ownership, Places
  <2>2. \A fd \in streams' :
          \/ fd \in streams /\ table'[fd] = table[fd]
          \/ /\ out'[table'[fd]] = <<>> /\ joined'[table'[fd]] = -1
             /\ asked'[table'[fd]] = "stream"
    BY <2>1
  <2>3. \A k \in 1 .. Len(backlog') :
          /\ backlog'[k] \in Conns
          /\ \E l \in 1 .. Len(backlog) : backlog'[k] = backlog[l]
    BY <1>1, DeliveryFacts, ViewerFacts
  <2> QED
    BY <1>1, <1>7, <2>2, <2>3, DeliveryFacts, NotYetKept
<1>9. Delivering'
  <2>1. \A k \in 1 .. Len(sse_clients) : Live(k) =>
          /\ sse_clients[k] \in Fds /\ table[sse_clients[k]] \in Conns
          /\ sse_clients[k] # http_fd /\ sse_clients[k] # http_file
    BY DeliveryFacts, ViewerFacts DEF DeliveryInv, Ownership, Places
  <2>2. \A k \in 1 .. Len(sse_clients) : Live(k) => table'[sse_clients[k]] = table[sse_clients[k]]
    BY <2>1, Sizes
  <2>3. \A k \in 1 .. Len(sse_clients) : Live(k) =>
          out'[table[sse_clients[k]]] = out[table[sse_clients[k]]]
    BY <1>6, <2>1 DEF OnlyClient
  <2> QED
    BY <1>1, <1>4, <1>5, <1>7, <2>2, <2>3, DeliveryFacts, DeliveringApart
<1> QED
  BY <1>2, <1>3, <1>8, <1>9 DEF DeliveryInv, Structure, Answering

(* main closes what it holds, after a write or without one. *)
LEMMA MainCloses ==
  ASSUME DeliveryInv, http_fd # 0, OnlyClient, BrowserTypes', Shapes', BackToAccept,
         Closed({http_fd} \cup IF http_file = 0 THEN {} ELSE {http_file}),
         UNCHANGED <<streams, sse_clients, mqttVars, backlog, payloadVars, deliveryVars>>
  PROVE  DeliveryInv'
<1>1. mq_pc' = mq_pc /\ index' = index
  BY DEF mqttVars
<1>2. \A c \in Conns : peer'[c] = "absent" => peer[c] = "absent"
  BY DEF OnlyClient
<1>3. Structure'
  BY <1>1, <1>2, DeliveryFacts, StructureClosed
<1>4. \A fd \in Fds : fd # http_fd /\ fd # http_file => table'[fd] = table[fd]
  BY DEF Closed
<1> QED
  BY <1>3, <1>4, AtMainDone, MainElsewhere

(* main goes on with the connection. *)
LEMMA MainGoesOn ==
  ASSUME DeliveryInv, http_fd # 0, OnlyClient, BrowserTypes', Shapes', AtMain',
         http_pc' \in Requests \cup {"read", "error", "image", "register"},
         http_pc' = "image" <=> http_pc \in {"head", "image"},
         http_pc # "accept",
         UNCHANGED <<table, http_fd, http_file, streams, sse_clients, mqttVars, backlog,
                     payloadVars, deliveryVars>>
  PROVE  DeliveryInv'
<1>1. /\ mq_pc' = mq_pc /\ index' = index
      /\ http_pc' # "accept" /\ http_pc' # "head"
  BY DEF mqttVars, Requests
<1>2. \A c \in Conns : peer'[c] = "absent" => peer[c] = "absent"
  BY DEF OnlyClient
<1>3. Structure'
  <2>1. ViewerTypes'
    BY <1>1, DeliveryFacts DEF ViewerTypes
  <2> QED
    BY <1>1, <1>2, <2>1, DeliveryFacts, StructureSame
<1> QED
  BY <1>3, MainElsewhere

(* No write at all. *)
LEMMA NoWrite ==
  ASSUME DeliveryInv, UNCHANGED <<browserVars, feed>>
  PROVE  OnlyClient /\ BrowserTypes' /\ Shapes'
<1>1. peer' = peer /\ asked' = asked /\ out' = out /\ taken' = taken /\ feed' = feed
  BY DEF browserVars
<1> QED
  BY <1>1, DeliveryFacts DEF OnlyClient, BrowserTypes, Shapes

(* A write of the first part of an answer. *)
LEMMA FirstPart ==
  ASSUME DeliveryInv, http_fd # 0, http_pc \notin {"image", "register"}, feed' = feed,
         NEW kind \in {"page", "error", "head"},
         Written(http_fd, Part(kind)) \/ Unwritable(http_fd),
         \/ kind = "page" /\ asked[Client] = "page"
         \/ kind \in {"error", "head"} /\ asked[Client] = "snapshot"
         \/ kind = "head" /\ asked[Client] = "events"
  PROVE  /\ OnlyClient /\ BrowserTypes' /\ Shapes'
         /\ \/ Len(out'[Client]) = 1 /\ out'[Client][1].kind = kind
            \/ out'[Client] = <<>> /\ peer'[Client] # "here"
<1> DEFINE c == Client
           part == Part(kind)
<1>1. c \in Conns /\ peer[c] # "absent"
  BY DeliveryFacts, ClientApart
<1>2. part \in WholePart /\ part.kind = kind
  BY DEF Part, WholePart
<1>3. BrowserTypes' /\ Touched(c, part)
  BY <1>1, <1>2, DeliveryFacts, WriteTouches DEF Client
<1>4. out[c] = <<>> /\ Len(out[c]) = 0
  <2>1. out[c] = <<>>
    BY DeliveryFacts DEF AtMain
  <2> QED
    BY <1>1, <2>1, DeliveryFacts, PartFacts
<1>5. \/ kind = "page" /\ asked[c] = "page"
      \/ kind \in {"error", "head"} /\ asked[c] = "snapshot"
      \/ kind = "head" /\ asked[c] = "events"
  OBVIOUS
<1> HIDE DEF c, part
<1>6. ASSUME out'[c] = Append(out[c], part)
      PROVE  Len(out'[c]) = 1 /\ out'[c][1].kind = kind
  <2>1. /\ Len(out'[c]) = Len(out[c]) + 1
        /\ out'[c][Len(out[c]) + 1] = part
    BY <1>1, <1>2, <1>6, DeliveryFacts, PartAppended
  <2>2. Len(out'[c]) = 1 /\ out'[c][1] = part
    BY <1>4, <2>1
  <2> QED
    BY <1>2, <2>2
<1>7. Shapes'
  <2>1. ASSUME out'[c] = Append(out[c], part)
        PROVE  Shape(asked[c], out'[c], Len(feed))
    <3>1. Len(out'[c]) = 1 /\ out'[c][1].kind = kind
      BY <1>6, <2>1
    <3>2. Len(feed) \in Nat
      BY DeliveryFacts, MessageFacts
    <3>3. /\ \A k \in 1 .. Len(out'[c]) : k = 1
          /\ Len(out'[c]) <= Len(feed) + 1
      BY <3>1, <3>2
    <3> QED
      BY <1>5, <3>1, <3>3 DEF Shape
  <2> QED
    BY <1>1, <1>3, <2>1, DeliveryFacts, ShapesTouched
<1>8. OnlyClient
  BY <1>1, <1>3 DEF OnlyClient, Touched, c
<1>9. \/ Len(out'[c]) = 1 /\ out'[c][1].kind = kind
      \/ out'[c] = <<>> /\ peer'[c] # "here"
  BY <1>3, <1>4, <1>6 DEF Touched
<1> QED
  BY <1>3, <1>7, <1>8, <1>9 DEF c

(* The image after the header. *)
LEMMA SecondPart ==
  ASSUME DeliveryInv, http_fd # 0, http_pc = "image", feed' = feed,
         Written(http_fd, Part("image")) \/ Unwritable(http_fd)
  PROVE  OnlyClient /\ BrowserTypes' /\ Shapes'
<1> DEFINE c == Client
           part == Part("image")
<1>1. c \in Conns /\ peer[c] # "absent"
  BY DeliveryFacts, ClientApart
<1>2. part \in WholePart /\ part.kind = "image"
  BY DEF Part, WholePart
<1>3. BrowserTypes' /\ Touched(c, part)
  BY <1>1, <1>2, DeliveryFacts, WriteTouches DEF Client
<1>4. /\ asked[c] = "snapshot"
      /\ peer[c] = "here" => Len(out[c]) = 1 /\ out[c][1].kind = "head"
  BY DeliveryFacts DEF AtMain, HeadOnly
<1> HIDE DEF c, part
<1>5. Shapes'
  <2>1. ASSUME out'[c] = Append(out[c], part)
        PROVE  Shape(asked[c], out'[c], Len(feed))
    <3>1. /\ Len(out[c]) \in Nat /\ Len(out'[c]) = Len(out[c]) + 1
          /\ \A k \in 1 .. Len(out[c]) : out'[c][k] = out[c][k]
          /\ out'[c][Len(out[c]) + 1] = part
      BY <1>1, <1>2, <2>1, DeliveryFacts, PartAppended
    <3>2. Len(out[c]) = 1 /\ out[c][1].kind = "head"
      <4>1. peer[c] = "here" \/ out'[c] = out[c]
        BY <1>3 DEF Touched
      <4>2. out'[c] # out[c]
        BY <3>1
      <4> QED
        BY <1>4, <4>1, <4>2
    <3>3. Len(out'[c]) = 2 /\ out'[c][1].kind = "head" /\ out'[c][2].kind = "image"
      <4>1. 1 \in 1 .. Len(out[c]) /\ Len(out[c]) + 1 = 2
        BY <3>2
      <4>2. out'[c][1] = out[c][1] /\ out'[c][2] = part
        BY <3>1, <4>1
      <4> QED
        BY <1>2, <3>1, <3>2, <4>1, <4>2
    <3> QED
      BY <1>4, <3>3 DEF Shape
  <2> QED
    BY <1>1, <1>3, <2>1, DeliveryFacts, ShapesTouched
<1>6. OnlyClient
  BY <1>1, <1>3 DEF OnlyClient, Touched, c
<1> QED
  BY <1>3, <1>5, <1>6

(* accept: nothing was written to the connection yet. *)
LEMMA AcceptDelivers ==
  ASSUME DeliveryInv, Accept, UNCHANGED <<payloadVars, deliveryVars>>
  PROVE  DeliveryInv'
<1> DEFINE fd0 == LowestFree
           c0 == backlog[1]
<1>1. /\ http_pc = "accept" /\ http_pc' = "read" /\ http_fd' = fd0
      /\ streams' = streams /\ sse_clients' = sse_clients /\ UNCHANGED browserVars
      /\ mq_pc' = mq_pc /\ index' = index /\ incoming' = incoming /\ mq_event' = mq_event
      /\ backlog # <<>> /\ backlog' = Tail(backlog) /\ Free # {}
      /\ table' = [table EXCEPT ![fd0] = Head(backlog)]
      /\ feed' = feed /\ joined' = joined /\ link' = link /\ published' = published
      /\ raw_pc' = raw_pc /\ i' = i /\ offset' = offset
  BY DEF Accept, Opened, mqttVars, payloadVars, deliveryVars
<1>2. fd0 \in Fds /\ table[fd0] = None
  BY <1>1, LowestFreeIsFree
<1>3. /\ Len(backlog) \in Nat \ {0} /\ Head(backlog) = c0 /\ c0 \in Conns
      /\ Len(backlog') = Len(backlog) - 1
      /\ \A k \in 1 .. Len(backlog') : backlog'[k] = backlog[k + 1]
  <2>1. backlog \in Seq(Conns) /\ backlog # <<>>
    BY <1>1, DeliveryFacts, ViewerFacts
  <2>2. Head(backlog) = backlog[1]
    BY <2>1
  <2> QED
    BY <1>1, <2>1, <2>2, HeadTailProperties, EmptySeq
<1>4. /\ 1 \in 1 .. Len(backlog)
      /\ \A k \in 1 .. Len(backlog') : k + 1 \in 1 .. Len(backlog)
  BY <1>3
<1> HIDE DEF fd0
<1>5. table'[fd0] = c0 /\ \A fd \in Fds : table[fd] # None => table'[fd] = table[fd]
  <2>1. table \in [Fds -> Conns \cup {None, Image}]
    BY DeliveryFacts, ViewerFacts
  <2> QED
    BY <1>1, <1>2, <1>3, <2>1
<1>6. peer' = peer /\ asked' = asked /\ out' = out /\ taken' = taken
  BY <1>1 DEF browserVars
<1>7. BrowserTypes' /\ Shapes'
  BY <1>1, <1>6, DeliveryFacts DEF BrowserTypes, Shapes
<1>8. MessageTypes' /\ InHand'
  BY <1>1, DeliveryFacts DEF MessageTypes, Message, Event, InHand
<1>9. Structure'
  BY DeliveryFacts, StructureAccept
<1>10. NotYet'
  <2>1. \A k \in 1 .. Len(backlog') :
          /\ backlog'[k] \in Conns
          /\ \E l \in 1 .. Len(backlog) : backlog'[k] = backlog[l]
    BY <1>3, <1>4, DeliveryFacts, ViewerFacts
  <2>2. \A fd \in streams : fd \in Fds /\ table[fd] # None
    BY DeliveryFacts, ViewerFacts, Sizes DEF Places
  <2> QED
    BY <1>1, <1>5, <1>6, <2>1, <2>2, DeliveryFacts, NotYetKept
<1>11. AtMain'
  <2>1. out[c0] = <<>> /\ joined[c0] = -1
    BY <1>4, DeliveryFacts DEF NotYet, Unanswered
  <2>2. table'[http_fd'] = c0
    BY <1>1, <1>5
  <2> HIDE DEF c0
  <2> QED
    BY <1>1, <1>6, <2>1, <2>2 DEF AtMain, Client, Requests
<1>12. Delivering'
  <2>1. /\ \A k : Live(k)' <=> Live(k)
        /\ \A k : Pending(k)' <=> Pending(k)
    BY <1>1 DEF Live, Pending
  <2>2. \A c \in Conns : peer[c] = "absent" => joined[c] = -1
    BY DeliveryFacts DEF NotYet, Unanswered
  <2>3. \A k \in 1 .. Len(sse_clients) : Live(k) => table'[sse_clients[k]] = table[sse_clients[k]]
    BY <1>5, DeliveryFacts, ViewerFacts, Sizes DEF Places
  <2> QED
    BY <1>1, <1>6, <2>1, <2>2, <2>3, DeliveryFacts, DeliveringApart
<1> QED
  BY <1>7, <1>8, <1>9, <1>10, <1>11, <1>12 DEF DeliveryInv, Structure, Answering

(* main registers a client of /events. *)
LEMMA RegisterDelivers ==
  ASSUME DeliveryInv, Register, HttpStep
  PROVE  DeliveryInv'
<1>1. /\ http_pc = "register" /\ UNCHANGED browserVars /\ BackToAccept
      /\ table' = table /\ streams' = streams /\ backlog' = backlog /\ mq_pc' = mq_pc
      /\ mq_event' = mq_event /\ incoming' = incoming
      /\ raw_pc' = raw_pc /\ i' = i /\ offset' = offset /\ link' = link
      /\ published' = published /\ feed' = feed
  BY DEF Register, HttpStep, mqttVars, payloadVars
<1>2. peer' = peer /\ asked' = asked /\ out' = out /\ taken' = taken
  BY <1>1 DEF browserVars
<1>3. Client \in Conns /\ peer[Client] # "absent" /\ ~Idle(Client)
  BY <1>1, DeliveryFacts, ClientApart DEF Places
<1> DEFINE c0 == Client
<1>4. joined' = [joined EXCEPT ![c0] = Len(feed)] \/ joined' = joined
  BY DEF HttpStep, Client
<1>5. joined \in [Conns -> Int] /\ Len(feed) \in Nat
      /\ \A c \in Conns : joined[c] \in Int /\ joined[c] >= -1 /\ joined[c] <= Len(feed)
  BY DeliveryFacts, MessageFacts DEF MessageTypes
<1> HIDE DEF c0
<1>6. /\ joined' \in [Conns -> Int]
      /\ \A c \in Conns : joined'[c] >= -1 /\ joined'[c] <= Len(feed)
      /\ \A c \in Conns : c # c0 => joined'[c] = joined[c]
  <2>1. CASE joined' = joined
    BY <1>5, <2>1
  <2>2. CASE joined' = [joined EXCEPT ![c0] = Len(feed)]
    <3>1. Len(feed) \in Int
      BY <1>5
    <3>2. /\ joined' \in [Conns -> Int]
          /\ \A c \in Conns : joined'[c] = joined[c] \/ joined'[c] = Len(feed)
          /\ \A c \in Conns : c # c0 => joined'[c] = joined[c]
      BY <1>5, <2>2, <3>1
    <3>3. ASSUME NEW c \in Conns
          PROVE  joined'[c] >= -1 /\ joined'[c] <= Len(feed)
      BY <1>5, <3>2
    <3> QED
      BY <3>2, <3>3
  <2> QED
    BY <1>4, <2>1, <2>2
<1>7. MessageTypes'
  BY <1>1, <1>6, DeliveryFacts DEF MessageTypes, Message, Event
<1>8. BrowserTypes' /\ Shapes' /\ InHand'
  BY <1>1, <1>2, DeliveryFacts DEF BrowserTypes, Shapes, InHand
<1>9. Structure'
  BY DeliveryFacts, StructureRegistered
<1>10. NotYet'
  <2>1. \A k \in 1 .. Len(backlog') :
          /\ backlog'[k] \in Conns
          /\ \E l \in 1 .. Len(backlog) : backlog'[k] = backlog[l]
    BY <1>1, DeliveryFacts, ViewerFacts
  <2>2. \A c \in Conns : Idle(c) => out'[c] = out[c] /\ joined'[c] = joined[c]
    BY <1>2, <1>3, <1>6 DEF c0
  <2> QED
    BY <1>1, <1>2, <2>1, <2>2, DeliveryFacts, NotYetKept
<1>11. AtMain'
  BY <1>1, AtMainDone
<1>12. Delivering'
  BY DeliveryFacts, DeliveringRegistered
<1> QED
  BY <1>7, <1>8, <1>9, <1>10, <1>11, <1>12 DEF DeliveryInv, Structure, Answering

(* handle_client, step by step. *)
LEMMA HttpDelivers ==
  ASSUME DeliveryInv, HttpStep
  PROVE  DeliveryInv'
<1>1. Http /\ UNCHANGED <<payloadVars, link, published, feed>>
      /\ (sse_clients' = sse_clients => joined' = joined)
  <2>1. Len(sse_clients) \in Nat
    BY DeliveryFacts, ViewerFacts
  <2> QED
    BY <2>1 DEF HttpStep
<1>2. CASE Register
  BY <1>2, RegisterDelivers
<1>3. ASSUME ~Register
      PROVE  UNCHANGED <<payloadVars, deliveryVars>> /\ feed' = feed /\ mqttVars' = mqttVars
  <2>1. sse_clients' = sse_clients /\ mqttVars' = mqttVars
    BY <1>1, <1>3 DEF Http, Accept, ReadRequest, ReadNothing, ServePage, SendHttpError, Answer,
          RefuseSnapshot, OpenSnapshot, SnapshotHead, SnapshotHeadFails, SnapshotImage,
          SpawnStream, EventsHead, EventsHeadFails, mainOnly
  <2> QED
    BY <1>1, <2>1 DEF deliveryVars
<1>4. CASE Accept
  <2>1. ~Register
    BY <1>4 DEF Accept, Register
  <2> QED
    BY <1>3, <1>4, <2>1, AcceptDelivers
<1> SUFFICES ASSUME ~Register, ~Accept PROVE DeliveryInv'
  BY <1>2, <1>4
<1>5. http_pc # "accept" /\ http_fd # 0
      /\ UNCHANGED <<sse_clients, backlog>>
  <2>1. http_pc # "accept" /\ UNCHANGED <<sse_clients, backlog>>
    BY <1>1 DEF Http, ReadRequest, ReadNothing, ServePage, SendHttpError, Answer,
          RefuseSnapshot, OpenSnapshot, SnapshotHead, SnapshotHeadFails, SnapshotImage,
          SpawnStream, EventsHead, EventsHeadFails, mainOnly
  <2> QED
    BY <2>1, DeliveryFacts DEF Places
<1>6. /\ Client \in Conns /\ asked[Client] \in Requests \cup {""} /\ joined[Client] = -1
      /\ http_pc \notin {"image", "register"} => out[Client] = <<>>
      /\ http_pc \in Requests => asked[Client] = http_pc
      /\ http_pc \in {"error", "head", "image"} => asked[Client] = "snapshot"
      /\ http_pc = "register" => asked[Client] = "events"
      /\ http_file # 0 <=> http_pc \in {"head", "image"}
  BY <1>5, DeliveryFacts, ClientApart DEF AtMain, BrowserTypes, Places
<1>7. CASE ReadRequest
  <2>1. /\ http_pc = "read" /\ http_pc' = asked[Client] /\ http_pc' \in Requests
        /\ UNCHANGED <<browserVars, table, http_fd, http_file, streams>>
    BY <1>6, <1>7 DEF ReadRequest, Client, mainOnly
  <2>2. asked' = asked /\ out' = out /\ joined' = joined
    BY <1>3, <2>1 DEF browserVars, deliveryVars
  <2>3. http_pc' \notin {"image", "register", "head", "error"}
    BY <2>1 DEF Requests
  <2>4. AtMain'
    BY <1>6, <2>1, <2>2, <2>3 DEF AtMain, Client
  <2> QED
    BY <1>3, <1>5, <2>1, <2>3, <2>4, NoWrite, MainGoesOn
<1>8. CASE ReadNothing
  <2>1. /\ http_pc = "read" /\ UNCHANGED <<browserVars, streams>>
        /\ Closed({http_fd}) /\ BackToAccept
    BY <1>8 DEF ReadNothing, mainOnly
  <2>2. {http_fd} \cup (IF http_file = 0 THEN {} ELSE {http_file}) = {http_fd}
    BY <1>6, <2>1
  <2> QED
    BY <1>3, <1>5, <2>1, <2>2, NoWrite, MainCloses
<1>9. ASSUME NEW kind \in {"page", "error"}, Answer(kind)
      PROVE  DeliveryInv'
  <2>1. http_pc = kind /\ (Written(http_fd, Part(kind)) \/ Unwritable(http_fd))
    BY <1>9 DEF Answer
  <2>2. Closed({http_fd}) /\ BackToAccept /\ streams' = streams
    BY <1>9 DEF Answer, mainOnly
  <2>3. {http_fd} \cup (IF http_file = 0 THEN {} ELSE {http_file}) = {http_fd}
    BY <1>6, <2>1
  <2>4. asked[Client] = IF kind = "page" THEN "page" ELSE "snapshot"
    BY <1>6, <2>1 DEF Requests
  <2>5. OnlyClient /\ BrowserTypes' /\ Shapes'
    BY <1>3, <1>5, <2>1, <2>4, FirstPart
  <2> QED
    BY <1>3, <1>5, <2>2, <2>3, <2>5, MainCloses
<1>10. CASE RefuseSnapshot
  <2>1. /\ http_pc = "snapshot" /\ http_pc' = "error"
        /\ UNCHANGED <<browserVars, table, http_fd, http_file, streams>>
    BY <1>10 DEF RefuseSnapshot, mainOnly
  <2>2. asked' = asked /\ out' = out /\ joined' = joined
    BY <1>3, <2>1 DEF browserVars, deliveryVars
  <2>3. AtMain'
    BY <1>6, <2>1, <2>2 DEF AtMain, Client, Requests
  <2> QED
    BY <1>3, <1>5, <2>1, <2>3, NoWrite, MainGoesOn
<1>11. CASE OpenSnapshot
  <2>1. /\ http_pc = "snapshot" /\ http_pc' = "head" /\ http_fd' = http_fd
        /\ Free # {} /\ table' = [table EXCEPT ![LowestFree] = Image]
        /\ UNCHANGED <<browserVars, streams>>
    BY <1>11 DEF OpenSnapshot, Opened, mainOnly
  <2>2. asked' = asked /\ out' = out /\ joined' = joined
    BY <1>3, <2>1 DEF browserVars, deliveryVars
  <2>3. \A fd \in Fds : table[fd] # None => table'[fd] = table[fd]
    <3>1. table \in [Fds -> Conns \cup {None, Image}] /\ table[LowestFree] = None
      BY <2>1, LowestFreeIsFree, DeliveryFacts, ViewerFacts
    <3> QED
      BY <2>1, <3>1
  <2>4. table'[http_fd'] = Client
    BY <1>5, <1>6, <2>1, <2>3, ClientApart, DeliveryFacts, Sizes DEF Client
  <2>5. AtMain'
    <3> DEFINE c == Client
    <3>1. /\ table'[http_fd'] = c /\ joined[c] = -1 /\ out[c] = <<>> /\ asked[c] = "snapshot"
      BY <1>6, <2>1, <2>4 DEF Requests
    <3> HIDE DEF c
    <3> QED
      BY <2>1, <2>2, <3>1 DEF AtMain, Client, Requests
  <2>6. Structure'
    BY <1>11, DeliveryFacts, StructureOpens
  <2> QED
    BY <1>3, <1>5, <2>1, <2>3, <2>5, <2>6, NoWrite, MainElsewhere
<1>12. ASSUME NEW next \in {"image", "register"}, http_pc' = next,
              next = "image" => http_pc = "head", next = "register" => http_pc = "events",
              Written(http_fd, Part("head")),
              UNCHANGED <<table, http_fd, http_file, streams>>
       PROVE  DeliveryInv'
  <2>1. asked[Client] = IF next = "image" THEN "snapshot" ELSE "events"
    BY <1>6, <1>12 DEF Requests
  <2>2. http_pc \notin {"image", "register"}
    BY <1>12
  <2>3. /\ OnlyClient /\ BrowserTypes' /\ Shapes'
        /\ \/ Len(out'[Client]) = 1 /\ out'[Client][1].kind = "head"
           \/ out'[Client] = <<>> /\ peer'[Client] # "here"
    BY <1>3, <1>5, <1>12, <2>1, <2>2, FirstPart
  <2>4. AtMain'
    <3> DEFINE c == Client
    <3>1. /\ \/ Len(out'[c]) = 1 /\ out'[c][1].kind = "head"
             \/ out'[c] = <<>> /\ peer'[c] # "here"
          /\ table'[http_fd'] = c /\ joined'[c] = -1 /\ asked'[c] = asked[c]
      BY <1>3, <1>6, <1>12, <2>3 DEF OnlyClient, Client, deliveryVars
    <3>2. asked'[c] = IF next = "image" THEN "snapshot" ELSE "events"
      BY <2>1, <3>1
    <3> HIDE DEF c
    <3> QED
      BY <1>12, <3>1, <3>2 DEF AtMain, Client, HeadOnly, Requests
  <2> QED
    BY <1>3, <1>5, <1>12, <2>2, <2>3, <2>4, MainGoesOn
<1>13. CASE SnapshotHead
  BY <1>12, <1>13 DEF SnapshotHead, mainOnly
<1>14. CASE EventsHead
  BY <1>12, <1>14 DEF EventsHead, mainOnly
<1>15. CASE SnapshotHeadFails
  <2>1. /\ http_pc = "head" /\ UNCHANGED <<browserVars, streams>>
        /\ Closed({http_fd, http_file}) /\ BackToAccept
    BY <1>15 DEF SnapshotHeadFails, Unwritable, mainOnly
  <2>2. {http_fd} \cup (IF http_file = 0 THEN {} ELSE {http_file}) = {http_fd, http_file}
    BY <1>6, <2>1
  <2> QED
    BY <1>3, <1>5, <2>1, <2>2, NoWrite, MainCloses
<1>16. CASE SnapshotImage
  <2>1. /\ http_pc = "image" /\ streams' = streams
        /\ (Written(http_fd, Part("image")) \/ Unwritable(http_fd))
    BY <1>16 DEF SnapshotImage, mainOnly
  <2>2. Closed({http_fd, http_file}) /\ BackToAccept
    BY <1>16 DEF SnapshotImage
  <2>3. {http_fd} \cup (IF http_file = 0 THEN {} ELSE {http_file}) = {http_fd, http_file}
    BY <1>6, <2>1
  <2>4. OnlyClient /\ BrowserTypes' /\ Shapes'
    BY <1>3, <1>5, <2>1, SecondPart
  <2> QED
    BY <1>3, <1>5, <2>1, <2>2, <2>3, <2>4, MainCloses
<1>17. CASE SpawnStream
  <2>1. http_pc = "stream" /\ BackToAccept /\ UNCHANGED browserVars
    BY <1>17 DEF SpawnStream
  <2>2. CASE streams' = streams \cup {http_fd} /\ table' = table
    <3>1. asked' = asked /\ out' = out /\ joined' = joined /\ peer' = peer
          /\ mq_pc' = mq_pc /\ index' = index
      BY <1>3, <2>1 DEF browserVars, deliveryVars, mqttVars
    <3>2. Structure'
      BY <1>5, <2>1, <2>2, <3>1, DeliveryFacts, StructureSpawned
    <3>3. out[Client] = <<>> /\ joined[Client] = -1 /\ asked[Client] = "stream"
      BY <1>6, <2>1 DEF Requests
    <3>4. \A fd \in streams' :
            \/ fd \in streams
            \/ /\ out'[table'[fd]] = <<>> /\ joined'[table'[fd]] = -1
               /\ asked'[table'[fd]] = "stream"
      BY <2>2, <3>1, <3>3 DEF Client
    <3> QED
      BY <1>3, <1>5, <2>1, <2>2, <3>2, <3>4, NoWrite, AtMainDone, MainElsewhere
  <2>3. CASE Closed({http_fd}) /\ streams' = streams
    <3>1. {http_fd} \cup (IF http_file = 0 THEN {} ELSE {http_file}) = {http_fd}
      BY <1>6, <2>1
    <3> QED
      BY <1>3, <1>5, <2>1, <2>3, <3>1, NoWrite, MainCloses
  <2> QED
    BY <1>17, <2>2, <2>3 DEF SpawnStream
<1>18. CASE EventsHeadFails
  <2>1. /\ http_pc = "events" /\ UNCHANGED <<browserVars, streams>>
        /\ Closed({http_fd}) /\ BackToAccept
    BY <1>18 DEF EventsHeadFails, Unwritable, mainOnly
  <2>2. {http_fd} \cup (IF http_file = 0 THEN {} ELSE {http_file}) = {http_fd}
    BY <1>6, <2>1
  <2> QED
    BY <1>3, <1>5, <2>1, <2>2, NoWrite, MainCloses
<1> QED
  BY <1>1, <1>7, <1>8, <1>9, <1>10, <1>11, <1>13, <1>14, <1>15, <1>16, <1>17, <1>18
     DEF Http, ServePage, SendHttpError
--------------------------------------------------------------------------------
(* The theorems about the delivery of events. *)

LEMMA InitFacts ==
  ASSUME Init
  PROVE  /\ peer = [c \in Conns |-> "absent"] /\ asked = [c \in Conns |-> ""]
         /\ out = [c \in Conns |-> <<>>] /\ taken = [c \in Conns |-> 0]
         /\ joined = [c \in Conns |-> -1]
         /\ backlog = <<>> /\ table = [fd \in Fds |-> None] /\ sse_clients = <<>>
         /\ http_pc = "accept" /\ http_fd = 0 /\ http_file = 0 /\ streams = {}
         /\ incoming = <<>> /\ mq_pc = "connect" /\ index = 0
         /\ raw_pc = "idle" /\ i = 0 /\ offset = 0
         /\ link = "none" /\ published = 0 /\ feed = <<>>
BY DEF Init, ServerInit, PayloadInit

LEMMA InitLengths ==
  ASSUME Init
  PROVE  /\ Len(backlog) = 0 /\ Len(sse_clients) = 0 /\ Len(incoming) = 0
         /\ Len(feed) = 0 /\ i = 0 /\ offset = 0 /\ published = 0 /\ index = 0
         /\ \A c \in Conns : joined[c] = -1 /\ taken[c] = 0 /\ Len(out[c]) = 0
         /\ 1 .. Len(backlog) = {} /\ 1 .. Len(sse_clients) = {}
<1>1. /\ Len(backlog) = 0 /\ Len(sse_clients) = 0 /\ Len(incoming) = 0
      /\ Len(feed) = 0
  BY InitFacts, EmptySeq
<1>2. i = 0 /\ offset = 0 /\ published = 0 /\ index = 0
  BY InitFacts
<1>3. \A c \in Conns : joined[c] = -1 /\ taken[c] = 0 /\ out[c] = <<>>
  BY InitFacts
<1>4. \A c \in Conns : Len(out[c]) = 0
  BY <1>3, EmptySeq
<1> QED
  BY <1>1, <1>2, <1>3, <1>4

LEMMA InitDelivers ==
  ASSUME Init
  PROVE  DeliveryInv
<1>1. /\ <<>> \in Seq(WholePart) /\ <<>> \in Seq(Conns) /\ <<>> \in Seq(Fds)
      /\ <<>> \in Seq(Message) /\ <<>> \in Seq(Event) /\ Len(<<>>) = 0
  OBVIOUS
<1>2. \A k : ~Live(k)
  BY InitLengths DEF Live
<1>3. BrowserTypes
  <2>1. peer \in [Conns -> {"absent", "here", "left", "reset"}]
    BY InitFacts
  <2>2. \A c \in Conns : taken[c] <= Len(out[c]) /\ Len(out[c]) - taken[c] <= SocketRoom
    <3>1. SocketRoom \in Nat /\ 0 <= 0 /\ 0 - 0 = 0
      BY Sizes
    <3> QED
      BY <3>1, InitLengths
  <2>3. asked \in [Conns -> Requests \cup {""}] /\ taken \in [Conns -> Nat]
    <3>1. asked = [c \in Conns |-> ""] /\ taken = [c \in Conns |-> 0]
      BY InitFacts
    <3> QED
      BY <3>1
  <2>4. out \in [Conns -> Seq(WholePart)]
    BY <1>1, InitFacts
  <2> QED
    BY <2>1, <2>2, <2>3, <2>4 DEF BrowserTypes
<1>4. ViewerTypes
  <2>1. index \in 0 .. Len(sse_clients)
    BY InitLengths
  <2>2. backlog \in Seq(Conns) /\ sse_clients \in Seq(Fds)
    BY <1>1, InitFacts
  <2>3. table \in [Fds -> Conns \cup {None, Image}]
    BY InitFacts
  <2>4. /\ http_pc \in {"accept"} /\ http_fd \in {0} /\ http_file \in {0}
        /\ streams = {} /\ mq_pc = "connect"
    BY InitFacts
  <2> QED
    BY <2>1, <2>2, <2>3, <2>4 DEF ViewerTypes
<1>5. MessageTypes
  <2>1. i \in 0 .. MaxObjects /\ offset \in Nat /\ published \in 0 .. MaxMessages
    <3>1. MaxObjects \in Nat /\ MaxMessages \in Nat
      BY PayloadAssumption, DeliveryAssumption
    <3> QED
      BY <3>1, InitLengths
  <2>2. Len(feed) + Len(incoming) <= published
    BY InitLengths
  <2>3. \A c \in Conns : joined[c] >= -1 /\ joined[c] <= Len(feed)
    BY InitLengths
  <2>4. incoming \in Seq(Message) /\ feed \in Seq(Event)
    BY <1>1, InitFacts
  <2>5. joined \in [Conns -> Int] /\ raw_pc = "idle" /\ link = "none"
    <3>1. joined = [c \in Conns |-> -1] /\ raw_pc = "idle" /\ link = "none"
      BY InitFacts
    <3>2. -1 \in Int
      OBVIOUS
    <3> QED
      BY <3>1, <3>2
  <2> QED
    BY <2>1, <2>2, <2>3, <2>4, <2>5 DEF MessageTypes
<1>6. \A fd \in Fds : table[fd] = None /\ fd # 0
  BY InitFacts, Sizes
<1>7. Ownership
  BY <1>2, <1>6, InitFacts, InitLengths DEF Ownership, Listed
<1>8. Places
  BY <1>2, InitFacts, InitLengths DEF Places
<1>9. Connections
  BY <1>6, InitLengths, Sizes DEF Connections
<1>10. Answering
  <2>1. \A c \in Conns : Unanswered(c)
    BY InitFacts DEF Unanswered
  <2> QED
    BY <2>1, InitFacts, InitLengths DEF Answering, NotYet, AtMain
<1>11. Shapes
  <2>1. \A c \in Conns : asked[c] = "" /\ out[c] = <<>>
    BY InitFacts
  <2>2. ASSUME NEW c \in Conns
        PROVE  Shape(asked[c], out[c], Len(feed))
    BY <2>1 DEF Shape
  <2> QED
    BY <2>2 DEF Shapes
<1>12. InHand /\ Delivering
  BY <1>2, InitFacts DEF InHand, Delivering
<1> QED
  BY <1>3, <1>4, <1>5, <1>7, <1>8, <1>9, <1>10, <1>11, <1>12 DEF DeliveryInv

(* The inductive invariant: who holds each descriptor, what was written to each
   connection, and how much of the feed each client of /events was sent. *)
THEOREM DeliveryInvariant == FairSpec => [](WholeInv /\ DeliveryInv)
<1>1. Init => DeliveryInv
  BY InitDelivers
<1>2. WholeInv /\ DeliveryInv /\ [Next]_vars => DeliveryInv'
  <2> SUFFICES ASSUME WholeInv, DeliveryInv, [Next]_vars PROVE DeliveryInv'
    OBVIOUS
  <2>1. CASE FormatMessage
    BY <2>1, FormatDelivers
  <2>2. CASE PublishMessage
    BY <2>2, PublishDelivers
  <2>3. CASE LinkLost \/ MqttConnect \/ UNCHANGED vars
    BY <2>3, LinkDelivers
  <2>4. CASE OnMessage
    BY <2>4, OnMessageDelivers
  <2>5. CASE SseBroadcast
    BY <2>5, BroadcastDelivers
  <2>6. CASE HttpStep
    BY <2>6, HttpDelivers
  <2>7. CASE StreamStep
    BY <2>7, StreamDelivers
  <2>8. CASE BrowserStep
    BY <2>8, BrowserDelivers
  <2> QED
    BY <2>1, <2>2, <2>3, <2>4, <2>5, <2>6, <2>7, <2>8 DEF Next, Mqtt
<1> QED
  BY <1>1, <1>2, WholeInvariance, PTL DEF FairSpec

(* Every variable keeps its type; no connection holds more than SocketRoom that its
   browser has not read, and no event is broadcast that was not published. *)
THEOREM TypeCorrect == FairSpec => []TypeOK
<1>1. DeliveryInv => TypeOK
  <2> SUFFICES ASSUME DeliveryInv PROVE TypeOK
    OBVIOUS
  <2>1. PayloadTypeOK /\ link \in {"none", "subscribed", "deaf"}
        /\ published \in 0 .. MaxMessages /\ Len(feed) + Len(incoming) <= published
    BY DeliveryFacts DEF MessageTypes, PayloadTypeOK
  <2>2. ASSUME NEW c \in Conns
        PROVE  joined[c] \in -1 .. Len(feed)
    <3>1. joined[c] \in Int /\ joined[c] >= -1 /\ joined[c] <= Len(feed)
      BY DeliveryFacts DEF MessageTypes
    <3>2. Len(feed) \in Nat
      BY DeliveryFacts DEF MessageTypes
    <3> QED
      BY <3>1, <3>2
  <2>3. ASSUME NEW c \in Conns
        PROVE  /\ peer[c] \in {"absent", "here", "left", "reset"}
               /\ asked[c] \in Requests \cup {""}
               /\ taken[c] \in 0 .. Len(out[c]) /\ Unread(c) <= SocketRoom
    <3>1. taken[c] \in Nat /\ taken[c] <= Len(out[c]) /\ Unread(c) <= SocketRoom
      BY DeliveryFacts DEF BrowserTypes, Unread
    <3>2. out[c] \in Seq(WholePart)
      BY DeliveryFacts DEF BrowserTypes
    <3>3. Len(out[c]) \in Nat
      BY <3>2
    <3>4. taken[c] \in 0 .. Len(out[c])
      BY <3>1, <3>3
    <3>5. /\ peer[c] \in {"absent", "here", "left", "reset"}
          /\ asked[c] \in Requests \cup {""}
      BY DeliveryFacts DEF BrowserTypes
    <3> QED
      BY <3>1, <3>4, <3>5
  <2>4. ServerTypeOK
    BY <2>3, DeliveryFacts DEF ServerTypeOK, ViewerTypes
  <2> QED
    BY <2>1, <2>2, <2>4 DEF TypeOK
<1> QED
  BY <1>1, DeliveryInvariant, PTL

Answers == {"", "page", "error", "head", "image", "event"}

LEMMA OneAnswer ==
  ASSUME NEW kind \in Answers
  PROVE  <<kind>> \in Seq(Answers) /\ Len(<<kind>>) = 1 /\ <<kind>>[1] = kind
<1>1. <<kind>> \in Seq(Answers)
  OBVIOUS
<1>2. Len(<<kind>>) = 1 /\ <<kind>>[1] = kind
  OBVIOUS
<1> QED
  BY <1>1, <1>2

LEMMA PrefixOf ==
  ASSUME NEW s \in Seq(Answers), NEW t \in Seq(Answers), Len(s) <= Len(t),
         \A k \in 1 .. Len(s) : s[k] = t[k]
  PROVE  IsPrefix(s, t)
<1>1. Len(s) \in Nat /\ Len(t) \in Nat
  OBVIOUS
<1>2. \A k \in 1 .. Len(s) : s[k] \in Answers /\ t[k] \in Answers
  BY <1>1, ElementOfSeq
<1> DEFINE u == SubSeq(s, 1, Len(s))
           v == SubSeq(t, 1, Len(s))
<1>3. /\ u \in Seq(Answers)
      /\ Len(u) = IF 1 <= Len(s) THEN Len(s) - 1 + 1 ELSE 0
      /\ \A k \in 1 .. Len(s) - 1 + 1 : u[k] = s[1 + k - 1]
  BY <1>1, <1>2, SubSeqProperties
<1>4. /\ v \in Seq(Answers)
      /\ Len(v) = IF 1 <= Len(s) THEN Len(s) - 1 + 1 ELSE 0
      /\ \A k \in 1 .. Len(s) - 1 + 1 : v[k] = t[1 + k - 1]
  BY <1>1, <1>2, SubSeqProperties
<1> HIDE DEF u, v
<1>5. Len(u) = Len(s) /\ Len(v) = Len(s)
  BY <1>1, <1>3, <1>4
<1>6. ASSUME NEW k \in 1 .. Len(u)
      PROVE  u[k] = v[k]
  <2>1. k \in 1 .. Len(s) - 1 + 1 /\ 1 + k - 1 = k /\ k \in 1 .. Len(s)
    BY <1>1, <1>5
  <2> QED
    BY <1>3, <1>4, <2>1
<1>7. u = v
  BY <1>3, <1>4, <1>5, <1>6, SeqEqual
<1> QED
  BY <1>7 DEF IsPrefix, u, v

(* What browsers receive is the start of an answer to their own request, whoever
   else held the same descriptor before and however many events there were. *)
THEOREM StreamsStayIntact == FairSpec => []StreamsIntact
<1>1. DeliveryInv => StreamsIntact
  <2> SUFFICES ASSUME DeliveryInv, NEW c \in Conns
               PROVE  \E response \in Responses(asked[c]) : IsPrefix(Kinds(c), response)
    BY DEF StreamsIntact
  <2>0. asked[c] \in Requests \cup {""}
    BY DeliveryFacts DEF BrowserTypes
  <2>1. out[c] \in Seq(WholePart)
    BY DeliveryFacts DEF BrowserTypes
  <2>2. Shape(asked[c], out[c], Len(feed))
    BY DeliveryFacts DEF Shapes
  <2>3. Len(out[c]) \in Nat /\ DOMAIN out[c] = 1 .. Len(out[c])
    BY <2>1, LenProperties
  <2>4. Kinds(c) \in Seq(Answers) /\ Len(Kinds(c)) = Len(out[c])
        /\ \A k \in 1 .. Len(out[c]) : Kinds(c)[k] = out[c][k].kind
    <3>1. Kinds(c) = [k \in 1 .. Len(out[c]) |-> out[c][k].kind]
      BY <2>3 DEF Kinds
    <3>2. \A k \in 1 .. Len(out[c]) : out[c][k].kind \in Answers
      <4>1. \A k \in 1 .. Len(out[c]) : out[c][k] \in WholePart
        BY <2>1, ElementOfSeq
      <4> QED
        BY <4>1 DEF WholePart, Answers
    <3> QED
      BY <2>3, <3>1, <3>2
  <2>5. PICK kinds \in Seq(Answers) : kinds = Kinds(c)
    BY <2>4
  <2>6. ASSUME NEW t \in Seq(Answers), t \in Responses(asked[c]),
               Len(kinds) <= Len(t), \A k \in 1 .. Len(kinds) : kinds[k] = t[k]
        PROVE  \E response \in Responses(asked[c]) : IsPrefix(Kinds(c), response)
    BY <2>5, <2>6, PrefixOf
  <2>7. CASE asked[c] \in {"", "stream"}
    <3>1. <<>> \in Responses(asked[c])
      BY <2>7 DEF Responses
    <3>2. PICK t \in Seq(Answers) : t = <<>> /\ Len(t) = 0
      BY EmptySeq
    <3>3. out[c] = <<>>
      BY <2>2, <2>7 DEF Shape
    <3>4. Len(kinds) = 0
      BY <2>4, <2>5, <3>3, EmptySeq
    <3>5. Len(kinds) <= Len(t) /\ \A k \in 1 .. Len(kinds) : kinds[k] = t[k]
      BY <3>2, <3>4
    <3> QED
      BY <2>6, <3>1, <3>2, <3>5
  <2>8. CASE asked[c] = "page"
    <3>1. <<"page">> \in Responses(asked[c])
      BY <2>8 DEF Responses
    <3>2. PICK t \in Seq(Answers) : t = <<"page">> /\ Len(t) = 1 /\ t[1] = "page"
      <4>1. "page" \in Answers
        BY DEF Answers
      <4> QED
        BY <4>1, OneAnswer
    <3>3. out[c] = <<>> \/ (Len(out[c]) = 1 /\ out[c][1].kind = "page")
      BY <2>2, <2>8 DEF Shape
    <3>4. Len(kinds) = 0 \/ (Len(kinds) = 1 /\ kinds[1] = "page")
      BY <2>4, <2>5, <3>3, EmptySeq
    <3>5. Len(kinds) <= Len(t) /\ \A k \in 1 .. Len(kinds) : kinds[k] = t[k]
      BY <3>2, <3>4
    <3> QED
      BY <2>6, <3>1, <3>2, <3>5
  <2>9. CASE asked[c] = "snapshot"
    <3>1. <<"head", "image">> \in Responses(asked[c]) /\ <<"error">> \in Responses(asked[c])
      BY <2>9 DEF Responses
    <3>2. PICK t \in Seq(Answers) : t = <<"error">> /\ Len(t) = 1 /\ t[1] = "error"
      <4>1. "error" \in Answers
        BY DEF Answers
      <4> QED
        BY <4>1, OneAnswer
    <3>3. PICK u \in Seq(Answers) :
            u = <<"head", "image">> /\ Len(u) = 2 /\ u[1] = "head" /\ u[2] = "image"
      <4>1. <<"head", "image">> \in Seq(Answers)
        <5>1. "head" \in Answers /\ "image" \in Answers
          BY DEF Answers
        <5> QED
          BY <5>1
      <4>2. /\ Len(<<"head", "image">>) = 2
            /\ <<"head", "image">>[1] = "head" /\ <<"head", "image">>[2] = "image"
        OBVIOUS
      <4> QED
        BY <4>1, <4>2
    <3>4. \/ out[c] = <<>>
          \/ Len(out[c]) = 1 /\ out[c][1].kind \in {"head", "error"}
          \/ Len(out[c]) = 2 /\ out[c][1].kind = "head" /\ out[c][2].kind = "image"
      BY <2>2, <2>9 DEF Shape
    <3>5. \/ Len(kinds) = 0 \/ (Len(kinds) = 1 /\ kinds[1] \in {"head", "error"})
          \/ Len(kinds) = 2 /\ kinds[1] = "head" /\ kinds[2] = "image"
      BY <2>4, <2>5, <3>4, EmptySeq
    <3>6. CASE Len(kinds) = 1 /\ kinds[1] = "error"
      <4>1. Len(kinds) <= Len(t) /\ \A k \in 1 .. Len(kinds) : kinds[k] = t[k]
        BY <3>2, <3>6
      <4> QED
        BY <2>6, <3>1, <3>2, <4>1
    <3>7. CASE ~(Len(kinds) = 1 /\ kinds[1] = "error")
      <4>1. Len(kinds) <= Len(u)
        <5>1. CASE Len(kinds) = 0
          BY <3>3, <5>1
        <5>2. CASE Len(kinds) = 1
          BY <3>3, <5>2
        <5>3. CASE Len(kinds) = 2
          BY <3>3, <5>3
        <5> QED
          BY <3>5, <5>1, <5>2, <5>3
      <4>2. ASSUME NEW k \in 1 .. Len(kinds)
            PROVE  kinds[k] = u[k]
        <5>1. CASE Len(kinds) = 0
          BY <5>1
        <5>2. CASE Len(kinds) = 1 /\ kinds[1] = "head"
          BY <3>3, <5>2
        <5>3. CASE Len(kinds) = 2 /\ kinds[1] = "head" /\ kinds[2] = "image"
          BY <3>3, <5>3
        <5> QED
          BY <3>5, <3>7, <5>1, <5>2, <5>3
      <4> QED
        BY <2>6, <3>1, <3>3, <4>1, <4>2
    <3> QED
      BY <3>6, <3>7
  <2>10. CASE asked[c] = "events"
    <3>1. Len(feed) \in 0 .. MaxMessages
      <4>1. /\ Len(feed) \in Nat /\ Len(incoming) \in Nat
            /\ published \in 0 .. MaxMessages /\ Len(feed) + Len(incoming) <= published
        BY DeliveryFacts DEF MessageTypes
      <4> QED
        BY <4>1, DeliveryAssumption
    <3>2. PICK n \in 0 .. MaxMessages : n = Len(feed)
      BY <3>1
    <3> DEFINE events == [k \in 1 .. n |-> "event"]
               t == <<"head">> \o events
    <3>3. t \in Responses(asked[c])
      BY <2>10 DEF Responses
    <3>4. events \in Seq(Answers) /\ Len(events) = n
          /\ \A k \in 1 .. n : events[k] = "event"
      <4>1. n \in Nat
        BY <3>2
      <4>2. "event" \in Answers
        BY DEF Answers
      <4> QED
        BY <4>1, <4>2
    <3>5. <<"head">> \in Seq(Answers) /\ Len(<<"head">>) = 1 /\ <<"head">>[1] = "head"
      <4>1. "head" \in Answers
        BY DEF Answers
      <4> QED
        BY <4>1, OneAnswer
    <3> HIDE DEF events
    <3>6. /\ t \in Seq(Answers) /\ Len(t) = Len(<<"head">>) + Len(events)
          /\ \A k \in 1 .. Len(<<"head">>) + Len(events) :
               t[k] = IF k <= Len(<<"head">>) THEN <<"head">>[k]
                                              ELSE events[k - Len(<<"head">>)]
      BY <3>4, <3>5, ConcatProperties
    <3> HIDE DEF t
    <3>7. Len(t) = n + 1 /\ \A k \in 1 .. n + 1 : t[k] = IF k = 1 THEN "head" ELSE "event"
      <4>1. n \in Nat /\ Len(t) = n + 1
        BY <3>2, <3>4, <3>5, <3>6
      <4>2. ASSUME NEW k \in 1 .. n + 1
            PROVE  t[k] = IF k = 1 THEN "head" ELSE "event"
        <5>1. CASE k = 1
          BY <3>4, <3>5, <3>6, <4>1, <5>1
        <5>2. CASE k # 1
          <6>1. k - 1 \in 1 .. n /\ ~(k <= 1) /\ k \in 1 .. 1 + n
            BY <4>1, <5>2
          <6>2. t[k] = events[k - 1]
            BY <3>4, <3>5, <3>6, <6>1
          <6> QED
            BY <3>4, <5>2, <6>1, <6>2
        <5> QED
          BY <5>1, <5>2
      <4> QED
        BY <4>1, <4>2
    <3>8. /\ Len(kinds) <= n + 1
          /\ \A k \in 1 .. Len(kinds) : kinds[k] = IF k = 1 THEN "head" ELSE "event"
      BY <2>2, <2>4, <2>5, <2>10, <3>2 DEF Shape
    <3>9. \A k \in 1 .. Len(kinds) : k \in 1 .. n + 1
      BY <2>3, <2>4, <2>5, <3>2, <3>8
    <3> QED
      BY <2>6, <3>3, <3>6, <3>7, <3>8, <3>9
  <2> QED
    BY <2>0, <2>7, <2>8, <2>9, <2>10 DEF Requests
<1> QED
  BY <1>1, DeliveryInvariant, PTL

(* Every open descriptor has exactly one owner and nobody owns a closed one, for any
   number of descriptors, browsers and requests. *)
THEOREM DescriptorsOwned == FairSpec => []DescriptorOwned
<1>1. DeliveryInv => DescriptorOwned
  <2> SUFFICES ASSUME DeliveryInv, NEW fd \in Fds
               PROVE  Owners(fd) = IF table[fd] = None THEN 0 ELSE 1
    BY DEF DescriptorOwned
  <2>1. /\ fd # 0 /\ DOMAIN sse_clients = 1 .. Len(sse_clients)
        /\ \A k, l \in 1 .. Len(sse_clients) :
             Live(k) /\ Live(l) /\ sse_clients[k] = sse_clients[l] => k = l
        /\ Listed(fd) => fd # http_fd /\ fd # http_file /\ fd \notin streams
        /\ fd = http_fd => fd # http_file /\ fd \notin streams
        /\ fd = http_file => fd \notin streams
        /\ table[fd] # None <=> Listed(fd) \/ fd = http_fd \/ fd = http_file \/ fd \in streams
    <3>1. fd # 0 /\ DOMAIN sse_clients = 1 .. Len(sse_clients)
      BY DeliveryFacts, Sizes DEF ViewerTypes
    <3>2. Ownership
      BY DeliveryFacts DEF Structure
    <3> QED
      BY <3>1, <3>2 DEF Ownership, Listed
  <2> DEFINE entries == {k \in DOMAIN sse_clients :
                           sse_clients[k] = fd /\ ~(mq_pc = "erase" /\ k = index)}
             kept == {place \in {1, 2, 3} : \/ place = 1 /\ fd = http_fd
                                            \/ place = 2 /\ fd = http_file
                                            \/ place = 3 /\ fd \in streams}
  <2>2. entries = {k \in 1 .. Len(sse_clients) : Live(k) /\ sse_clients[k] = fd}
    BY <2>1 DEF Live
  <2>3. Owners(fd) = Cardinality(entries) + Cardinality(kept)
    BY DEF Owners
  <2>4. Cardinality({}) = 0 /\ \A x : Cardinality({x}) = 1
    BY FS_EmptySet, FS_Singleton
  <2>5. CASE Listed(fd)
    <3>1. PICK k \in 1 .. Len(sse_clients) : Live(k) /\ sse_clients[k] = fd
      BY <2>5 DEF Listed
    <3>2. entries = {k}
      BY <2>1, <2>2, <3>1
    <3>3. kept = {}
      BY <2>1, <2>5
    <3> HIDE DEF entries, kept
    <3> QED
      <4>1. Cardinality(entries) = 1 /\ Cardinality(kept) = 0
        BY <2>4, <3>2, <3>3
      <4>2. table[fd] # None
        BY <2>1, <2>5
      <4> QED
        BY <2>3, <4>1, <4>2
  <2>6. CASE ~Listed(fd)
    <3>1. entries = {}
      BY <2>2, <2>6 DEF Listed
    <3>2. CASE fd = http_fd
      <4>1. kept = {1}
        BY <2>1, <3>2
      <4> HIDE DEF entries, kept
      <4>2. Cardinality(entries) = 0 /\ Cardinality(kept) = 1
        BY <2>4, <3>1, <4>1
      <4>3. table[fd] # None
        BY <2>1, <3>2
      <4> QED
        BY <2>3, <4>2, <4>3
    <3>3. CASE fd = http_file
      <4>1. kept = {2}
        BY <2>1, <3>3
      <4> HIDE DEF entries, kept
      <4>2. Cardinality(entries) = 0 /\ Cardinality(kept) = 1
        BY <2>4, <3>1, <4>1
      <4>3. table[fd] # None
        BY <2>1, <3>3
      <4> QED
        BY <2>3, <4>2, <4>3
    <3>4. CASE fd \in streams
      <4>1. kept = {3}
        BY <2>1, <3>4
      <4> HIDE DEF entries, kept
      <4>2. Cardinality(entries) = 0 /\ Cardinality(kept) = 1
        BY <2>4, <3>1, <4>1
      <4>3. table[fd] # None
        BY <2>1, <3>4
      <4> QED
        BY <2>3, <4>2, <4>3
    <3>5. CASE fd # http_fd /\ fd # http_file /\ fd \notin streams
      <4>1. kept = {}
        BY <3>5
      <4> HIDE DEF entries, kept
      <4>2. Cardinality(entries) = 0 /\ Cardinality(kept) = 0
        BY <2>4, <3>1, <4>1
      <4>3. table[fd] = None
        BY <2>1, <2>6, <3>5
      <4> QED
        BY <2>3, <4>2, <4>3
    <3> QED
      BY <3>2, <3>3, <3>4, <3>5
  <2> QED
    BY <2>5, <2>6
<1> QED
  BY <1>1, DeliveryInvariant, PTL
--------------------------------------------------------------------------------
(* The refinement of EventFeed. *)

LEMMA FeedValues ==
  \A c \in Conns :
    /\ FeedState[c] = IF peer[c] \in {"left", "reset"} THEN "gone"
                      ELSE IF joined[c] = -1 THEN "out" ELSE "in"
    /\ FeedMissed[c] = IF joined[c] = -1 THEN 0 ELSE joined[c]
    /\ FeedGot[c] = EventsOf(c)
BY DEF FeedState, FeedMissed, FeedGot

\* What was written after the header grows at its end.
LEMMA TailAppended ==
  ASSUME NEW S, NEW s \in Seq(S), NEW e \in S
  PROVE  /\ s # <<>> => Tail(Append(s, e)) = Append(Tail(s), e) /\ Len(Tail(s)) = Len(s) - 1
         /\ s = <<>> => Tail(Append(s, e)) = <<>>
<1> DEFINE longer == Append(s, e)
<1>1. /\ longer \in Seq(S) /\ longer # <<>> /\ Len(longer) = Len(s) + 1
      /\ \A k \in 1 .. Len(s) : longer[k] = s[k]
      /\ longer[Len(s) + 1] = e
  BY AppendProperties
<1>2. Len(s) \in Nat /\ (s = <<>> <=> Len(s) = 0)
  <2>1. Len(s) \in Nat
    BY LenProperties
  <2>2. CASE s = <<>>
    BY <2>1, <2>2, EmptySeq
  <2>3. CASE s # <<>>
    <3>1. Len(s) \in Nat \ {0}
      BY <2>3, EmptySeq, Zenon
    <3> QED
      BY <2>3, <3>1
  <2> QED
    BY <2>2, <2>3
<1> HIDE DEF longer
<1>3. PICK tail \in Seq(S) :
        /\ tail = Tail(longer) /\ Len(tail) = Len(longer) - 1
        /\ \A k \in 1 .. Len(tail) : tail[k] = longer[k + 1]
  <2>1. /\ Tail(longer) \in Seq(S) /\ Len(Tail(longer)) = Len(longer) - 1
        /\ \A k \in 1 .. Len(Tail(longer)) : Tail(longer)[k] = longer[k + 1]
    BY <1>1, HeadTailProperties
  <2> QED
    BY <2>1, Zenon
<1>4. CASE s = <<>>
  <2>1. Len(tail) = 0
    BY <1>1, <1>2, <1>3, <1>4
  <2>2. tail = <<>>
    BY <1>3, <2>1, EmptySeq
  <2> QED
    BY <1>3, <1>4, <2>2 DEF longer
<1>5. CASE s # <<>>
  <2> DEFINE rest == Tail(s)
             more == Append(rest, e)
  <2>1. /\ rest \in Seq(S) /\ Len(rest) = Len(s) - 1
        /\ \A k \in 1 .. Len(rest) : rest[k] = s[k + 1]
    BY <1>5, HeadTailProperties
  <2> HIDE DEF rest
  <2>2. /\ more \in Seq(S) /\ Len(more) = Len(rest) + 1
        /\ \A k \in 1 .. Len(rest) : more[k] = rest[k]
        /\ more[Len(rest) + 1] = e
    BY <2>1, AppendProperties
  <2> HIDE DEF more
  <2>3. Len(more) = Len(s) /\ Len(tail) = Len(s)
    BY <1>1, <1>2, <1>3, <2>1, <2>2
  <2>4. ASSUME NEW k \in 1 .. Len(more)
        PROVE  tail[k] = more[k]
    <3>1. k \in Nat /\ k >= 1 /\ k <= Len(s) /\ tail[k] = longer[k + 1]
      BY <1>2, <1>3, <2>3
    <3>2. CASE k = Len(s)
      <4>1. longer[k + 1] = e /\ more[k] = e
        BY <1>1, <1>2, <2>1, <2>2, <3>2
      <4> QED
        BY <3>1, <4>1
    <3>3. CASE k # Len(s)
      <4>1. k + 1 \in 1 .. Len(s) /\ k \in 1 .. Len(rest)
        BY <1>2, <2>1, <3>1, <3>3
      <4>2. longer[k + 1] = s[k + 1]
        BY <1>1, <4>1
      <4>3. more[k] = rest[k] /\ rest[k] = s[k + 1]
        BY <2>1, <2>2, <4>1
      <4> QED
        BY <3>1, <4>2, <4>3
    <3> QED
      BY <3>2, <3>3
  <2>5. tail = more
    <3>1. Len(tail) = Len(more) /\ more \in Seq(S)
      BY <2>2, <2>3
    <3> QED
      BY <2>4, <3>1, SeqEqual
  <2> QED
    BY <1>3, <1>5, <2>1, <2>5 DEF longer, more, rest
<1> QED
  BY <1>4, <1>5

(* Steps the members of the feed do not notice. *)
LEMMA FeedRests ==
  ASSUME feed' = feed, joined' = joined,
         \A c \in Conns : /\ peer'[c] \in {"left", "reset"} <=> peer[c] \in {"left", "reset"}
                          /\ EventsOf(c)' = EventsOf(c)
  PROVE  UNCHANGED Feed!feedVars
<1>1. FeedState' = FeedState
  BY DEF FeedState
<1>2. FeedMissed' = FeedMissed
  BY DEF FeedMissed
<1>3. FeedGot' = FeedGot
  BY DEF FeedGot
<1> QED
  BY <1>1, <1>2, <1>3 DEF Feed!feedVars

(* The event in hand is written to one client that is there. *)
LEMMA FeedHands ==
  ASSUME feed' = feed, joined' = joined, peer' = peer, NEW c \in Conns, peer[c] = "here",
         joined[c] \in Int, joined[c] # -1, Len(EventsOf(c)) \in Nat, Len(feed) \in Nat,
         joined[c] + Len(EventsOf(c)) + 1 = Len(feed),
         EventsOf(c)' = Append(EventsOf(c), feed[Len(feed)]),
         \A d \in Conns : d # c => EventsOf(d)' = EventsOf(d)
  PROVE  Feed!Hand(c)
<1>1. FeedState' = FeedState /\ FeedMissed' = FeedMissed
  BY DEF FeedState, FeedMissed
<1>2. FeedState[c] = "in" /\ FeedMissed[c] = joined[c] /\ FeedGot[c] = EventsOf(c)
  BY FeedValues
<1>3. FeedMissed[c] + Len(FeedGot[c]) # Len(feed)
      /\ FeedMissed[c] + Len(FeedGot[c]) + 1 = Len(feed)
  BY <1>2
<1>4. FeedGot' = [FeedGot EXCEPT ![c] = Append(@, feed[Len(feed)])]
  <2>1. FeedGot \in [Conns -> {FeedGot[d] : d \in Conns}] /\ DOMAIN FeedGot = Conns
    BY DEF FeedGot
  <2>2. FeedGot' = [d \in Conns |-> EventsOf(d)']
    BY DEF FeedGot
  <2>3. \A d \in Conns : FeedGot[d] = EventsOf(d)
    BY FeedValues
  <2> QED
    BY <2>1, <2>2, <2>3
<1> QED
  BY <1>1, <1>2, <1>3, <1>4 DEF Feed!Hand, Feed!UpToDate

LEMMA OnMessageFeeds ==
  ASSUME DeliveryInv, DeliveryInv', OnMessage
  PROVE  \E e \in Event : Feed!Broadcast(e)
<1>1. /\ peer' = peer /\ asked' = asked /\ out' = out /\ joined' = joined
      /\ mq_pc = "idle" /\ mq_pc' = "write" /\ feed' = Append(feed, mq_event')
  BY DEF OnMessage, Receive, browserVars
<1>2. PICK e \in Event : e = mq_event'
  <2>1. InHand' /\ MessageTypes'
    BY DEF DeliveryInv
  <2>2. feed' \in Seq(Event) /\ feed' # <<>> /\ mq_event' = feed'[Len(feed')]
    BY <1>1, <2>1 DEF InHand, MessageTypes
  <2>3. Len(feed') \in 1 .. Len(feed')
    BY <2>2, EmptySeq
  <2> QED
    BY <2>2, <2>3, ElementOfSeq
<1>3. FeedState' = FeedState /\ FeedMissed' = FeedMissed /\ FeedGot' = FeedGot
  BY <1>1 DEF FeedState, FeedMissed, FeedGot, EventsOf
<1>4. ASSUME NEW c \in Conns, FeedState[c] = "in"
      PROVE  FeedMissed[c] + Len(FeedGot[c]) = Len(feed)
  <2>1. peer[c] \notin {"left", "reset"} /\ joined[c] # -1
    BY <1>4, FeedValues
  <2>2. peer[c] = "here"
    <3>1. peer[c] \in {"absent", "here", "left", "reset"}
      BY DeliveryFacts DEF BrowserTypes
    <3>2. peer[c] = "absent" => joined[c] = -1
      BY DeliveryFacts DEF NotYet, Unanswered
    <3> QED
      BY <2>1, <3>1, <3>2
  <2>3. PICK k \in 1 .. Len(sse_clients) : Live(k) /\ table[sse_clients[k]] = c
    BY <2>1, <2>2, DeliveryFacts DEF Delivering
  <2>4. Served(k, 0)
    BY <1>1, <2>3, DeliveryFacts, ServedClients DEF Pending
  <2>5. /\ asked[c] = "events" /\ out[c] # <<>>
        /\ joined[c] + Len(out[c]) - 1 = Len(feed) - 0
    BY <2>2, <2>3, <2>4 DEF Served
  <2>6. out[c] \in Seq(WholePart) /\ joined[c] \in Int /\ Len(feed) \in Nat
    BY DeliveryFacts, PartFacts, MessageFacts
  <2>7. Len(out[c]) \in Nat /\ Len(Tail(out[c])) = Len(out[c]) - 1
    BY <2>5, <2>6, HeadTailProperties, LenProperties
  <2>8. FeedMissed[c] = joined[c] /\ FeedGot[c] = Tail(out[c])
    BY <2>1, <2>5, FeedValues DEF EventsOf
  <2> QED
    BY <2>5, <2>6, <2>7, <2>8
<1>5. Feed!Broadcast(e)
  BY <1>1, <1>2, <1>3, <1>4 DEF Feed!Broadcast, Feed!UpToDate
<1> QED
  BY <1>5

LEMMA BroadcastFeeds ==
  ASSUME DeliveryInv, WholeInv, SseBroadcast
  PROVE  UNCHANGED Feed!feedVars \/ \E c \in Conns : Feed!Hand(c)
<1>1. feed' = feed /\ joined' = joined
  BY DEF SseBroadcast, deliveryVars
<1>2. CASE WriteClient
  <2>1. /\ Touched(table[sse_clients[index]], mq_event)
        /\ index \in 1 .. Len(sse_clients) /\ Live(index)
    BY <1>1, <1>2, DeliveryFacts, ClientWritten DEF WholeInv
  <2>2. mq_pc = "write" /\ Pending(index)
    BY <1>2, <2>1, DeliveryFacts, ViewerFacts DEF WriteClient, Pending
  <2>3. PICK c \in Conns : c = table[sse_clients[index]]
    BY <2>1, DeliveryFacts, ListenerApart
  <2>4. Served(index, 1)
    BY <2>1, <2>2, DeliveryFacts, ServedClients
  <2>5. /\ asked' = asked
        /\ \A d \in Conns : d # c => out'[d] = out[d] /\ peer'[d] = peer[d]
        /\ \/ peer[c] = "here" /\ peer'[c] = "here" /\ out'[c] = Append(out[c], mq_event)
           \/ /\ peer[c] \in {"left", "reset"} /\ peer'[c] \notin {"here", "absent"}
              /\ out'[c] = out[c]
    BY <2>1, <2>3 DEF Touched
  <2>6. \A d \in Conns : d # c => EventsOf(d)' = EventsOf(d)
    BY <2>5 DEF EventsOf
  <2>7. peer \in [Conns -> {"absent", "here", "left", "reset"}]
        /\ peer' \in [Conns -> {"absent", "here", "left", "reset"}]
    <3>1. BrowserTypes'
      BY <1>1, <1>2, DeliveryFacts, ClientWritten DEF WholeInv
    <3> QED
      BY <3>1, DeliveryFacts DEF BrowserTypes
  <2>8. CASE peer[c] = "here"
    <3>1. peer' = peer
      BY <2>5, <2>7, <2>8
    <3>2. asked[c] = "events" /\ joined[c] # -1 /\ out[c] # <<>>
          /\ joined[c] + Len(out[c]) - 1 = Len(feed) - 1
      BY <2>3, <2>4, <2>8 DEF Served
    <3>3. out[c] \in Seq(WholePart) /\ mq_event \in WholePart
          /\ joined[c] \in Int /\ Len(feed) \in Nat /\ Len(out[c]) \in Nat
      BY DeliveryFacts, PartFacts, MessageFacts DEF WholeInv
    <3>4. Tail(Append(out[c], mq_event)) = Append(Tail(out[c]), mq_event)
          /\ Len(Tail(out[c])) = Len(out[c]) - 1
      BY <3>2, <3>3, TailAppended
    <3>5. EventsOf(c) = Tail(out[c])
      BY <3>2 DEF EventsOf
    <3>6. EventsOf(c)' = Append(EventsOf(c), mq_event)
      <4>1. out'[c] = Append(out[c], mq_event) /\ out'[c] # <<>> /\ asked'[c] = "events"
        BY <2>5, <2>8, <3>2, <3>3, AppendProperties
      <4> QED
        BY <3>4, <3>5, <4>1 DEF EventsOf
    <3>7. mq_event = feed[Len(feed)]
      BY <2>2, DeliveryFacts DEF InHand
    <3>8. Len(EventsOf(c)) \in Nat /\ joined[c] + Len(EventsOf(c)) + 1 = Len(feed)
      <4>1. Len(out[c]) >= 1
        BY <3>2, <3>3, EmptySeq
      <4> QED
        BY <3>2, <3>3, <3>4, <3>5, <4>1
    <3> QED
      BY <1>1, <2>6, <2>8, <3>1, <3>2, <3>3, <3>6, <3>7, <3>8, FeedHands
  <2>9. CASE peer[c] # "here"
    <3>1. EventsOf(c)' = EventsOf(c)
      BY <2>5, <2>9 DEF EventsOf
    <3>2. \A d \in Conns : peer'[d] \in {"left", "reset"} <=> peer[d] \in {"left", "reset"}
      BY <2>5, <2>7, <2>9
    <3> QED
      BY <1>1, <2>6, <3>1, <3>2, FeedRests
  <2> QED
    BY <2>8, <2>9
<1>3. CASE CloseClient \/ EraseClient \/ Unlock
  <2>1. peer' = peer /\ asked' = asked /\ out' = out
    BY <1>3 DEF CloseClient, EraseClient, Unlock, Unwritable, browserVars
  <2>2. \A c \in Conns : EventsOf(c)' = EventsOf(c)
    BY <2>1 DEF EventsOf
  <2> QED
    BY <1>1, <2>1, <2>2, FeedRests
<1> QED
  BY <1>2, <1>3 DEF SseBroadcast, Broadcast

\* What main does between accepting a connection and registering it.
LEMMA MainFeeds ==
  ASSUME DeliveryInv, HttpStep, ~Register
  PROVE  UNCHANGED Feed!feedVars
<1>1. Http /\ feed' = feed /\ joined' = joined
  <2>1. Len(sse_clients) \in Nat
    BY DeliveryFacts, ViewerFacts
  <2>2. sse_clients' = sse_clients
    BY DEF HttpStep, Http, Accept, ReadRequest, ReadNothing, ServePage, SendHttpError, Answer,
          RefuseSnapshot, OpenSnapshot, SnapshotHead, SnapshotHeadFails, SnapshotImage,
          SpawnStream, EventsHead, EventsHeadFails, mainOnly
  <2> QED
    BY <2>1, <2>2 DEF HttpStep
<1>2. CASE UNCHANGED browserVars
  <2>1. peer' = peer /\ asked' = asked /\ out' = out
    BY <1>2 DEF browserVars
  <2>2. \A c \in Conns : EventsOf(c)' = EventsOf(c)
    BY <2>1 DEF EventsOf
  <2> QED
    BY <1>1, <2>1, <2>2, FeedRests
<1>3. ASSUME NEW kind \in {"page", "error", "head", "image"}, Written(http_fd, Part(kind)),
             http_fd # 0, asked[Client] # "events" \/ out[Client] = <<>>
      PROVE  UNCHANGED Feed!feedVars
  <2>1. PICK c \in Conns : c = Client
    BY <1>3, DeliveryFacts, ClientApart
  <2>2. PICK part \in WholePart : part = Part(kind)
    BY DEF Part, WholePart
  <2>3. BrowserTypes' /\ Touched(c, part)
    BY <1>3, <2>1, <2>2, DeliveryFacts, WriteTouches DEF Client
  <2>4. /\ asked' = asked
        /\ \A d \in Conns : d # c => out'[d] = out[d] /\ peer'[d] = peer[d]
        /\ \/ peer[c] = "here" /\ peer'[c] = "here" /\ out'[c] = Append(out[c], part)
           \/ /\ peer[c] \in {"left", "reset"} /\ peer'[c] \notin {"here", "absent"}
              /\ out'[c] = out[c]
    BY <2>3 DEF Touched
  <2>5. EventsOf(c)' = EventsOf(c)
    <3>1. CASE asked[c] # "events"
      BY <2>4, <3>1 DEF EventsOf
    <3>2. CASE out[c] = <<>>
      <4>1. EventsOf(c) = <<>>
        BY <3>2 DEF EventsOf
      <4>2. out'[c] = <<>> \/ Tail(out'[c]) = <<>>
        <5>1. out[c] \in Seq(WholePart)
          BY DeliveryFacts, PartFacts
        <5>2. Tail(Append(out[c], part)) = <<>>
          BY <3>2, <5>1, TailAppended
        <5> QED
          BY <2>4, <3>2, <5>2
      <4> QED
        BY <4>1, <4>2 DEF EventsOf
    <3> QED
      BY <1>3, <2>1, <3>1, <3>2
  <2>6. \A d \in Conns : EventsOf(d)' = EventsOf(d)
    BY <2>4, <2>5 DEF EventsOf
  <2>7. \A d \in Conns : peer'[d] \in {"left", "reset"} <=> peer[d] \in {"left", "reset"}
    <3>1. peer'[c] \in {"absent", "here", "left", "reset"}
      BY <2>3 DEF BrowserTypes
    <3> QED
      BY <2>4, <3>1
  <2> QED
    BY <1>1, <2>6, <2>7, FeedRests
<1>4. /\ http_fd = 0 <=> http_pc = "accept"
      /\ http_fd # 0 =>
           /\ http_pc \in Requests => asked[Client] = http_pc /\ out[Client] = <<>>
           /\ http_pc \in {"error", "head", "image"} => asked[Client] = "snapshot"
  BY DeliveryFacts DEF Places, AtMain, Requests
<1>5. CASE SnapshotHead \/ EventsHead
  <2>1. Written(http_fd, Part("head")) /\ http_pc \in {"head", "events"}
    BY <1>5 DEF SnapshotHead, EventsHead
  <2>2. http_fd # 0 /\ (asked[Client] # "events" \/ out[Client] = <<>>)
    BY <1>4, <2>1 DEF Requests
  <2> QED
    BY <1>3, <2>1, <2>2
<1>6. ASSUME NEW kind \in {"page", "error", "image"}, http_pc = kind,
             Written(http_fd, Part(kind)) \/ Unwritable(http_fd)
      PROVE  UNCHANGED Feed!feedVars
  <2>1. http_fd # 0 /\ asked[Client] # "events"
    BY <1>4, <1>6 DEF Requests
  <2> QED
    BY <1>2, <1>3, <1>6, <2>1 DEF Unwritable
<1>7. CASE ServePage \/ SendHttpError \/ SnapshotImage
  BY <1>6, <1>7 DEF ServePage, SendHttpError, Answer, SnapshotImage
<1>8. CASE \/ Accept \/ ReadRequest \/ ReadNothing \/ RefuseSnapshot \/ OpenSnapshot
           \/ SnapshotHeadFails \/ SpawnStream \/ EventsHeadFails
  <2>1. UNCHANGED browserVars
    BY <1>8 DEF Accept, ReadRequest, ReadNothing, RefuseSnapshot, OpenSnapshot,
               SnapshotHeadFails, SpawnStream, EventsHeadFails, Unwritable
  <2> QED
    BY <1>2, <2>1
<1> QED
  BY <1>1, <1>5, <1>7, <1>8 DEF Http

LEMMA RegisterFeeds ==
  ASSUME DeliveryInv, HttpStep, Register
  PROVE  UNCHANGED Feed!feedVars \/ \E c \in Conns : Feed!Join(c)
<1>1. /\ http_pc = "register" /\ feed' = feed
      /\ peer' = peer /\ asked' = asked /\ out' = out
      /\ sse_clients' = Append(sse_clients, http_fd)
  BY DEF Register, HttpStep, browserVars
<1>2. http_fd # 0 /\ joined[Client] = -1
  BY <1>1, DeliveryFacts DEF Places, AtMain
<1>3. PICK c \in Conns : c = Client /\ joined[c] = -1
  BY <1>2, DeliveryFacts, ClientApart
<1>4. \A d \in Conns : EventsOf(d)' = EventsOf(d)
  BY <1>1 DEF EventsOf
<1>5. CASE joined' = joined
  BY <1>1, <1>4, <1>5, FeedRests
<1>6. CASE peer[c] = "here" /\ joined' = [joined EXCEPT ![c] = Len(feed)]
  <2>1. /\ joined \in [Conns -> Int] /\ Len(feed) \in Nat
    BY DeliveryFacts, MessageFacts DEF MessageTypes
  <2>2. joined'[c] = Len(feed) /\ \A d \in Conns : d # c => joined'[d] = joined[d]
    BY <1>6, <2>1
  <2>3. Len(feed) # -1
    BY <2>1
  <2>4. FeedGot' = FeedGot
    BY <1>4 DEF FeedGot
  <2>5. FeedState[c] = "out"
    BY <1>3, <1>6, FeedValues
  <2>6. FeedState' = [FeedState EXCEPT ![c] = "in"]
    BY <1>1, <1>6, <2>2, <2>3 DEF FeedState
  <2>7. FeedMissed' = [FeedMissed EXCEPT ![c] = Len(feed)]
    BY <2>2, <2>3 DEF FeedMissed
  <2> QED
    BY <1>1, <2>4, <2>5, <2>6, <2>7 DEF Feed!Join
<1> QED
  BY <1>3, <1>5, <1>6 DEF HttpStep, Client

LEMMA BrowserFeeds ==
  ASSUME DeliveryInv, BrowserStep
  PROVE  UNCHANGED Feed!feedVars \/ \E c \in Conns : Feed!Leave(c)
<1>1. feed' = feed /\ joined' = joined
  BY DEF BrowserStep, deliveryVars
<1>2. /\ peer \in [Conns -> {"absent", "here", "left", "reset"}]
      /\ asked \in [Conns -> Requests \cup {""}]
  BY DeliveryFacts DEF BrowserTypes
<1>3. ASSUME NEW c \in Conns, Connect(c)
      PROVE  UNCHANGED Feed!feedVars
  <2>1. /\ asked' = asked /\ out' = out /\ peer[c] = "absent"
        /\ peer' = [peer EXCEPT ![c] = "here"]
    BY <1>3 DEF Connect
  <2>2. \A d \in Conns : EventsOf(d)' = EventsOf(d)
    BY <2>1 DEF EventsOf
  <2>3. \A d \in Conns : peer'[d] \in {"left", "reset"} <=> peer[d] \in {"left", "reset"}
    BY <1>2, <2>1
  <2> QED
    BY <1>1, <2>2, <2>3, FeedRests
<1>4. ASSUME NEW c \in Conns, ReadPart(c)
      PROVE  UNCHANGED Feed!feedVars
  <2>1. asked' = asked /\ out' = out /\ peer' = peer
    BY <1>4 DEF ReadPart
  <2>2. \A d \in Conns : EventsOf(d)' = EventsOf(d)
    BY <2>1 DEF EventsOf
  <2> QED
    BY <1>1, <2>1, <2>2, FeedRests
<1>5. ASSUME NEW c \in Conns, NEW request \in Requests, Ask(c, request)
      PROVE  UNCHANGED Feed!feedVars
  <2>1. /\ out' = out /\ peer' = peer /\ asked[c] = ""
        /\ asked' = [asked EXCEPT ![c] = request]
    BY <1>5 DEF Ask
  <2>2. out[c] = <<>>
    <3>1. Shape(asked[c], out[c], Len(feed))
      BY DeliveryFacts DEF Shapes
    <3> QED
      BY <2>1, <3>1 DEF Shape
  <2>3. \A d \in Conns : EventsOf(d)' = EventsOf(d)
    BY <1>2, <2>1, <2>2 DEF EventsOf
  <2> QED
    BY <1>1, <2>1, <2>3, FeedRests
<1>6. ASSUME NEW c \in Conns, Leave(c)
      PROVE  Feed!Leave(c)
  <2>1. /\ asked' = asked /\ out' = out /\ peer[c] = "here"
        /\ peer' = [peer EXCEPT ![c] = "left"]
    BY <1>6 DEF Leave
  <2>2. FeedGot' = FeedGot /\ FeedMissed' = FeedMissed
    BY <1>1, <2>1 DEF FeedGot, FeedMissed, EventsOf
  <2>3. FeedState[c] \in {"out", "in"}
    BY <2>1, FeedValues
  <2>4. peer'[c] = "left" /\ \A d \in Conns : d # c => peer'[d] = peer[d]
    BY <1>2, <2>1
  <2>5. FeedState' = [FeedState EXCEPT ![c] = "gone"]
    BY <1>1, <2>4 DEF FeedState
  <2> QED
    BY <1>1, <2>2, <2>3, <2>5 DEF Feed!Leave
<1> QED
  BY <1>3, <1>4, <1>5, <1>6 DEF BrowserStep, Browser

(* Every step of the viewer and of the alarm thread is a step of EventFeed, or none. *)
LEMMA FeedSimulation ==
  ASSUME DeliveryInv, DeliveryInv', WholeInv, [Next]_vars
  PROVE  [Feed!Next]_(Feed!feedVars)
<1>1. CASE FormatMessage \/ PublishMessage \/ LinkLost \/ MqttConnect \/ StreamStep
           \/ UNCHANGED vars
  <2>1. peer' = peer /\ asked' = asked /\ out' = out /\ feed' = feed /\ joined' = joined
    BY <1>1 DEF FormatMessage, PublishMessage, LinkLost, MqttConnect, StreamStep, StreamEnds,
               Unwritable, vars, serverVars, browserVars, deliveryVars
  <2>2. \A c \in Conns : EventsOf(c)' = EventsOf(c)
    BY <2>1 DEF EventsOf
  <2> QED
    BY <2>1, <2>2, FeedRests
<1>2. CASE OnMessage
  <2>1. \E e \in Event : Feed!Broadcast(e)
    BY <1>2, OnMessageFeeds
  <2> QED
    BY <2>1 DEF Event, Feed!Next
<1>3. CASE SseBroadcast
  BY <1>3, BroadcastFeeds DEF Feed!Next
<1>4. CASE HttpStep
  BY <1>4, MainFeeds, RegisterFeeds DEF Feed!Next
<1>5. CASE BrowserStep
  BY <1>5, BrowserFeeds DEF Feed!Next
<1> QED
  BY <1>1, <1>2, <1>3, <1>4, <1>5 DEF Next, Mqtt

(* A client of /events is sent every event broadcast since it was registered, once
   and in order, for any number of browsers that come and go and any number of
   messages: the viewer implements EventFeed. *)
THEOREM FeedIsKept == FairSpec => FeedSpec
<1>1. Init => Feed!Init
  <2> SUFFICES ASSUME Init PROVE Feed!Init
    OBVIOUS
  <2>1. \A c \in Conns : peer[c] = "absent" /\ joined[c] = -1 /\ asked[c] = ""
    BY InitFacts
  <2>2. FeedState = [c \in Conns |-> "out"]
    BY <2>1 DEF FeedState
  <2>3. FeedMissed = [c \in Conns |-> 0]
    BY <2>1 DEF FeedMissed
  <2>4. FeedGot = [c \in Conns |-> <<>>]
    BY <2>1 DEF FeedGot, EventsOf
  <2>5. feed = <<>>
    BY InitFacts
  <2> QED
    BY <2>2, <2>3, <2>4, <2>5 DEF Feed!Init
<1>2. DeliveryInv /\ DeliveryInv' /\ WholeInv /\ [Next]_vars => [Feed!Next]_(Feed!feedVars)
  BY FeedSimulation
<1> QED
  BY <1>1, <1>2, DeliveryInvariant, PTL DEF FairSpec, FeedSpec, Feed!Spec
================================================================================
