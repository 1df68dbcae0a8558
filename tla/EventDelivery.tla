------------------------------ MODULE EventDelivery ----------------------------
(***************************************************************************)
(* An event's way from alarm_thread to the browsers: publish_raw_detection *)
(* formats it (EventPayload), the broker passes it to web_viewer, and the  *)
(* MQTT thread writes it to every client that main registered (WebServer). *)
(* The whole implements EventFeed.                                         *)
(***************************************************************************)
EXTENDS EventPayload, WebServer

CONSTANTS MaxMessages,   \* bound: the messages published
          InFlight       \* bound: those the broker holds for the viewer

ASSUME DeliveryAssumption == MaxMessages \in Nat /\ InFlight \in Nat

VARIABLES link,        \* the viewer's connection to the broker
          published,
          feed, joined \* history: events broadcast; how many before each client

deliveryVars == <<link, published, feed, joined>>
vars == <<payloadVars, serverVars, deliveryVars>>

Init ==
  /\ PayloadInit /\ ServerInit
  /\ link = "none" /\ published = 0
  /\ feed = <<>> /\ joined = [c \in Conns |-> -1]
--------------------------------------------------------------------------------
(* The broker, and mqtt_thread around on_message *)

\* Messages formatted while the viewer is not subscribed leave no trace in it
\* and are left out.
FormatMessage ==
  /\ raw_pc = "idle" => link = "subscribed"
  /\ published < MaxMessages /\ Len(incoming) < InFlight
  /\ Format
  /\ UNCHANGED <<serverVars, deliveryVars>>

\* With QoS 0 a message reaches whoever is subscribed when it is published.
PublishMessage ==
  /\ RawPublish
  /\ published' = published + 1
  /\ incoming' = IF link = "subscribed"
                   THEN Append(incoming, [id |-> published', size |-> MessageLength,
                                          whole |-> MessageLength = offset])
                   ELSE incoming
  /\ UNCHANGED <<browserVars, backlog, table, httpVars, sse_clients,
                 mq_pc, mq_event, index, link, feed, joined>>

\* mosquitto_connect and the subscriptions; without a broker the thread ends.
MqttConnect ==
  /\ mq_pc = "connect"
  /\ \/ mq_pc' = "idle" /\ link' = "subscribed"
     \/ mq_pc' = "exited" /\ UNCHANGED link
  /\ UNCHANGED <<payloadVars, browserVars, backlog, table, httpVars, sse_clients,
                 incoming, mq_event, index, published, feed, joined>>

\* mosquitto_loop_forever connects again after a while, but the session is a
\* clean one and nobody subscribes again: the viewer stays deaf.
LinkLost ==
  /\ link = "subscribed"
  /\ link' = "deaf"
  /\ UNCHANGED <<payloadVars, serverVars, published, feed, joined>>

\* on_message: the event with which sse_broadcast is called.
OnMessage ==
  /\ incoming # <<>>
  /\ LET message == Head(incoming)
         size == Received(message.size)
     IN  Receive([kind |-> "event", id |-> message.id,
                  whole |-> message.whole /\ size = message.size /\ FitsEvent(size)])
  /\ feed' = Append(feed, mq_event')
  /\ UNCHANGED <<payloadVars, link, published, joined>>

SseBroadcast == Broadcast /\ UNCHANGED <<payloadVars, deliveryVars>>

Mqtt == MqttConnect \/ OnMessage \/ SseBroadcast

HttpStep ==
  /\ Http
  /\ joined' = IF Len(sse_clients') > Len(sse_clients) /\ peer[table[http_fd]] = "here"
                 THEN [joined EXCEPT ![table[http_fd]] = Len(feed)]
                 ELSE joined
  /\ UNCHANGED <<payloadVars, link, published, feed>>

BrowserStep == Browser /\ UNCHANGED <<payloadVars, deliveryVars>>
StreamStep == StreamEnds /\ UNCHANGED <<payloadVars, deliveryVars>>

Next == \/ FormatMessage \/ PublishMessage \/ LinkLost
        \/ Mqtt \/ HttpStep \/ StreamStep \/ BrowserStep

\* The kernel runs main and the MQTT thread; nobody makes a browser do anything.
FairSpec == Init /\ [][Next]_vars /\ WF_vars(HttpStep) /\ WF_vars(Mqtt)
--------------------------------------------------------------------------------
(* Type invariant. *)
TypeOK ==
  /\ PayloadTypeOK /\ ServerTypeOK
  /\ link \in {"none", "subscribed", "deaf"}
  /\ published \in 0 .. MaxMessages
  /\ Len(feed) + Len(incoming) <= published
  /\ \A c \in Conns : joined[c] \in -1 .. Len(feed)

\* The parts of a response that may have been written to a browser by now.
Responses(request) ==
  CASE request = "page" -> {<<"page">>}
    [] request = "snapshot" -> {<<"head", "image">>, <<"error">>}
    [] request = "stream" -> {<<>>}
    [] request = "events" -> {<<"head">> \o [k \in 1 .. n |-> "event"] :
                                n \in 0 .. MaxMessages}
    [] OTHER -> {<<>>}

Kinds(c) == [k \in DOMAIN out[c] |-> out[c][k].kind]

(* What a browser receives is the start of an answer to its own request, the
   header first and no part of another's: a descriptor that the MQTT thread has
   closed, and that accept hands out again, is not written to through the old
   entry of sse_clients, and no event overtakes the header of /events. *)
StreamsIntact ==
  \A c \in Conns : \E response \in Responses(asked[c]) : IsPrefix(Kinds(c), response)

(* No event reaches a browser with its end cut off by one of the three buffers
   it passes through. *)
EventsWhole == \A c \in Conns : \A k \in DOMAIN out[c] : out[c][k].whole

\* What passes through the viewer uncut.
WholePart == [kind : {"", "page", "error", "head", "image", "event"}, id : Nat,
              whole : {TRUE}]
WholeMessage == {message \in [id : Nat, size : Nat, whole : {TRUE}] :
                   message.size < ReceiveRoom /\ FitsEvent(message.size)}

(* The inductive invariant behind EventsWhole: the margin of the formatter, and
   what it leaves for the two buffers of the viewer. *)
WholeInv ==
  /\ offset \in Nat /\ published \in Nat
  /\ raw_pc \in {"idle", "objects", "tail", "publish"}
  /\ Margins
  /\ incoming \in Seq(WholeMessage)
  /\ mq_event \in WholePart
  /\ out \in [Conns -> Seq(WholePart)]

\* The places where the viewer remembers a descriptor it has to close.
Owners(fd) ==
  Cardinality({k \in DOMAIN sse_clients :
                 sse_clients[k] = fd /\ ~(mq_pc = "erase" /\ k = index)})
  + Cardinality({kept \in {1, 2, 3} : \/ kept = 1 /\ fd = http_fd
                                      \/ kept = 2 /\ fd = http_file
                                      \/ kept = 3 /\ fd \in streams})

(* Every open descriptor has exactly one owner that will close it, and nobody
   owns a closed one: no early return leaks a descriptor or closes another's. *)
DescriptorOwned ==
  \A fd \in Fds : Owners(fd) = IF table[fd] = None THEN 0 ELSE 1

\* What a client of /events was sent after the header.
EventsOf(c) == IF asked[c] = "events" /\ out[c] # <<>> THEN Tail(out[c]) ELSE <<>>

\* What the members of EventFeed's feed know.
FeedState == [c \in Conns |-> IF peer[c] \in {"left", "reset"} THEN "gone"
                             ELSE IF joined[c] = -1 THEN "out" ELSE "in"]
FeedMissed == [c \in Conns |-> IF joined[c] = -1 THEN 0 ELSE joined[c]]
FeedGot == [c \in Conns |-> EventsOf(c)]

Feed == INSTANCE EventFeed WITH
  Members <- Conns,
  Events <- [kind : {"event"}, id : 1 .. MaxMessages, whole : BOOLEAN],
  state <- FeedState, missed <- FeedMissed, got <- FeedGot

(* A client of /events receives every event broadcast after its registration,
   once and in order, however clients come and go during the broadcasts. *)
FeedSpec == Feed!Spec

\* Browsers read what they are sent, and send the request they connected for.
Outside == UNCHANGED <<payloadVars, deliveryVars>>
Attentive == WF_vars(Outside /\ \E c \in Conns : ReadPart(c))
Prompt == WF_vars(Outside /\ \E c \in Conns, request \in Requests : Ask(c, request))

(* While browsers go on reading, a broadcast comes to an end and gives sse_mtx
   back, even when clients break off in the middle of it. *)
BroadcastEnds == Attentive => (mq_pc = "write" ~> mq_pc = "idle")

Waiting(c) == \/ c \in ToSet(backlog)
              \/ http_fd # 0 /\ table[http_fd] = c

(* While browsers send their request and go on reading, or leave, main gets
   round to each connection and through with it. *)
RequestServed == Attentive /\ Prompt => \A c \in Conns : Waiting(c) ~> ~Waiting(c)
================================================================================
