------------------------------ MODULE EventPayload -----------------------------
(***************************************************************************)
(* The raw detection message on its way through three fixed buffers:       *)
(* publish_raw_detection (src/alarm.cpp) formats it, on_message of the web *)
(* viewer (src/web_viewer.cpp) copies it, and sse_broadcast puts the       *)
(* framing of a server-sent event around it.                               *)
(*                                                                         *)
(* Text is reduced to its length.  snprintf returns the length the text    *)
(* would have had, so offset may run past the buffer; from then on         *)
(* sizeof(payload) - offset wraps around to a huge size.                   *)
(***************************************************************************)
EXTENDS Integers

CONSTANTS Room,            \* sizeof(payload) in publish_raw_detection
          Margin,          \* what the loop over the detections keeps free
          MaxObjects,      \* the detections a message may list
          HeadLengths,     \* lengths of {"seq":...,"objects":[
          ObjectLengths,   \* lengths of one detection with its comma
          ReceiveRoom,     \* sizeof(payload) in on_message
          SseRoom          \* sizeof(buf) in sse_broadcast

TailLength == 2            \* ]}
FrameLength == 8           \* data: and the blank line

(* A detection with the longest name and four full-width ints takes fewer than
   100 bytes of the margin of 256. *)
ASSUME PayloadAssumption ==
  /\ Room \in Nat /\ Margin \in Nat /\ MaxObjects \in Nat
  /\ HeadLengths \subseteq Nat /\ ObjectLengths \subseteq Nat
  /\ ReceiveRoom \in Nat /\ SseRoom \in Nat
  /\ \A h \in HeadLengths : h < Room - Margin
  /\ \A l \in ObjectLengths : l + TailLength + FrameLength <= Margin
  /\ TailLength + FrameLength <= Margin
  /\ Room <= ReceiveRoom /\ Room <= SseRoom

VARIABLES raw_pc,    \* "idle", "objects", "tail" or "publish"
          i, offset

payloadVars == <<raw_pc, i, offset>>

PayloadInit == raw_pc = "idle" /\ i = 0 /\ offset = 0

RawHead ==
  /\ raw_pc = "idle"
  /\ offset' \in HeadLengths
  /\ i' = 0 /\ raw_pc' = "objects"

\* Mutation: the loop does not look at the room that is left.
RawObjectToTheEnd ==
  /\ raw_pc = "objects" /\ i < MaxObjects
  /\ \E l \in ObjectLengths : offset' = offset + l
  /\ i' = i + 1
  /\ UNCHANGED raw_pc

RawObject ==
  /\ raw_pc = "objects" /\ i < MaxObjects
  /\ \E l \in ObjectLengths : offset' = offset + l
  /\ i' = i + 1
  /\ raw_pc' = IF offset' >= Room - Margin THEN "tail" ELSE "objects"

\* The loop ends at the margin, or at the end of the detections: any number up
\* to MaxObjects.
RawTail ==
  /\ raw_pc \in {"tail", "objects"}
  /\ offset' = offset + TailLength
  /\ raw_pc' = "publish"
  /\ UNCHANGED i

Format == RawHead \/ RawObject \/ RawTail

\* mosquitto_publish is handed strlen(payload) bytes; the buffer is forgotten.
RawPublish ==
  /\ raw_pc = "publish"
  /\ raw_pc' = "idle" /\ i' = 0 /\ offset' = 0

\* What snprintf leaves in a buffer: no more than fits with its terminator.
Fitted(n, room) == IF n < room THEN n ELSE room - 1

MessageLength == Fitted(offset, Room)

\* on_message keeps at most ReceiveRoom - 1 bytes.
Received(n) == Fitted(n, ReceiveRoom)

\* A message of n bytes is not cut when sse_broadcast frames it.
FitsEvent(n) == n + FrameLength < SseRoom
--------------------------------------------------------------------------------
(* Type invariant of the buffers. *)
PayloadTypeOK ==
  /\ raw_pc \in {"idle", "objects", "tail", "publish"}
  /\ i \in 0 .. MaxObjects /\ offset \in Nat

(* No call of snprintf in publish_raw_detection starts at or beyond the end of
   the buffer, where the room left would wrap around; and the message that is
   published reaches the browsers with nothing cut off, in on_message or
   together with the blank line that ends the event. *)
PayloadWhole ==
  /\ raw_pc \in {"objects", "tail"} => offset < Room
  /\ raw_pc = "publish" =>
       /\ MessageLength = offset
       /\ Received(MessageLength) = offset
       /\ FitsEvent(Received(MessageLength))

(* The inductive invariant behind PayloadWhole: the loop goes on only below the
   margin. *)
Margins ==
  /\ raw_pc = "objects" => offset < Room - Margin
  /\ raw_pc = "tail" => offset + TailLength + FrameLength < Room
  /\ raw_pc = "publish" => offset + FrameLength < Room
================================================================================
