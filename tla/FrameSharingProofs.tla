--------------------------- MODULE FrameSharingProofs --------------------------
(***************************************************************************)
(* Proofs about FrameSharing.tla for any number of frames, queue slots and *)
(* detection slots, and whatever the model finds: what web_viewer copies   *)
(* out of the segment without a lock is never older than what seq          *)
(* announced, and never goes back in time; no result has a box of another  *)
(* frame; and no thread's end leaves the segment's name behind.            *)
(***************************************************************************)
EXTENDS FrameSharing, SequenceTheorems, TLAPS

Frames == [seq : Int, picture : Pictures]
Results == [seq : Int, count : 0 .. DetectSlots, results : [Slots -> Pictures]]
Segments == [seq : Nat, top : Pictures, bottom : Pictures, count : 0 .. DetectSlots,
             detects : [Slots -> Pictures]]
--------------------------------------------------------------------------------
(* The inductive invariant *)

(* inference_thread and its queues. *)
InferenceTypes ==
  /\ running \in BOOLEAN /\ captured \in Pictures
  /\ inf_pc \in {"unlink", "create", "setup", "loop", "pop", "top", "bottom",
                 "infer", "skip", "detects", "push", "count", "exited"}
  /\ shm_name \in BOOLEAN /\ shm \in Segments /\ frame \in Frames
  /\ found \in Seq(BOOLEAN) /\ Len(found) <= DetectSlots /\ k \in Nat \ {0}
  /\ infer_result \in Results
  /\ capture_queue \in Seq(Frames) /\ Len(capture_queue) <= QueueSlots
  /\ infer_queue \in Seq(Results) /\ Len(infer_queue) <= QueueSlots
  /\ announced \in Seq(Pictures) /\ shm.seq = Len(announced)

(* The frames queued are of ever later pictures, all later than the one in hand. *)
FramesAhead ==
  /\ frame.picture <= captured
  /\ \A i \in 1 .. Len(capture_queue) :
       frame.picture < capture_queue[i].picture /\ capture_queue[i].picture <= captured
  /\ \A i, j \in 1 .. Len(capture_queue) :
       i < j => capture_queue[i].picture < capture_queue[j].picture

(* Both halves of the segment are of the frame in hand before it is announced, and
   never older than what was announced. *)
Announced ==
  /\ shm.top <= frame.picture /\ shm.bottom <= frame.picture
  /\ inf_pc = "bottom" => shm.top = frame.picture
  /\ inf_pc \in {"infer", "skip", "detects"} =>
       shm.top = frame.picture /\ shm.bottom = frame.picture
  /\ \A i \in 1 .. Len(announced) : announced[i] <= shm.top /\ announced[i] <= shm.bottom

(* The slots of the result, in the order they are filled. *)
SlotsFilled ==
  /\ inf_pc = "detects" =>
       \A s \in Slots :
         infer_result.results[s] =
           IF s < k /\ s <= Len(found) /\ found[s] THEN frame.picture ELSE 0
  /\ ResultIsOfFrame

(* The name of the segment is there between its creation and the thread's end. *)
SegmentNamed == inf_pc \in {"create", "exited"} => ~shm_name

WebTypes ==
  /\ web_pc \in {"open", "load", "sleep", "top", "bottom", "convert", "draw", "closed"}
  /\ last_seq \in Int /\ -1 <= last_seq /\ last_seq <= Len(announced)
  /\ local_nv12 \in Copies /\ sent \in Copies /\ given_up \in Copies
  /\ cnt \in 0 .. DetectSlots /\ slot \in 1 .. DetectSlots + 1
  /\ drawn \in [Slots -> Pictures]

(* The viewer's copy is no later than the segment, and once copied no older than
   the announcement. *)
Viewed ==
  /\ local_nv12.top <= shm.top /\ local_nv12.bottom <= shm.bottom
  /\ web_pc \in {"bottom", "convert", "draw"} /\ last_seq > 0 =>
       local_nv12.top >= announced[last_seq]
  /\ web_pc \in {"convert", "draw"} /\ last_seq > 0 =>
       local_nv12.bottom >= announced[last_seq]

WriterInv ==
  InferenceTypes /\ FramesAhead /\ Announced /\ SlotsFilled /\ SegmentNamed

Inv == WriterInv /\ WebTypes /\ Viewed
--------------------------------------------------------------------------------
(* Facts *)

(* push appends the item or drops it. *)
LEMMA PushedProperties ==
  ASSUME NEW S, NEW queue \in Seq(S), NEW x \in S, Len(queue) <= QueueSlots
  PROVE  /\ Pushed(queue, x) \in Seq(S)
         /\ Len(Pushed(queue, x)) \in Nat
         /\ Len(Pushed(queue, x)) <= QueueSlots
         /\ \A i \in 1 .. Len(Pushed(queue, x)) :
              \/ i \in 1 .. Len(queue) /\ Pushed(queue, x)[i] = queue[i]
              \/ i = Len(queue) + 1 /\ Pushed(queue, x)[i] = x
<1>1. Len(queue) \in Nat
  OBVIOUS
<1>2. CASE Len(queue) < QueueSlots
  <2>1. Pushed(queue, x) = Append(queue, x)
    BY <1>2 DEF Pushed
  <2>2. /\ Append(queue, x) \in Seq(S) /\ Len(Append(queue, x)) = Len(queue) + 1
        /\ \A i \in 1 .. Len(queue) : Append(queue, x)[i] = queue[i]
        /\ Append(queue, x)[Len(queue) + 1] = x
    BY AppendProperties
  <2>3. \A i \in 1 .. Len(queue) + 1 : i \in 1 .. Len(queue) \/ i = Len(queue) + 1
    BY <1>1
  <2> QED
    BY <1>1, <1>2, <2>1, <2>2, <2>3, ThreadsAssumption
<1>3. CASE ~(Len(queue) < QueueSlots)
  <2>1. Pushed(queue, x) = queue
    BY <1>3 DEF Pushed
  <2> QED
    BY <1>1, <2>1
<1> QED
  BY <1>2, <1>3

(* The sets of values stay what they are. *)
LEMMA Constants ==
  /\ Pictures' = Pictures /\ Frames' = Frames /\ Results' = Results
  /\ Segments' = Segments /\ Slots' = Slots
BY DEF Pictures, Frames, Results, Segments, Slots

LEMMA CopiesStay == Copies' = Copies
BY DEF Copies, Pictures

LEMMA PicturesAreNaturals ==
  /\ \A p \in Pictures : p \in Nat
  /\ 0 \in Pictures /\ 0 \in 0 .. DetectSlots /\ DetectSlots \in Nat /\ MaxFrames \in Nat
BY SharingAssumption, InferenceAssumption DEF Pictures

LEMMA WriterFacts ==
  ASSUME WriterInv
  PROVE  /\ running \in BOOLEAN /\ captured \in Pictures /\ captured \in Nat
         /\ shm_name \in BOOLEAN
         /\ shm \in Segments /\ shm.seq \in Nat /\ shm.top \in Nat /\ shm.bottom \in Nat
         /\ shm.top \in Pictures /\ shm.bottom \in Pictures
         /\ frame \in Frames /\ frame.picture \in Pictures /\ frame.picture \in Nat
         /\ frame.seq \in Int
         /\ found \in Seq(BOOLEAN) /\ Len(found) \in Nat /\ Len(found) <= DetectSlots
         /\ \A i \in 1 .. Len(found) : found[i] \in BOOLEAN
         /\ k \in Nat \ {0}
         /\ infer_result \in Results
         /\ capture_queue \in Seq(Frames) /\ Len(capture_queue) \in Nat
         /\ Len(capture_queue) <= QueueSlots
         /\ \A i \in 1 .. Len(capture_queue) :
              /\ capture_queue[i] \in Frames
              /\ capture_queue[i].picture \in Nat
         /\ infer_queue \in Seq(Results) /\ Len(infer_queue) <= QueueSlots
         /\ Len(infer_queue) \in Nat
         /\ announced \in Seq(Pictures) /\ shm.seq = Len(announced)
         /\ Len(announced) \in Nat /\ \A i \in 1 .. Len(announced) : announced[i] \in Nat
         /\ InferenceTypes /\ FramesAhead /\ Announced /\ SlotsFilled /\ SegmentNamed
<1>1. InferenceTypes /\ FramesAhead /\ Announced /\ SlotsFilled /\ SegmentNamed
  BY DEF WriterInv
<1>2. /\ running \in BOOLEAN /\ captured \in Pictures /\ shm_name \in BOOLEAN
      /\ shm \in Segments /\ frame \in Frames /\ found \in Seq(BOOLEAN)
      /\ Len(found) <= DetectSlots /\ k \in Nat \ {0} /\ infer_result \in Results
      /\ capture_queue \in Seq(Frames) /\ Len(capture_queue) <= QueueSlots
      /\ infer_queue \in Seq(Results) /\ Len(infer_queue) <= QueueSlots
      /\ announced \in Seq(Pictures) /\ shm.seq = Len(announced)
  BY <1>1 DEF InferenceTypes
<1>3. /\ Len(found) \in Nat /\ \A i \in 1 .. Len(found) : found[i] \in BOOLEAN
      /\ Len(capture_queue) \in Nat /\ Len(infer_queue) \in Nat /\ Len(announced) \in Nat
  BY <1>2, ElementOfSeq
<1>4. \A i \in 1 .. Len(capture_queue) : capture_queue[i] \in Frames
  BY <1>2, ElementOfSeq
<1>5. \A i \in 1 .. Len(announced) : announced[i] \in Pictures
  BY <1>2, ElementOfSeq
<1>6. \A f \in Frames : f.seq \in Int /\ f.picture \in Pictures /\ f.picture \in Nat
  BY PicturesAreNaturals DEF Frames
<1>7. /\ shm.seq \in Nat /\ shm.top \in Pictures /\ shm.bottom \in Pictures
  BY <1>2 DEF Segments
<1>8. shm.top \in Nat /\ shm.bottom \in Nat /\ captured \in Nat
  BY <1>2, <1>7, PicturesAreNaturals
<1>9. \A i \in 1 .. Len(announced) : announced[i] \in Nat
  BY <1>5, PicturesAreNaturals
<1>10. frame.seq \in Int /\ frame.picture \in Pictures /\ frame.picture \in Nat
  BY <1>2, <1>6
<1>11. \A i \in 1 .. Len(capture_queue) : capture_queue[i].picture \in Nat
  BY <1>4, <1>6
<1> QED
  BY <1>1, <1>2, <1>3, <1>4, <1>7, <1>8, <1>9, <1>10, <1>11

LEMMA Initially ==
  ASSUME Init
  PROVE  Inv
<1> USE PicturesAreNaturals, ThreadsAssumption
<1>1. /\ capture_queue = <<>> /\ infer_queue = <<>> /\ announced = <<>> /\ found = <<>>
      /\ Len(capture_queue) = 0 /\ Len(infer_queue) = 0 /\ Len(announced) = 0
      /\ Len(found) = 0 /\ k = 1 /\ running = TRUE /\ captured = 0
      /\ inf_pc = "unlink" /\ shm_name \in BOOLEAN /\ shm = EmptyShm
      /\ frame = [seq |-> -1, picture |-> 0] /\ infer_result = EmptyResult
  BY DEF Init, ThreadsInit, InferenceInit
<1>2. /\ web_pc = "open" /\ last_seq = -1 /\ local_nv12 = NoPicture
      /\ sent = NoPicture /\ given_up = NoPicture
      /\ cnt = 0 /\ slot = 1 /\ drawn = NothingDrawn
  BY DEF Init
<1>3. /\ <<>> \in Seq(Frames) /\ <<>> \in Seq(Results) /\ <<>> \in Seq(Pictures)
      /\ <<>> \in Seq(BOOLEAN)
  OBVIOUS
<1>4. NoPicture \in Copies
      /\ EmptyShm \in Segments /\ EmptyResult \in Results /\ NothingDrawn \in [Slots -> Pictures]
      /\ [seq |-> -1, picture |-> 0] \in Frames
  BY DEF EmptyShm, EmptyResult, NothingDrawn, NoPicture, Segments, Results, Frames, Copies
<1>5. InferenceTypes
  <2>1. shm.seq = 0
    BY <1>1 DEF EmptyShm
  <2> QED
    BY <1>1, <1>3, <1>4, <2>1 DEF InferenceTypes
<1>6. FramesAhead /\ Announced
  BY <1>1 DEF FramesAhead, Announced, EmptyShm
<1>7. SlotsFilled /\ SegmentNamed
  BY <1>1 DEF SlotsFilled, ResultIsOfFrame, SegmentNamed
<1>8. WebTypes
  BY <1>1, <1>2, <1>4 DEF WebTypes
<1>9. Viewed
  BY <1>1, <1>2 DEF Viewed, EmptyShm, NoPicture
<1> QED
  BY <1>5, <1>6, <1>7, <1>8, <1>9 DEF Inv, WriterInv
--------------------------------------------------------------------------------
(* The segment gets later pictures and more announcements only. *)
Grows ==
  /\ shm.top <= shm'.top /\ shm.bottom <= shm'.bottom
  /\ Len(announced) <= Len(announced')
  /\ \A i \in 1 .. Len(announced) : announced'[i] = announced[i]

(* That does the viewer's copy no harm. *)
LEMMA GrowthKeepsViewer ==
  ASSUME Inv, WriterInv', Grows, UNCHANGED webVars
  PROVE  WebTypes' /\ Viewed'
<1>1. /\ web_pc' = web_pc /\ last_seq' = last_seq /\ local_nv12' = local_nv12
      /\ cnt' = cnt /\ slot' = slot /\ drawn' = drawn
      /\ sent' = sent /\ given_up' = given_up
  BY DEF webVars, outcome
<1>2. Len(announced) \in Nat /\ Len(announced') \in Nat /\ shm.top \in Nat /\ shm.bottom \in Nat
      /\ shm'.top \in Nat /\ shm'.bottom \in Nat
  <2>1. WriterInv
    BY DEF Inv
  <2>2. announced' \in Seq(Pictures) /\ shm' \in Segments
    BY Constants DEF WriterInv, InferenceTypes
  <2>3. Len(announced') \in Nat
    BY <2>2
  <2>4. shm'.top \in Nat /\ shm'.bottom \in Nat
    BY <2>2, PicturesAreNaturals DEF Segments
  <2> QED
    BY <2>1, <2>3, <2>4, WriterFacts
<1>3. WebTypes /\ Viewed
  BY DEF Inv
<1>4. WebTypes'
  BY <1>1, <1>2, <1>3, Constants, CopiesStay DEF WebTypes, Grows
<1>5. local_nv12.top \in Nat /\ local_nv12.bottom \in Nat
  BY <1>3, PicturesAreNaturals DEF WebTypes, Copies
<1>6. last_seq > 0 => announced'[last_seq] = announced[last_seq]
  BY <1>2, <1>3 DEF WebTypes, Grows
<1>7. Viewed'
  BY <1>1, <1>2, <1>3, <1>5, <1>6 DEF Viewed, Grows
<1> QED
  BY <1>4, <1>7
--------------------------------------------------------------------------------
(* inference_thread *)

Announces == announced' = IF shm'.seq # shm.seq THEN Append(announced, frame'.picture)
                                                ELSE announced

(* Steps that neither touch the pictures nor announce one. *)
LEMMA QuietKeeps ==
  ASSUME WriterInv, Announces, captured' = captured,
         InfUnlink \/ InfCreate \/ InfSetup \/ InfLoop \/ InfStop \/ InfNothing
           \/ InfFails \/ InfCount
  PROVE  WriterInv' /\ Grows
<1> USE DEF InfUnlink, InfCreate, InfSetup, InfLoop, InfStop, InfNothing, InfFails,
            InfCount
<1>1. /\ frame' = frame /\ found' = found /\ k' = k /\ infer_result' = infer_result
      /\ capture_queue' = capture_queue /\ infer_queue' = infer_queue
      /\ running' = running
  OBVIOUS
<1>2. shm' = shm \/ shm' = [shm EXCEPT !.count = 0]
  OBVIOUS
<1>3. shm' \in Segments /\ shm'.seq = shm.seq /\ shm'.top = shm.top /\ shm'.bottom = shm.bottom
  BY <1>2, WriterFacts, PicturesAreNaturals DEF Segments
<1>4. announced' = announced
  BY <1>3 DEF Announces
<1>5. inf_pc' \in {"create", "setup", "loop", "pop", "skip", "exited"}
  OBVIOUS
<1>6. shm_name' \in BOOLEAN
  BY WriterFacts
<1>7. InferenceTypes'
  BY <1>1, <1>3, <1>4, <1>5, <1>6, Constants, WriterFacts DEF InferenceTypes
<1>8. FramesAhead'
  BY <1>1, WriterFacts DEF FramesAhead
<1>9. Announced'
  BY <1>1, <1>3, <1>4, <1>5, WriterFacts DEF Announced
<1>10. SlotsFilled'
  BY <1>5 DEF SlotsFilled, ResultIsOfFrame
<1>11. SegmentNamed'
  BY WriterFacts DEF SegmentNamed
<1>12. Grows
  BY <1>3, <1>4, WriterFacts DEF Grows
<1> QED
  BY <1>7, <1>8, <1>9, <1>10, <1>11, <1>12 DEF WriterInv

(* The frame popped is of a later picture than the one before it. *)
LEMMA PopKeeps ==
  ASSUME WriterInv, Announces, captured' = captured, InfPop
  PROVE  WriterInv' /\ Grows
<1>1. /\ inf_pc' = "top" /\ shm_name' = shm_name /\ shm' = shm /\ found' = found /\ k' = k
      /\ infer_result' = infer_result /\ infer_queue' = infer_queue /\ running' = running
      /\ capture_queue # <<>> /\ frame' = Head(capture_queue)
      /\ capture_queue' = Tail(capture_queue)
  BY DEF InfPop
<1>2. announced' = announced
  BY <1>1 DEF Announces
<1>3. /\ Len(capture_queue) \in Nat \ {0} /\ frame' = capture_queue[1]
      /\ capture_queue' \in Seq(Frames)
      /\ Len(capture_queue') = Len(capture_queue) - 1
      /\ \A i \in 1 .. Len(capture_queue') : capture_queue'[i] = capture_queue[i + 1]
      /\ frame' \in Frames
  <2>1. capture_queue \in Seq(Frames)
    BY WriterFacts
  <2>2. Head(capture_queue) = capture_queue[1]
    BY <2>1
  <2> QED
    BY <1>1, <2>1, <2>2, HeadTailProperties, EmptySeq
<1>4. 1 \in 1 .. Len(capture_queue)
      /\ \A i \in 1 .. Len(capture_queue') : i + 1 \in 1 .. Len(capture_queue) /\ 1 < i + 1
  BY <1>3
<1>5. /\ frame.picture < frame'.picture /\ frame'.picture <= captured
      /\ frame'.picture \in Nat
  BY <1>3, <1>4, WriterFacts DEF FramesAhead
<1>6. InferenceTypes'
  <2>1. Len(capture_queue') <= QueueSlots
    BY <1>3, WriterFacts, ThreadsAssumption
  <2> QED
    BY <1>1, <1>2, <1>3, <2>1, Constants, WriterFacts DEF InferenceTypes
<1>7. FramesAhead'
  <2>1. \A i \in 1 .. Len(capture_queue') :
          frame'.picture < capture_queue'[i].picture /\ capture_queue'[i].picture <= captured
    BY <1>3, <1>4, WriterFacts DEF FramesAhead
  <2>2. \A i, j \in 1 .. Len(capture_queue') :
          i < j => capture_queue'[i].picture < capture_queue'[j].picture
    <3> SUFFICES ASSUME NEW i \in 1 .. Len(capture_queue'),
                        NEW j \in 1 .. Len(capture_queue'), i < j
                 PROVE  capture_queue'[i].picture < capture_queue'[j].picture
      OBVIOUS
    <3>1. /\ i + 1 \in 1 .. Len(capture_queue) /\ j + 1 \in 1 .. Len(capture_queue)
          /\ i + 1 < j + 1
      BY <1>3, <1>4
    <3>2. capture_queue[i + 1].picture < capture_queue[j + 1].picture
      BY <3>1, WriterFacts DEF FramesAhead
    <3> QED
      BY <1>3, <3>2
  <2> QED
    BY <1>5, <2>1, <2>2 DEF FramesAhead
<1>8. Announced'
  <2>1. Announced /\ shm.top \in Nat /\ shm.bottom \in Nat /\ frame.picture \in Nat
    BY WriterFacts
  <2> QED
    BY <1>1, <1>2, <1>5, <2>1 DEF Announced
<1>9. SlotsFilled' /\ SegmentNamed'
  BY <1>1 DEF SlotsFilled, ResultIsOfFrame, SegmentNamed
<1>10. Grows
  BY <1>1, <1>2, WriterFacts DEF Grows
<1> QED
  BY <1>6, <1>7, <1>8, <1>9, <1>10 DEF WriterInv

(* The picture is copied half by half. *)
LEMMA CopyKeeps ==
  ASSUME WriterInv, Announces, captured' = captured, InfCopyTop \/ InfCopyBottom
  PROVE  WriterInv' /\ Grows
<1>1. /\ frame' = frame /\ shm_name' = shm_name /\ found' = found /\ k' = k
      /\ infer_result' = infer_result /\ infer_queue' = infer_queue
      /\ capture_queue' = capture_queue /\ running' = running
  BY DEF InfCopyTop, InfCopyBottom
<1>2. \/ /\ inf_pc = "top" /\ inf_pc' = "bottom"
         /\ shm' = [shm EXCEPT !.top = frame.picture]
      \/ /\ inf_pc = "bottom" /\ inf_pc' = "infer"
         /\ shm' = [shm EXCEPT !.bottom = frame.picture]
  BY DEF InfCopyTop, InfCopyBottom
<1>3. shm.top <= frame.picture /\ shm.bottom <= frame.picture
  BY WriterFacts DEF Announced
<1>4. /\ shm' \in Segments /\ shm'.seq = shm.seq
      /\ shm.top <= shm'.top /\ shm.bottom <= shm'.bottom
      /\ shm'.top \in Nat /\ shm'.bottom \in Nat
      /\ shm'.top <= frame.picture /\ shm'.bottom <= frame.picture
      /\ inf_pc' = "bottom" => shm'.top = frame.picture
      /\ inf_pc' = "infer" => shm'.top = shm.top /\ shm'.bottom = frame.picture
  <2>1. /\ shm \in Segments /\ shm.top \in Nat /\ shm.bottom \in Nat
        /\ frame.picture \in Pictures /\ frame.picture \in Nat
    BY WriterFacts
  <2>2. CASE inf_pc' = "bottom" /\ shm' = [shm EXCEPT !.top = frame.picture]
    BY <1>3, <2>1, <2>2 DEF Segments
  <2>3. CASE inf_pc' = "infer" /\ shm' = [shm EXCEPT !.bottom = frame.picture]
    BY <1>3, <2>1, <2>3 DEF Segments
  <2> QED
    BY <1>2, <2>2, <2>3
<1>5. announced' = announced
  BY <1>4 DEF Announces
<1>6. InferenceTypes'
  BY <1>1, <1>2, <1>4, <1>5, Constants, WriterFacts DEF InferenceTypes
<1>7. FramesAhead'
  BY <1>1, WriterFacts DEF FramesAhead
<1>8. Announced'
  <2>1. /\ Announced /\ shm.top \in Nat /\ shm.bottom \in Nat /\ frame.picture \in Nat
        /\ Len(announced) \in Nat /\ \A i \in 1 .. Len(announced) : announced[i] \in Nat
    BY WriterFacts
  <2>2. ASSUME NEW i \in 1 .. Len(announced')
        PROVE  announced'[i] <= shm'.top /\ announced'[i] <= shm'.bottom
    <3>1. announced[i] \in Nat /\ announced[i] <= shm.top /\ announced[i] <= shm.bottom
      BY <1>5, <2>1 DEF Announced
    <3> QED
      BY <1>4, <1>5, <2>1, <3>1
  <2> QED
    BY <1>1, <1>2, <1>4, <2>1, <2>2 DEF Announced
<1>9. SlotsFilled' /\ SegmentNamed'
  BY <1>2 DEF SlotsFilled, ResultIsOfFrame, SegmentNamed
<1>10. Grows
  BY <1>4, <1>5, WriterFacts DEF Grows
<1> QED
  BY <1>6, <1>7, <1>8, <1>9, <1>10 DEF WriterInv

(* A frame is announced when both halves of its picture are in the segment, also
   without a result. *)
LEMMA AnnounceKeeps ==
  ASSUME WriterInv, Announces, captured' = captured, InfSkip \/ InfAnnounce
  PROVE  WriterInv' /\ Grows
<1>1. /\ frame' = frame /\ shm_name' = shm_name /\ found' = found /\ k' = k
      /\ infer_result' = infer_result /\ infer_queue' = infer_queue
      /\ capture_queue' = capture_queue /\ running' = running
      /\ shm' = [shm EXCEPT !.seq = shm.seq + 1]
  BY DEF InfSkip, InfAnnounce
<1>2. \/ inf_pc = "skip" /\ inf_pc' = "loop"
      \/ inf_pc = "detects" /\ inf_pc' = "push" /\ k > Len(found)
  BY DEF InfSkip, InfAnnounce
<1>3. /\ shm' \in Segments /\ shm'.seq = shm.seq + 1
      /\ shm'.top = shm.top /\ shm'.bottom = shm.bottom
  <2>1. shm \in Segments
    BY WriterFacts
  <2> QED
    BY <1>1, <2>1 DEF Segments
<1>4. announced' = Append(announced, frame.picture)
  <2>1. shm.seq \in Nat
    BY WriterFacts
  <2> QED
    BY <1>1, <1>3, <2>1 DEF Announces
<1>5. /\ announced' \in Seq(Pictures) /\ Len(announced') = Len(announced) + 1
      /\ \A i \in 1 .. Len(announced) : announced'[i] = announced[i]
      /\ announced'[Len(announced) + 1] = frame.picture
  BY <1>4, WriterFacts, AppendProperties
<1>6. shm.top = frame.picture /\ shm.bottom = frame.picture
  BY <1>2, WriterFacts DEF Announced
<1>7. InferenceTypes'
  BY <1>1, <1>2, <1>3, <1>5, Constants, WriterFacts DEF InferenceTypes
<1>8. FramesAhead'
  BY <1>1, WriterFacts DEF FramesAhead
<1>9. Announced'
  <2>1. \A i \in 1 .. Len(announced') : i \in 1 .. Len(announced) \/ i = Len(announced) + 1
    BY <1>5, WriterFacts
  <2>2. \A i \in 1 .. Len(announced') :
          announced'[i] <= shm'.top /\ announced'[i] <= shm'.bottom
    BY <1>3, <1>5, <1>6, <2>1, WriterFacts DEF Announced
  <2> QED
    BY <1>1, <1>2, <1>3, <1>6, <2>2, WriterFacts DEF Announced
<1>10. SlotsFilled'
  <2>1. CASE inf_pc' = "loop"
    BY <2>1 DEF SlotsFilled, ResultIsOfFrame
  <2>2. CASE inf_pc = "detects" /\ inf_pc' = "push" /\ k > Len(found)
    <3>1. \A s \in Slots : s <= Len(found) => s < k
      BY <2>2, WriterFacts, InferenceAssumption DEF Slots
    <3>2. \A s \in Slots :
            infer_result.results[s] =
              IF s <= Len(found) /\ found[s] THEN frame.picture ELSE 0
      BY <2>2, <3>1, WriterFacts DEF SlotsFilled
    <3> QED
      BY <1>1, <2>2, <3>2, Constants DEF SlotsFilled, ResultIsOfFrame
  <2> QED
    BY <1>2, <2>1, <2>2
<1>11. SegmentNamed'
  BY <1>2 DEF SegmentNamed
<1>12. Grows
  <2>1. shm.top \in Nat /\ shm.bottom \in Nat /\ Len(announced) \in Nat
    BY WriterFacts
  <2> QED
    BY <1>3, <1>5, <2>1 DEF Grows
<1> QED
  BY <1>7, <1>8, <1>9, <1>10, <1>11, <1>12 DEF WriterInv

(* The result starts out with empty slots, and gets the boxes one by one. *)
LEMMA SucceedsKeeps ==
  ASSUME WriterInv, Announces, captured' = captured, NEW detections \in Findings,
         InfSucceeds(detections)
  PROVE  WriterInv' /\ Grows
<1> DEFINE count == IF Len(detections) > DetectSlots THEN DetectSlots
                                                     ELSE Len(detections)
<1>1. /\ inf_pc = "infer" /\ inf_pc' = "detects" /\ k' = 1
      /\ found' = SubSeq(detections, 1, count)
      /\ shm' = [shm EXCEPT !.count = count]
      /\ infer_result' = [EmptyResult EXCEPT !.seq = frame.seq, !.count = count]
      /\ frame' = frame /\ shm_name' = shm_name /\ infer_queue' = infer_queue
      /\ capture_queue' = capture_queue /\ running' = running
  BY DEF InfSucceeds
<1>2. detections \in Seq(BOOLEAN) /\ Len(detections) \in Nat
      /\ count \in 0 .. DetectSlots /\ count <= Len(detections) /\ count \in Nat
  BY SharingAssumption, InferenceAssumption
<1> HIDE DEF count
<1>3. found' \in Seq(BOOLEAN) /\ Len(found') = count
  <2>1. \A i \in 1 .. count : detections[i] \in BOOLEAN
    BY <1>2, ElementOfSeq
  <2>2. /\ SubSeq(detections, 1, count) \in Seq(BOOLEAN)
        /\ Len(SubSeq(detections, 1, count)) = IF 1 <= count THEN count - 1 + 1 ELSE 0
    <3>1. 1 \in Int /\ count \in Int
      BY <1>2
    <3> QED
      BY <2>1, <3>1, SubSeqProperties
  <2> QED
    BY <1>1, <1>2, <2>2
<1>4. /\ shm' \in Segments /\ shm'.seq = shm.seq
      /\ shm'.top = shm.top /\ shm'.bottom = shm.bottom
  <2>1. shm \in Segments
    BY WriterFacts
  <2> QED
    BY <1>1, <1>2, <2>1 DEF Segments
<1>5. /\ infer_result' \in Results
      /\ \A s \in Slots : infer_result'.results[s] = 0
  <2>1. frame.seq \in Int
    BY WriterFacts
  <2> QED
    BY <1>1, <1>2, <2>1, PicturesAreNaturals DEF EmptyResult, Results
<1>6. announced' = announced
  BY <1>4 DEF Announces
<1>7. InferenceTypes'
  <2>1. Len(found') <= DetectSlots /\ k' \in Nat \ {0}
    BY <1>1, <1>2, <1>3, InferenceAssumption
  <2> QED
    BY <1>1, <1>3, <1>4, <1>5, <1>6, <2>1, Constants, WriterFacts DEF InferenceTypes
<1>8. FramesAhead'
  BY <1>1, WriterFacts DEF FramesAhead
<1>9. Announced'
  BY <1>1, <1>4, <1>6, WriterFacts DEF Announced
<1>10. SlotsFilled'
  <2>1. \A s \in Slots : ~(s < 1)
    BY InferenceAssumption DEF Slots
  <2> QED
    BY <1>1, <1>5, <2>1, Constants DEF SlotsFilled, ResultIsOfFrame
<1>11. SegmentNamed'
  BY <1>1 DEF SegmentNamed
<1>12. Grows
  BY <1>4, <1>6, WriterFacts DEF Grows
<1> QED
  BY <1>7, <1>8, <1>9, <1>10, <1>11, <1>12 DEF WriterInv

LEMMA DetectKeeps ==
  ASSUME WriterInv, Announces, captured' = captured, InfDetect
  PROVE  WriterInv' /\ Grows
<1>1. /\ inf_pc = "detects" /\ inf_pc' = "detects" /\ k' = k + 1 /\ k <= Len(found)
      /\ found' = found /\ frame' = frame /\ shm_name' = shm_name
      /\ infer_queue' = infer_queue /\ capture_queue' = capture_queue /\ running' = running
  BY DEF InfDetect
<1>2. \/ /\ found[k]
         /\ shm' = [shm EXCEPT !.detects[k] = frame.picture]
         /\ infer_result' = [infer_result EXCEPT !.results[k] = frame.picture]
      \/ ~found[k] /\ shm' = shm /\ infer_result' = infer_result
  BY DEF InfDetect
<1>3. k \in Slots /\ k \in Nat \ {0}
  <2>1. k \in Nat \ {0} /\ Len(found) <= DetectSlots /\ Len(found) \in Nat
    BY WriterFacts
  <2> QED
    BY <1>1, <2>1, InferenceAssumption DEF Slots
<1>4. /\ shm' \in Segments /\ shm'.seq = shm.seq
      /\ shm'.top = shm.top /\ shm'.bottom = shm.bottom
  <2>1. shm \in Segments /\ frame.picture \in Pictures
    BY WriterFacts
  <2> QED
    BY <1>2, <1>3, <2>1 DEF Segments
<1>5. infer_result' \in Results
  <2>1. infer_result \in Results /\ frame.picture \in Pictures
    BY WriterFacts
  <2> QED
    BY <1>2, <1>3, <2>1 DEF Results
<1>6. announced' = announced
  BY <1>4 DEF Announces
<1>7. InferenceTypes'
  BY <1>1, <1>3, <1>4, <1>5, <1>6, Constants, WriterFacts DEF InferenceTypes
<1>8. FramesAhead'
  BY <1>1, WriterFacts DEF FramesAhead
<1>9. Announced'
  BY <1>1, <1>4, <1>6, WriterFacts DEF Announced
<1>10. SlotsFilled'
  <2>1. \A s \in Slots :
          infer_result.results[s] =
            IF s < k /\ s <= Len(found) /\ found[s] THEN frame.picture ELSE 0
    BY <1>1, WriterFacts DEF SlotsFilled
  <2>2. ASSUME NEW s \in Slots
        PROVE  infer_result'.results[s] =
                 IF s < k + 1 /\ s <= Len(found) /\ found[s] THEN frame.picture ELSE 0
    <3>1. s \in Nat /\ k \in Nat
      BY <1>3 DEF Slots
    <3>2. CASE s = k
      <4>1. infer_result.results[k] = 0
        BY <1>3, <2>1
      <4>2. infer_result'.results[k] = IF found[k] THEN frame.picture ELSE 0
        BY <1>2, <1>3, <4>1, WriterFacts DEF Results
      <4> QED
        BY <1>1, <3>1, <3>2, <4>2
    <3>3. CASE s # k
      <4>1. infer_result'.results[s] = infer_result.results[s]
        BY <1>2, <3>3, WriterFacts DEF Results
      <4>2. s < k + 1 <=> s < k
        BY <3>1, <3>3
      <4> QED
        BY <2>1, <4>1, <4>2
    <3> QED
      BY <3>2, <3>3
  <2> QED
    BY <1>1, <2>2, Constants DEF SlotsFilled, ResultIsOfFrame
<1>11. SegmentNamed'
  BY <1>1 DEF SegmentNamed
<1>12. Grows
  BY <1>4, <1>6, WriterFacts DEF Grows
<1> QED
  BY <1>7, <1>8, <1>9, <1>10, <1>11, <1>12 DEF WriterInv

LEMMA PushKeeps ==
  ASSUME WriterInv, Announces, captured' = captured, InfPush
  PROVE  WriterInv' /\ Grows
<1>1. /\ inf_pc' = "count" /\ frame' = frame /\ shm_name' = shm_name /\ shm' = shm
      /\ found' = found /\ k' = k /\ infer_result' = infer_result
      /\ capture_queue' = capture_queue /\ running' = running
      /\ infer_queue' = Pushed(infer_queue, infer_result)
  BY DEF InfPush
<1>2. announced' = announced
  BY <1>1 DEF Announces
<1>3. infer_queue' \in Seq(Results) /\ Len(infer_queue') <= QueueSlots
  BY <1>1, WriterFacts, PushedProperties
<1>4. InferenceTypes'
  BY <1>1, <1>2, <1>3, Constants, WriterFacts DEF InferenceTypes
<1>5. FramesAhead'
  BY <1>1, WriterFacts DEF FramesAhead
<1>6. Announced'
  BY <1>1, <1>2, WriterFacts DEF Announced
<1>7. SlotsFilled' /\ SegmentNamed'
  BY <1>1 DEF SlotsFilled, ResultIsOfFrame, SegmentNamed
<1>8. Grows
  BY <1>1, <1>2, WriterFacts DEF Grows
<1> QED
  BY <1>4, <1>5, <1>6, <1>7, <1>8 DEF WriterInv

LEMMA InferenceKeeps ==
  ASSUME WriterInv, InferenceStep
  PROVE  WriterInv' /\ Grows
<1>1. PICK detections \in Findings : Inference(detections)
  BY DEF InferenceStep
<1>2. Announces /\ captured' = captured
  BY DEF InferenceStep, Announces
<1> QED
  BY <1>1, <1>2, QuietKeeps, PopKeeps, CopyKeeps, AnnounceKeeps, SucceedsKeeps,
     DetectKeeps, PushKeeps DEF Inference
--------------------------------------------------------------------------------
(* The surroundings *)

(* capture_thread pushes ever later pictures. *)
LEMMA CaptureKeeps ==
  ASSUME WriterInv, CaptureFrame
  PROVE  WriterInv' /\ Grows
<1> DEFINE f == [seq |-> captured, picture |-> captured + 1]
           q == Pushed(capture_queue, f)
<1>1. /\ captured < MaxFrames /\ captured' = captured + 1 /\ capture_queue' = q
      /\ running' = running /\ infer_queue' = infer_queue /\ announced' = announced
      /\ inf_pc' = inf_pc /\ shm_name' = shm_name /\ shm' = shm /\ frame' = frame
      /\ found' = found /\ k' = k /\ infer_result' = infer_result
  BY DEF CaptureFrame, inferenceVars
<1>2. f \in Frames /\ f.picture = captured + 1 /\ captured + 1 \in Pictures
  <2>1. captured \in Nat /\ MaxFrames \in Nat
    BY WriterFacts, PicturesAreNaturals
  <2>2. captured + 1 \in Pictures
    BY <1>1, <2>1 DEF Pictures
  <2> QED
    BY <2>1, <2>2 DEF Frames
<1> HIDE DEF f
<1>3. /\ q \in Seq(Frames) /\ Len(q) \in Nat /\ Len(q) <= QueueSlots
      /\ \A i \in 1 .. Len(q) :
           \/ i \in 1 .. Len(capture_queue) /\ q[i] = capture_queue[i]
           \/ i = Len(capture_queue) + 1 /\ q[i] = f
  BY <1>2, WriterFacts, PushedProperties
<1> HIDE DEF q
<1>4. InferenceTypes'
  BY <1>1, <1>2, <1>3, Constants, WriterFacts DEF InferenceTypes
<1>5. FramesAhead'
  <2>1. /\ captured \in Nat /\ frame.picture \in Nat /\ frame.picture <= captured
        /\ Len(capture_queue) \in Nat
        /\ \A i \in 1 .. Len(capture_queue) :
             /\ capture_queue[i].picture \in Nat /\ capture_queue[i].picture <= captured
             /\ frame.picture < capture_queue[i].picture
        /\ \A i, j \in 1 .. Len(capture_queue) :
             i < j => capture_queue[i].picture < capture_queue[j].picture
    BY WriterFacts DEF FramesAhead
  <2>2. \A i \in 1 .. Len(q) :
          frame.picture < q[i].picture /\ q[i].picture <= captured + 1
    <3> SUFFICES ASSUME NEW i \in 1 .. Len(q)
                 PROVE  frame.picture < q[i].picture /\ q[i].picture <= captured + 1
      OBVIOUS
    <3>1. CASE i \in 1 .. Len(capture_queue) /\ q[i] = capture_queue[i]
      BY <2>1, <3>1
    <3>2. CASE q[i] = f
      <4>1. q[i].picture = captured + 1
        BY <1>2, <3>2
      <4> QED
        BY <2>1, <4>1
    <3> QED
      BY <1>3, <3>1, <3>2
  <2>3. \A i, j \in 1 .. Len(q) : i < j => q[i].picture < q[j].picture
    <3> SUFFICES ASSUME NEW i \in 1 .. Len(q), NEW j \in 1 .. Len(q), i < j
                 PROVE  q[i].picture < q[j].picture
      OBVIOUS
    <3>1. i \in 1 .. Len(capture_queue) /\ q[i] = capture_queue[i]
      BY <1>3, <2>1
    <3> QED
      BY <1>2, <1>3, <2>1, <3>1
  <2>4. captured' = captured + 1 /\ frame'.picture <= captured'
    BY <1>1, <2>1
  <2> QED
    BY <1>1, <2>2, <2>3, <2>4 DEF FramesAhead
<1>6. Announced' /\ SlotsFilled' /\ SegmentNamed' /\ Grows
  BY <1>1, Constants, WriterFacts
     DEF Announced, SlotsFilled, ResultIsOfFrame, SegmentNamed, Grows
<1> QED
  BY <1>4, <1>5, <1>6 DEF WriterInv

(* alarm_thread takes results, and a signal may arrive. *)
LEMMA OthersKeep ==
  ASSUME WriterInv, TakeResult \/ Stop \/ WebViewer \/ UNCHANGED vars
  PROVE  WriterInv' /\ Grows
<1>1. /\ inf_pc' = inf_pc /\ shm_name' = shm_name /\ shm' = shm /\ frame' = frame
      /\ found' = found /\ k' = k /\ infer_result' = infer_result
      /\ capture_queue' = capture_queue /\ captured' = captured /\ announced' = announced
  BY DEF TakeResult, Stop, Signal, WebViewer, WebOpen, WebUnchanged, WebSlept, WebNewFrame,
     WebCopyTop, WebCopyBottom, WebConvertFails, WebConvert, WebDraw,
     WebEncodeFails, WebGivesUp, WebSend, sharedVars, inferenceVars, envVars, vars
<1>2. running' \in BOOLEAN
  BY WriterFacts
     DEF TakeResult, Stop, Signal, WebViewer, WebOpen, WebUnchanged, WebSlept, WebNewFrame,
     WebCopyTop, WebCopyBottom, WebConvertFails, WebConvert, WebDraw,
     WebEncodeFails, WebGivesUp, WebSend, sharedVars, envVars, vars
<1>3. infer_queue' \in Seq(Results) /\ Len(infer_queue') <= QueueSlots
  <2>1. infer_queue \in Seq(Results) /\ Len(infer_queue) <= QueueSlots
        /\ Len(infer_queue) \in Nat
    BY WriterFacts
  <2>2. CASE TakeResult
    <3>1. infer_queue # <<>> /\ infer_queue' = Tail(infer_queue)
      BY <2>2 DEF TakeResult
    <3> QED
      BY <2>1, <3>1, HeadTailProperties, ThreadsAssumption
  <2>3. CASE ~TakeResult
    <3>1. infer_queue' = infer_queue
      BY <2>3 DEF Stop, Signal, WebViewer, WebOpen, WebUnchanged, WebSlept,
         WebNewFrame, WebCopyTop, WebCopyBottom, WebConvertFails, WebConvert, WebDraw,
         WebEncodeFails, WebGivesUp, WebSend, sharedVars, vars
    <3> QED
      BY <2>1, <3>1
  <2> QED
    BY <2>2, <2>3
<1>4. InferenceTypes'
  BY <1>1, <1>2, <1>3, Constants, WriterFacts DEF InferenceTypes
<1>5. FramesAhead' /\ Announced' /\ SegmentNamed' /\ Grows
  <2>1. FramesAhead'
    BY <1>1, WriterFacts DEF FramesAhead
  <2>2. Announced' /\ SegmentNamed'
    BY <1>1, WriterFacts DEF Announced, SegmentNamed
  <2>3. Grows
    BY <1>1, WriterFacts DEF Grows
  <2> QED
    BY <2>1, <2>2, <2>3
<1>6. SlotsFilled'
  BY <1>1, Constants, WriterFacts DEF SlotsFilled, ResultIsOfFrame
<1> QED
  BY <1>4, <1>5, <1>6 DEF WriterInv
--------------------------------------------------------------------------------
(* web_viewer *)

(* Each half copied is the segment's at that moment, so no older than what was
   announced, and no earlier than the half it replaces. *)
LEMMA ViewerKeeps ==
  ASSUME Inv, WebViewer
  PROVE  /\ WebTypes' /\ Viewed'
         /\ local_nv12'.top >= local_nv12.top /\ local_nv12'.bottom >= local_nv12.bottom
<1>1. WriterInv /\ WebTypes /\ Viewed
  BY DEF Inv
<1>2. shm' = shm /\ announced' = announced
  BY DEF WebViewer, WebOpen, WebUnchanged, WebSlept, WebNewFrame, WebCopyTop,
     WebCopyBottom, WebConvertFails, WebConvert, WebDraw, WebEncodeFails, WebGivesUp,
     WebSend, sharedVars, inferenceVars
<1>3. /\ local_nv12 \in Copies /\ sent \in Copies /\ given_up \in Copies
      /\ local_nv12.top \in Nat /\ local_nv12.bottom \in Nat
      /\ cnt \in Nat /\ cnt <= DetectSlots /\ slot \in Nat \ {0} /\ slot <= DetectSlots + 1
      /\ last_seq \in Int /\ -1 <= last_seq /\ last_seq <= Len(announced)
      /\ drawn \in [Slots -> Pictures] /\ DetectSlots \in Nat
      /\ web_pc \in {"open", "load", "sleep", "top", "bottom", "convert", "draw", "closed"}
  BY <1>1, PicturesAreNaturals DEF WebTypes, Copies
<1>4. /\ shm.top \in Pictures /\ shm.bottom \in Pictures /\ shm.top \in Nat /\ shm.bottom \in Nat
      /\ shm.count \in 0 .. DetectSlots /\ shm.detects \in [Slots -> Pictures]
      /\ shm.seq = Len(announced) /\ Len(announced) \in Nat
      /\ \A i \in 1 .. Len(announced) : announced[i] <= shm.top /\ announced[i] <= shm.bottom
  BY <1>1, WriterFacts DEF Segments, Announced
<1>5. /\ local_nv12.top <= shm.top /\ local_nv12.bottom <= shm.bottom
  BY <1>1 DEF Viewed
<1>6. last_seq > 0 => announced[last_seq] <= shm.top /\ announced[last_seq] <= shm.bottom
  BY <1>3, <1>4
<1>7. ASSUME UNCHANGED <<local_nv12, cnt, slot, drawn>>, last_seq' \in {last_seq, shm.seq},
             sent' \in {sent, local_nv12}, given_up' \in {given_up, local_nv12},
             web_pc' \in {"load", "sleep", "top", "closed"}
      PROVE  /\ WebTypes' /\ Viewed'
             /\ local_nv12'.top >= local_nv12.top /\ local_nv12'.bottom >= local_nv12.bottom
  <2>1. last_seq' \in Int /\ -1 <= last_seq' /\ last_seq' <= Len(announced')
    BY <1>2, <1>3, <1>4, <1>7
  <2>2. WebTypes'
    BY <1>1, <1>3, <1>7, <2>1, Constants, CopiesStay DEF WebTypes
  <2>3. Viewed'
    BY <1>2, <1>5, <1>7 DEF Viewed
  <2> QED
    BY <1>3, <1>7, <2>2, <2>3
<1>8. CASE WebCopyTop
  <2>1. /\ local_nv12' = [local_nv12 EXCEPT !.top = shm.top] /\ web_pc' = "bottom"
        /\ last_seq' = last_seq /\ cnt' = cnt /\ slot' = slot /\ drawn' = drawn
        /\ sent' = sent /\ given_up' = given_up
    BY <1>8 DEF WebCopyTop, outcome
  <2>2. /\ local_nv12' \in Copies
        /\ local_nv12'.top = shm.top /\ local_nv12'.bottom = local_nv12.bottom
    BY <1>3, <1>4, <2>1 DEF Copies
  <2>3. WebTypes'
    BY <1>1, <1>2, <2>1, <2>2, Constants, CopiesStay DEF WebTypes
  <2>4. Viewed'
    BY <1>2, <1>4, <1>5, <1>6, <2>1, <2>2 DEF Viewed
  <2> QED
    BY <1>3, <1>4, <1>5, <2>2, <2>3, <2>4
<1>9. CASE WebCopyBottom
  <2>1. /\ local_nv12' = [local_nv12 EXCEPT !.bottom = shm.bottom] /\ web_pc' = "convert"
        /\ web_pc = "bottom"
        /\ last_seq' = last_seq /\ cnt' = cnt /\ slot' = slot /\ drawn' = drawn
        /\ sent' = sent /\ given_up' = given_up
    BY <1>9 DEF WebCopyBottom, outcome
  <2>2. /\ local_nv12' \in Copies
        /\ local_nv12'.top = local_nv12.top /\ local_nv12'.bottom = shm.bottom
    BY <1>3, <1>4, <2>1 DEF Copies
  <2>3. WebTypes'
    BY <1>1, <1>2, <2>1, <2>2, Constants, CopiesStay DEF WebTypes
  <2>4. last_seq > 0 => local_nv12.top >= announced[last_seq]
    BY <1>1, <2>1 DEF Viewed
  <2>5. Viewed'
    BY <1>2, <1>4, <1>5, <1>6, <2>1, <2>2, <2>4 DEF Viewed
  <2> QED
    BY <1>3, <1>4, <1>5, <2>2, <2>3, <2>5
<1>10. CASE WebConvert \/ WebDraw
  <2>1. /\ local_nv12' = local_nv12 /\ last_seq' = last_seq
        /\ web_pc \in {"convert", "draw"} /\ web_pc' = "draw"
        /\ sent' = sent /\ given_up' = given_up
    BY <1>10 DEF WebConvert, WebDraw, outcome
  <2>2. cnt' \in 0 .. DetectSlots /\ slot' \in 1 .. DetectSlots + 1
    BY <1>3, <1>4, <1>10 DEF WebConvert, WebDraw
  <2>3. drawn' \in [Slots -> Pictures]
    <3>1. CASE WebConvert
      BY <3>1, PicturesAreNaturals DEF WebConvert, NothingDrawn
    <3>2. CASE WebDraw
      <4>1. slot \in Slots /\ drawn' = [drawn EXCEPT ![slot] = shm.detects[slot]]
        BY <1>3, <3>2 DEF WebDraw, Slots
      <4> QED
        BY <1>3, <1>4, <4>1
    <3> QED
      BY <1>10, <3>1, <3>2
  <2>4. WebTypes'
    BY <1>1, <1>2, <2>1, <2>2, <2>3, Constants, CopiesStay DEF WebTypes
  <2>5. Viewed'
    BY <1>1, <1>2, <2>1 DEF Viewed
  <2> QED
    BY <1>3, <2>1, <2>4, <2>5
<1>11. CASE \/ WebOpen \/ WebUnchanged \/ WebSlept \/ WebNewFrame
            \/ WebConvertFails \/ WebEncodeFails \/ WebSend
  <2>1. /\ UNCHANGED <<local_nv12, cnt, slot, drawn>>
        /\ last_seq' \in {last_seq, shm.seq} /\ web_pc' \in {"load", "sleep", "top", "closed"}
        /\ sent' \in {sent, local_nv12} /\ given_up' \in {given_up, local_nv12}
    BY <1>11 DEF WebOpen, WebUnchanged, WebSlept, WebNewFrame, WebConvertFails,
       WebEncodeFails, WebGivesUp, WebSend, outcome
  <2> QED
    BY <1>7, <2>1
<1> QED
  BY <1>8, <1>9, <1>10, <1>11 DEF WebViewer
--------------------------------------------------------------------------------
(* The invariant is kept by every step of the writer, of the viewer and of what
   surrounds them. *)
LEMMA Inductive ==
  ASSUME Inv, [Next]_vars
  PROVE  Inv'
<1>1. WriterInv
  BY DEF Inv
<1>2. CASE CaptureFrame \/ InferenceStep \/ TakeResult \/ Stop \/ UNCHANGED vars
  <2>1. UNCHANGED webVars
    BY <1>2 DEF CaptureFrame, InferenceStep, TakeResult, Stop, vars
  <2>2. WriterInv' /\ Grows
    BY <1>1, <1>2, CaptureKeeps, InferenceKeeps, OthersKeep
  <2> QED
    BY <2>1, <2>2, GrowthKeepsViewer DEF Inv
<1>3. CASE WebViewer
  BY <1>1, <1>3, OthersKeep, ViewerKeeps DEF Inv
<1> QED
  BY <1>2, <1>3 DEF Next

(* The inductive invariant holds in every reachable state. *)
THEOREM SharingInvariant == Spec => []Inv
<1>1. Init => Inv
  BY Initially
<1>2. Inv /\ [Next]_vars => Inv'
  BY Inductive
<1> QED
  BY <1>1, <1>2, PTL DEF Spec
--------------------------------------------------------------------------------
(* The properties of the runs *)

(* The variables have their types; seq counts exactly the announcements, and the
   viewer never reads beyond the slots of the segment. *)
THEOREM TypeCorrect == Spec => []TypeOK
<1>1. ASSUME Inv
      PROVE  TypeOK
  <2>1. WriterInv /\ WebTypes
    BY <1>1 DEF Inv
  <2>2. /\ shm.top \in Pictures /\ shm.bottom \in Pictures
        /\ shm.count \in 0 .. DetectSlots /\ shm.detects \in [Slots -> Pictures]
        /\ infer_result.results \in [Slots -> Pictures]
    BY <2>1, WriterFacts DEF Segments, Results
  <2>3. last_seq \in -1 .. Len(announced)
    BY <2>1, WriterFacts DEF WebTypes
  <2> QED
    BY <2>1, <2>2, <2>3, WriterFacts DEF TypeOK, WebTypes
<1> QED
  BY <1>1, SharingInvariant, PTL

(* What web_viewer copied without a lock is of the picture that seq announced to
   it, or of a later one. *)
THEOREM CopiesAreFresh == Spec => []CopyIsFresh
<1>1. Inv => CopyIsFresh
  BY DEF Inv, Viewed, CopyIsFresh
<1> QED
  BY <1>1, SharingInvariant, PTL

(* However inference_thread ends, the name of the segment is gone. *)
THEOREM NoSegmentIsLeft == Spec => []NoSegmentLeft
<1>1. Inv => NoSegmentLeft
  BY DEF Inv, WriterInv, SegmentNamed, NoSegmentLeft
<1> QED
  BY <1>1, SharingInvariant, PTL

(* The result pushed has the boxes of its frame, each in its slot, and no other. *)
THEOREM ResultsAreOfFrame == Spec => []ResultIsOfFrame
<1>1. Inv => ResultIsOfFrame
  BY DEF Inv, WriterInv, SlotsFilled
<1> QED
  BY <1>1, SharingInvariant, PTL

(* The viewer's copy never goes back to an earlier picture, in either half. *)
THEOREM VideoMovesForward == Spec => VideoNeverGoesBack
<1> DEFINE Forward == /\ local_nv12'.top >= local_nv12.top
                      /\ local_nv12'.bottom >= local_nv12.bottom
<1>1. ASSUME Inv, [Next]_vars
      PROVE  [Forward]_local_nv12
  <2>1. CASE WebViewer
    BY <1>1, <2>1, ViewerKeeps
  <2>2. CASE ~WebViewer
    BY <1>1, <2>2 DEF Next, vars, webVars, CaptureFrame, TakeResult, Stop, InferenceStep
  <2> QED
    BY <2>1, <2>2
<1> QED
  BY <1>1, SharingInvariant, PTL DEF Spec, VideoNeverGoesBack
================================================================================
