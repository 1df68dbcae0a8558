----------------------------- MODULE PipelineProofs ----------------------------
(***************************************************************************)
(* Proofs about Pipeline.tla for any number of buffers, pictures, queue    *)
(* slots and detection slots, and whatever the model finds: no buffer is   *)
(* lost to the camera, results reach alarm_thread in the order of the      *)
(* pictures they were found in, a snapshot is never older than its alarm,  *)
(* and the counters of the threads agree.                                  *)
(***************************************************************************)
EXTENDS Pipeline, FiniteSetTheorems, SequenceTheorems, TLAPS

Frames == [seq : Int, picture : Nat]
Results == [seq : Int, count : 0 .. DetectSlots, results : [Slots -> Nat]]
--------------------------------------------------------------------------------
(* The inductive invariant.  First capture_thread with the driver. *)

(* The pictures taken are in the buffers filled, in the one held before its
   picture is copied, or in a frame made. *)
PicturesCounted ==
  cap_seq + Len(filled) + (IF cap_pc = "copy" THEN 1 ELSE 0) <= pictures

CaptureTypes ==
  /\ CaptureTypeOK
  /\ PicturesCounted

(* Each buffer is queued, filled or held, and none is twice. *)
OneOwner ==
  /\ held \notin queued
  /\ \A i \in 1 .. Len(filled) : filled[i] \notin queued /\ filled[i] # held
  /\ \A i, j \in 1 .. Len(filled) : i < j => filled[i] # filled[j]

Owned ==
  /\ cap_pc \in {"open", "setup"} => filled = <<>> /\ held = NoBuffer /\ ~streaming
  /\ cap_pc = "open" => mapped = 0 /\ queued = {}
  /\ cap_pc = "setup" => queued = 0 .. mapped - 1
  /\ cap_pc = "exited" => ~streaming
  /\ cap_pc \in {"loop", "wait"} => held = NoBuffer
  /\ cap_pc \in {"copy", "push", "requeue"} => held \in Buffers

InLoop == cap_pc \in {"loop", "wait", "copy", "push", "requeue"}

AllOwned ==
  InLoop =>
    /\ \A b \in Buffers : \/ b \in queued \/ b = held
                          \/ \E i \in 1 .. Len(filled) : filled[i] = b
    /\ Cardinality(queued) + Len(filled) + (IF held = NoBuffer THEN 0 ELSE 1) = NBUF

(* The buffers are filled with ever later pictures, all later than the last frame
   made. *)
FilledInOrder ==
  /\ \A b \in Buffers : content[b] <= pictures
  /\ cap_frame.picture <= pictures /\ cap_frame.seq < cap_seq
  /\ \A i \in 1 .. Len(filled) : cap_frame.picture < content[filled[i]]
  /\ \A i, j \in 1 .. Len(filled) : i < j => content[filled[i]] < content[filled[j]]
  /\ cap_pc = "copy" =>
       /\ cap_frame.picture < content[held]
       /\ \A i \in 1 .. Len(filled) : content[held] < content[filled[i]]

CaptureInv == CaptureTypes /\ OneOwner /\ Owned /\ AllOwned /\ FilledInOrder
--------------------------------------------------------------------------------
(* Then the frames on their way to inference_thread. *)

Earlier(f, g) == f.seq < g.seq /\ f.picture < g.picture
NotLater(f, g) == f.seq <= g.seq /\ f.picture <= g.picture

FrameTypes ==
  /\ running \in BOOLEAN
  /\ cap_frame \in Frames /\ frame \in Frames
  /\ capture_queue \in Seq(Frames) /\ Len(capture_queue) <= QueueSlots

FramesInOrder ==
  /\ \A i, j \in 1 .. Len(capture_queue) :
       i < j => Earlier(capture_queue[i], capture_queue[j])
  /\ \A i \in 1 .. Len(capture_queue) :
       /\ Earlier(frame, capture_queue[i])
       /\ NotLater(capture_queue[i], cap_frame)
       /\ cap_pc = "push" => Earlier(capture_queue[i], cap_frame)
  /\ NotLater(frame, cap_frame)
  /\ cap_pc = "push" => Earlier(frame, cap_frame)

FrameInv == FrameTypes /\ FramesInOrder
--------------------------------------------------------------------------------
(* The result being made and those on their way to alarm_thread. *)

(* q is of a later frame than r, and its boxes are of a later picture. *)
Before(r, q) ==
  /\ r.seq < q.seq
  /\ \A s, t \in Slots : q.results[s] # 0 => q.results[s] > r.results[t]

(* r is of frame f at the latest. *)
UpTo(r, f) ==
  /\ r.seq <= f.seq
  /\ \A t \in Slots : r.results[t] <= f.picture

(* r is of a frame before f. *)
Precedes(r, f) ==
  /\ r.seq < f.seq
  /\ \A t \in Slots : r.results[t] < f.picture

(* The picture in shared memory is the one of r or a later one. *)
InShm(r) == \A t \in Slots : r.results[t] <= shm.top /\ r.results[t] <= shm.bottom

InHand == inf_pc \in {"top", "bottom", "infer", "detects", "push"}

InferenceTypes ==
  /\ inf_pc \in {"unlink", "create", "setup", "loop", "pop", "top", "bottom",
                 "infer", "skip", "detects", "push", "count", "exited"}
  /\ shm_name \in BOOLEAN
  /\ shm \in [seq : Nat, top : Nat, bottom : Nat, count : 0 .. DetectSlots,
              detects : [Slots -> Nat]]
  /\ found \in Seq(BOOLEAN) /\ Len(found) <= DetectSlots
  /\ k \in Nat \ {0}
  /\ infer_result \in Results
  /\ inference_frame_count \in Nat

ResultTypes ==
  /\ alm_pc \in {"start", "loop", "pop", "rules", "open", "top", "bottom", "save",
                 "exited"}
  /\ result \in Results /\ alm_i \in 1 .. DetectSlots + 1
  /\ alm_pc \in {"open", "top", "bottom", "save"} => alm_i <= result.count
  /\ nv12 \in [top : Nat, bottom : Nat]
  /\ detect_publish_count \in Nat
  /\ infer_queue \in Seq(Results) /\ Len(infer_queue) <= QueueSlots
  /\ main_pc \in {"poll", "join_cap", "join_inf", "join_alm", "exited"}

(* The halves of the segment are of the frame in hand once they are copied. *)
Copied ==
  /\ inf_pc = "bottom" => shm.top = frame.picture
  /\ inf_pc \in {"infer", "detects", "push"} =>
       shm.top = frame.picture /\ shm.bottom = frame.picture
  /\ shm.top <= frame.picture /\ shm.bottom <= frame.picture

InTheMaking ==
  inf_pc \in {"detects", "push"} =>
    /\ infer_result.seq = frame.seq
    /\ \A s \in Slots : infer_result.results[s] \in {0, frame.picture}

Sent ==
  /\ UpTo(result, frame) /\ InShm(result)
  /\ InHand => Precedes(result, frame)
  /\ \A i \in 1 .. Len(infer_queue) :
       /\ Before(result, infer_queue[i])
       /\ UpTo(infer_queue[i], frame) /\ InShm(infer_queue[i])
       /\ InHand => Precedes(infer_queue[i], frame)
  /\ \A i, j \in 1 .. Len(infer_queue) :
       i < j => Before(infer_queue[i], infer_queue[j])

(* What alarm_thread has of the picture it puts into a snapshot. *)
SnapshotTaken ==
  /\ alm_pc \in {"bottom", "save"} => nv12.top >= result.results[alm_i]
  /\ alm_pc = "save" => nv12.bottom >= result.results[alm_i]

(* Each raw detection published was pushed before, and each result pushed is
   counted or about to be. *)
Accounted ==
  detect_publish_count + Len(infer_queue)
    + (IF alm_pc \in {"rules", "open", "top", "bottom", "save"} THEN 1 ELSE 0)
    <= inference_frame_count + (IF inf_pc = "count" THEN 1 ELSE 0)

ResultInv == /\ InferenceTypes /\ ResultTypes /\ Copied /\ InTheMaking /\ Sent
             /\ SnapshotTaken /\ Accounted

Inv == CaptureInv /\ FrameInv /\ ResultInv
--------------------------------------------------------------------------------
(* Queues *)

(* push appends the item or drops it. *)
LEMMA PushedProperties ==
  ASSUME NEW S, NEW queue \in Seq(S), NEW x \in S, Len(queue) <= QueueSlots
  PROVE  /\ Pushed(queue, x) \in Seq(S)
         /\ Len(Pushed(queue, x)) \in Nat
         /\ Len(Pushed(queue, x)) <= QueueSlots
         /\ Len(queue) <= Len(Pushed(queue, x))
         /\ Len(Pushed(queue, x)) <= Len(queue) + 1
         /\ \A i \in 1 .. Len(Pushed(queue, x)) :
              \/ i <= Len(queue) /\ Pushed(queue, x)[i] = queue[i]
              \/ i = Len(queue) + 1 /\ Pushed(queue, x)[i] = x
<1>1. Len(queue) \in Nat
  OBVIOUS
<1>2. CASE Len(queue) < QueueSlots
  <2>1. Pushed(queue, x) = Append(queue, x)
    BY <1>2 DEF Pushed
  <2> QED
    BY <1>1, <1>2, <2>1, AppendProperties, ThreadsAssumption
<1>3. CASE ~(Len(queue) < QueueSlots)
  <2>1. Pushed(queue, x) = queue
    BY <1>3 DEF Pushed
  <2> QED
    BY <1>1, <2>1
<1> QED
  BY <1>2, <1>3
--------------------------------------------------------------------------------
(* capture_thread *)

LEMMA CaptureInitially ==
  ASSUME Init
  PROVE  CaptureInv
<1> USE CaptureAssumption
    DEF Init, CaptureInit, CaptureTypes, CaptureTypeOK, PicturesCounted, OneOwner,
        Owned, AllOwned, InLoop, FilledInOrder, Buffers, NoBuffer, NoFrame
<1>1. filled \in Seq(Buffers) /\ Len(filled) = 0
  OBVIOUS
<1>2. CaptureTypes
  <2>1. content \in [Buffers -> 0 .. MaxPictures]
    OBVIOUS
  <2> QED
    BY <1>1, <2>1
<1>3. OneOwner /\ Owned /\ AllOwned
  BY <1>1
<1>4. FilledInOrder
  BY <1>1
<1> QED
  BY <1>2, <1>3, <1>4 DEF CaptureInv

(* The buffers are finitely many. *)
LEMMA QueuedFinite ==
  ASSUME queued \subseteq Buffers
  PROVE  IsFiniteSet(queued) /\ Cardinality(queued) \in Nat
<1>1. IsFiniteSet(Buffers)
  BY FS_Interval, CaptureAssumption DEF Buffers
<1> QED
  BY <1>1, FS_Subset, FS_CardinalityType

(* What the invariant says of the variables' values. *)
LEMMA CaptureFacts ==
  ASSUME CaptureInv
  PROVE  /\ queued \subseteq Buffers /\ filled \in Seq(Buffers) /\ Len(filled) \in Nat
         /\ \A i \in 1 .. Len(filled) : filled[i] \in Buffers
         /\ held \in Buffers \cup {NoBuffer}
         /\ content \in [Buffers -> 0 .. MaxPictures]
         /\ \A b \in Buffers : content[b] \in Nat
         /\ pictures \in Nat /\ pictures <= MaxPictures /\ MaxPictures \in Nat
         /\ cap_seq \in Nat /\ cap_frame.picture \in Nat /\ cap_frame.seq \in Int
         /\ mapped \in 0 .. NBUF /\ fd_open \in BOOLEAN /\ streaming \in BOOLEAN
         /\ PicturesCounted /\ OneOwner /\ Owned /\ AllOwned /\ FilledInOrder
<1> USE DEF CaptureInv, CaptureTypes, CaptureTypeOK
<1>1. queued \subseteq Buffers /\ filled \in Seq(Buffers) /\ held \in Buffers \cup {NoBuffer}
  OBVIOUS
<1>2. Len(filled) \in Nat /\ \A i \in 1 .. Len(filled) : filled[i] \in Buffers
  BY <1>1, ElementOfSeq
<1>3. content \in [Buffers -> 0 .. MaxPictures] /\ MaxPictures \in Nat
  BY CaptureAssumption
<1>4. \A b \in Buffers : content[b] \in Nat
  BY <1>3
<1>5. cap_frame.picture \in Nat /\ cap_frame.seq \in Int
  BY <1>3 DEF NoFrame
<1>6. pictures \in Nat /\ pictures <= MaxPictures /\ cap_seq \in Nat
  BY <1>3
<1> QED
  BY <1>1, <1>2, <1>3, <1>4, <1>5, <1>6

(* The camera fills a queued buffer with the latest picture. *)
LEMMA CameraKeeps ==
  ASSUME CaptureInv, TakePicture
  PROVE  CaptureInv'
<1>0. PICK b \in queued :
        /\ pictures' = pictures + 1
        /\ content' = [content EXCEPT ![b] = pictures']
        /\ queued' = queued \ {b}
        /\ filled' = Append(filled, b)
  BY DEF TakePicture
<1>1. /\ pictures' = pictures + 1
      /\ content' = [content EXCEPT ![b] = pictures']
      /\ queued' = queued \ {b} /\ filled' = Append(filled, b)
      /\ b \in queued /\ b \in Buffers
  BY <1>0, CaptureFacts
<1>2. /\ streaming /\ pictures < MaxPictures
      /\ cap_pc' = cap_pc /\ fd_open' = fd_open /\ mapped' = mapped
      /\ streaming' = streaming /\ held' = held /\ cap_seq' = cap_seq
      /\ cap_frame' = cap_frame
  BY DEF TakePicture, setupVars
<1>4. /\ filled' \in Seq(Buffers) /\ Len(filled) \in Nat
      /\ Len(filled') = Len(filled) + 1
      /\ \A i \in 1 .. Len(filled) : filled'[i] = filled[i]
      /\ filled'[Len(filled) + 1] = b
  BY <1>1, CaptureFacts, AppendProperties
<1>5. /\ content' \in [Buffers -> 0 .. MaxPictures]
      /\ content'[b] = pictures + 1
      /\ \A c \in Buffers \ {b} : content'[c] = content[c]
  BY <1>1, <1>2, CaptureFacts
<1>3. /\ cap_pc' \notin {"open", "setup", "exited"}
  BY <1>2, CaptureFacts DEF Owned
<1>6. CaptureTypes'
  <2>1. queued' \subseteq Buffers /\ pictures' \in 0 .. MaxPictures
    BY <1>1, <1>2, CaptureFacts
  <2>2. CaptureTypeOK'
    BY <1>2, <1>4, <1>5, <2>1 DEF CaptureInv, CaptureTypes, CaptureTypeOK, Buffers, NoBuffer,
       NoFrame
  <2>3. PicturesCounted'
    BY <1>1, <1>2, <1>4, CaptureFacts DEF PicturesCounted
  <2> QED
    BY <2>2, <2>3 DEF CaptureTypes
<1>7. OneOwner'
  <2>1. OneOwner
    BY CaptureFacts
  <2>2. held' \notin queued' /\ held' # b
    BY <1>1, <1>2, <2>1 DEF OneOwner
  <2>3. \A i \in 1 .. Len(filled) : filled'[i] \notin queued' /\ filled'[i] # held'
                                   /\ filled'[i] # b
    BY <1>1, <1>2, <1>4, <2>1 DEF OneOwner
  <2>4. \A i \in 1 .. Len(filled') : i \in 1 .. Len(filled) \/ i = Len(filled) + 1
    BY <1>4
  <2>5. \A i, j \in 1 .. Len(filled) : i < j => filled'[i] # filled'[j]
    BY <1>4, <2>1 DEF OneOwner
  <2>6. \A i \in 1 .. Len(filled') : filled'[i] \notin queued' /\ filled'[i] # held'
    BY <1>1, <1>4, <2>2, <2>3, <2>4
  <2>7. \A i, j \in 1 .. Len(filled') : i < j => filled'[i] # filled'[j]
    BY <1>4, <2>3, <2>4, <2>5
  <2> QED
    BY <2>2, <2>6, <2>7 DEF OneOwner
<1>8. Owned'
  BY <1>1, <1>2, <1>3, CaptureFacts DEF Owned, Buffers
<1>9. AllOwned'
  <2> SUFFICES ASSUME InLoop
               PROVE  /\ \A c \in Buffers :
                           \/ c \in queued' \/ c = held
                           \/ \E i \in 1 .. Len(filled') : filled'[i] = c
                      /\ Cardinality(queued') + Len(filled')
                           + (IF held = NoBuffer THEN 0 ELSE 1) = NBUF
    BY <1>2 DEF AllOwned, InLoop, Buffers, NoBuffer
  <2>1. /\ \A c \in Buffers : \/ c \in queued \/ c = held
                              \/ \E i \in 1 .. Len(filled) : filled[i] = c
        /\ Cardinality(queued) + Len(filled) + (IF held = NoBuffer THEN 0 ELSE 1) = NBUF
    BY CaptureFacts DEF AllOwned
  <2>2. \A c \in Buffers : \/ c \in queued' \/ c = held
                           \/ \E i \in 1 .. Len(filled') : filled'[i] = c
    BY <1>1, <1>4, <2>1
  <2>3. IsFiniteSet(queued) /\ Cardinality(queued) \in Nat
    BY QueuedFinite, CaptureFacts
  <2>4. Cardinality(queued') = Cardinality(queued) - 1
    BY <1>1, <2>3, FS_RemoveElement
  <2> QED
    BY <1>4, <2>1, <2>2, <2>3, <2>4
<1>10. FilledInOrder'
  <2> DEFINE n == Len(filled)
             P(i) == content[filled[i]]
             Q(i) == content'[filled'[i]]
  <2>0. FilledInOrder /\ OneOwner /\ Owned
    BY CaptureFacts
  <2>1. \A i \in 1 .. n : filled[i] \in Buffers /\ filled[i] # b
    BY <1>1, <2>0, CaptureFacts DEF OneOwner
  <2>2. \A i \in 1 .. n : Q(i) = P(i)
    BY <1>4, <1>5, <2>1
  <2>3. Q(n + 1) = pictures + 1 /\ n \in Nat /\ Len(filled') = n + 1
    BY <1>4, <1>5
  <2>4. \A i \in 1 .. n : P(i) <= pictures /\ P(i) \in Nat /\ cap_frame.picture < P(i)
    BY <2>0, <2>1, CaptureFacts DEF FilledInOrder
  <2>5. cap_frame.picture \in Int /\ cap_frame.picture <= pictures /\ pictures \in Nat
    BY <2>0, CaptureFacts DEF FilledInOrder
  <2>6. /\ \A c \in Buffers : content'[c] <= pictures'
        /\ cap_frame'.picture <= pictures' /\ cap_frame'.seq < cap_seq'
    BY <1>1, <1>2, <1>5, <2>0, <2>5, CaptureFacts DEF FilledInOrder
  <2>11. \A i \in 1 .. n + 1 : i \in 1 .. n \/ i = n + 1
    BY <2>3
  <2>7. \A i \in 1 .. n + 1 : cap_frame.picture < Q(i)
    <3> SUFFICES ASSUME NEW i \in 1 .. n + 1
                 PROVE  cap_frame.picture < Q(i)
      OBVIOUS
    <3>1. CASE i = n + 1
      BY <3>1, <2>3, <2>5
    <3>2. CASE i \in 1 .. n
      BY <3>2, <2>2, <2>4
    <3> QED
      BY <2>11, <3>1, <3>2
  <2>8. \A i, j \in 1 .. n + 1 : i < j => Q(i) < Q(j)
    <3> SUFFICES ASSUME NEW i \in 1 .. n + 1, NEW j \in 1 .. n + 1, i < j
                 PROVE  Q(i) < Q(j)
      OBVIOUS
    <3>1. i \in 1 .. n
      BY <2>3
    <3>2. CASE j = n + 1
      <4>1. Q(i) <= pictures /\ Q(i) \in Nat
        BY <3>1, <2>2, <2>4
      <4> QED
        BY <3>2, <4>1, <2>3, <2>5
    <3>3. CASE j \in 1 .. n
      <4>1. P(i) < P(j)
        BY <3>1, <3>3, <2>0 DEF FilledInOrder
      <4> QED
        BY <3>1, <3>3, <4>1, <2>2
    <3> QED
      BY <2>11, <3>2, <3>3
  <2>9. ASSUME cap_pc = "copy"
        PROVE  /\ cap_frame.picture < content'[held]
               /\ \A i \in 1 .. n + 1 : content'[held] < Q(i)
    <3>1. held \in Buffers /\ content'[held] = content[held]
      BY <1>1, <1>5, <2>0, <2>9 DEF Owned, OneOwner
    <3>2. content[held] <= pictures /\ content[held] \in Nat
      BY <2>0, <3>1, CaptureFacts DEF FilledInOrder
    <3>3. \A i \in 1 .. n : content[held] < P(i)
      BY <2>0, <2>9 DEF FilledInOrder
    <3>4. cap_frame.picture < content[held]
      BY <2>0, <2>9 DEF FilledInOrder
    <3> SUFFICES ASSUME NEW i \in 1 .. n + 1
                 PROVE  content[held] < Q(i)
      BY <3>1, <3>4
    <3>5. CASE i = n + 1
      BY <3>5, <2>3, <2>5, <3>2
    <3>6. CASE i \in 1 .. n
      BY <3>6, <2>2, <3>3
    <3> QED
      BY <2>11, <3>5, <3>6
  <2> QED
    BY <1>2, <2>3, <2>6, <2>7, <2>8, <2>9 DEF FilledInOrder, Buffers
<1> QED
  BY <1>6, <1>7, <1>8, <1>9, <1>10 DEF CaptureInv

(* capture_thread takes the oldest filled buffer. *)
LEMMA DequeueKeeps ==
  ASSUME CaptureInv, CapDequeue
  PROVE  CaptureInv'
<1>1. /\ cap_pc = "wait" /\ cap_pc' = "copy" /\ filled # <<>>
      /\ held' = Head(filled) /\ filled' = Tail(filled)
      /\ fd_open' = fd_open /\ mapped' = mapped /\ streaming' = streaming
      /\ queued' = queued /\ content' = content /\ pictures' = pictures
      /\ cap_seq' = cap_seq /\ cap_frame' = cap_frame
  BY DEF CapDequeue, setupVars
<1>2. /\ filled' \in Seq(Buffers) /\ Len(filled') = Len(filled) - 1
      /\ Len(filled) \in Nat \ {0}
      /\ \A i \in 1 .. Len(filled') : filled'[i] = filled[i + 1]
      /\ held' = filled[1] /\ held' \in Buffers
  <2>1. filled \in Seq(Buffers)
    BY CaptureFacts
  <2>2. Head(filled) = filled[1]
    BY <2>1
  <2> QED
    BY <1>1, <2>1, <2>2, HeadTailProperties, EmptySeq
<1>3. CaptureTypes'
  <2>1. CaptureTypeOK'
    BY <1>1, <1>2 DEF CaptureInv, CaptureTypes, CaptureTypeOK, Buffers, NoBuffer, NoFrame
  <2>2. PicturesCounted'
    BY <1>1, <1>2, CaptureFacts DEF PicturesCounted
  <2> QED
    BY <2>1, <2>2 DEF CaptureTypes
<1>4. OneOwner'
  <2>1. \A i \in 1 .. Len(filled') : /\ filled'[i] \notin queued' /\ filled'[i] # held'
    BY <1>1, <1>2, CaptureFacts DEF OneOwner
  <2>2. \A i, j \in 1 .. Len(filled') : i < j => filled'[i] # filled'[j]
    BY <1>1, <1>2, CaptureFacts DEF OneOwner
  <2>3. held' \notin queued'
    BY <1>1, <1>2, CaptureFacts DEF OneOwner
  <2> QED
    BY <2>1, <2>2, <2>3 DEF OneOwner
<1>5. Owned'
  BY <1>1, <1>2 DEF Owned, Buffers
<1>6. AllOwned'
  <2>1. /\ \A b \in Buffers : \/ b \in queued \/ b = NoBuffer
                              \/ \E i \in 1 .. Len(filled) : filled[i] = b
        /\ Cardinality(queued) + Len(filled) = NBUF
        /\ Cardinality(queued) \in Nat
    BY <1>1, CaptureFacts, QueuedFinite DEF AllOwned, InLoop, Owned
  <2>2. Buffers \subseteq Nat /\ NoBuffer \notin Buffers
    BY CaptureAssumption DEF Buffers, NoBuffer
  <2>3. ASSUME NEW b \in Buffers
        PROVE  \/ b \in queued' \/ b = held'
               \/ \E i \in 1 .. Len(filled') : filled'[i] = b
    <3>1. CASE b \in queued
      BY <1>1, <3>1
    <3>2. ASSUME NEW i \in 1 .. Len(filled), filled[i] = b
          PROVE  b = held' \/ \E l \in 1 .. Len(filled') : filled'[l] = b
      <4>1. CASE i = 1
        BY <1>2, <3>2, <4>1
      <4>2. CASE i # 1
        <5>1. i - 1 \in 1 .. Len(filled') /\ filled'[i - 1] = b
          BY <1>2, <3>2, <4>2
        <5> QED
          BY <5>1
      <4> QED
        BY <4>1, <4>2
    <3> QED
      BY <2>1, <2>2, <3>1, <3>2
  <2>4. Cardinality(queued') + Len(filled') + (IF held' = NoBuffer THEN 0 ELSE 1) = NBUF
    BY <1>1, <1>2, <2>1, <2>2
  <2>5. Buffers' = Buffers /\ NoBuffer' = NoBuffer
    BY DEF Buffers, NoBuffer
  <2> QED
    BY <2>3, <2>4, <2>5 DEF AllOwned
<1>7. FilledInOrder'
  <2>1. \A b \in Buffers : content'[b] <= pictures'
    BY <1>1, CaptureFacts DEF FilledInOrder
  <2>2. cap_frame'.picture <= pictures' /\ cap_frame'.seq < cap_seq'
    BY <1>1, CaptureFacts DEF FilledInOrder
  <2>3. \A i \in 1 .. Len(filled') : cap_frame'.picture < content'[filled'[i]]
    BY <1>1, <1>2, CaptureFacts DEF FilledInOrder
  <2>4. \A i, j \in 1 .. Len(filled') :
          i < j => content'[filled'[i]] < content'[filled'[j]]
    BY <1>1, <1>2, CaptureFacts DEF FilledInOrder
  <2>5. cap_frame'.picture < content'[held']
    BY <1>1, <1>2, CaptureFacts DEF FilledInOrder
  <2>6. \A i \in 1 .. Len(filled') : content'[held'] < content'[filled'[i]]
    BY <1>1, <1>2, CaptureFacts DEF FilledInOrder
  <2> QED
    BY <2>1, <2>2, <2>3, <2>4, <2>5, <2>6 DEF FilledInOrder, Buffers
<1> QED
  BY <1>3, <1>4, <1>5, <1>6, <1>7 DEF CaptureInv

(* It makes a frame of the picture in the buffer held. *)
LEMMA CopyKeeps ==
  ASSUME CaptureInv, CapCopy
  PROVE  CaptureInv'
<1>1. /\ cap_pc = "copy" /\ cap_pc' = "push"
      /\ cap_frame' = [seq |-> cap_seq, picture |-> content[held]]
      /\ cap_seq' = cap_seq + 1
      /\ fd_open' = fd_open /\ mapped' = mapped /\ streaming' = streaming
      /\ queued' = queued /\ filled' = filled /\ content' = content
      /\ pictures' = pictures /\ held' = held
  BY DEF CapCopy, setupVars, driverVars
<1>2. /\ held \in Buffers /\ content[held] \in 1 .. MaxPictures
      /\ content[held] <= pictures /\ cap_seq < pictures
  BY <1>1, CaptureFacts DEF Owned, FilledInOrder, PicturesCounted
<1>3. CaptureTypes'
  <2>1. cap_frame' \in [seq : 0 .. MaxPictures, picture : 1 .. MaxPictures]
    BY <1>1, <1>2, CaptureFacts
  <2>2. cap_seq' \in 0 .. MaxPictures
    BY <1>1, <1>2, CaptureFacts
  <2>3. CaptureTypeOK'
    BY <1>1, <2>1, <2>2 DEF CaptureInv, CaptureTypes, CaptureTypeOK, Buffers, NoBuffer,
       NoFrame
  <2>4. PicturesCounted'
    BY <1>1, CaptureFacts DEF PicturesCounted
  <2> QED
    BY <2>3, <2>4 DEF CaptureTypes
<1>4. OneOwner' /\ Owned' /\ AllOwned'
  BY <1>1, CaptureFacts DEF OneOwner, Owned, AllOwned, InLoop, Buffers, NoBuffer
<1>5. FilledInOrder'
  BY <1>1, <1>2, CaptureFacts DEF FilledInOrder, Buffers
<1> QED
  BY <1>3, <1>4, <1>5 DEF CaptureInv

(* The driver gets the buffers one by one, and all before the stream is on. *)
LEMMA SetupKeeps ==
  ASSUME CaptureInv, CapMapBuffer \/ CapStreamOn
  PROVE  CaptureInv'
<1>1. /\ cap_pc = "setup" /\ fd_open' = fd_open
      /\ filled' = filled /\ content' = content /\ pictures' = pictures
      /\ held' = held /\ cap_seq' = cap_seq /\ cap_frame' = cap_frame
  BY DEF CapMapBuffer, CapStreamOn, driverVars
<1>2. \/ /\ mapped < NBUF /\ mapped' = mapped + 1 /\ queued' = queued \cup {mapped}
         /\ cap_pc' = "setup" /\ streaming' = streaming
      \/ /\ mapped = NBUF /\ mapped' = mapped /\ queued' = queued
         /\ cap_pc' = "loop" /\ streaming' = TRUE
  BY <1>1 DEF CapMapBuffer, CapStreamOn, driverVars
<1>3. /\ filled = <<>> /\ Len(filled) = 0 /\ held = NoBuffer /\ ~streaming
      /\ queued = 0 .. mapped - 1 /\ mapped \in 0 .. NBUF /\ NBUF \in Nat
  BY <1>1, CaptureFacts, CaptureAssumption DEF Owned
<1>4. queued' = 0 .. mapped' - 1 /\ mapped' \in 0 .. NBUF
  <2>1. CASE mapped < NBUF /\ mapped' = mapped + 1 /\ queued' = queued \cup {mapped}
    <3>1. (0 .. mapped - 1) \cup {mapped} = 0 .. (mapped + 1) - 1
      BY <1>3
    <3>2. queued' = 0 .. (mapped + 1) - 1
      BY <1>3, <2>1, <3>1
    <3>3. queued' = 0 .. mapped' - 1
      BY <2>1, <3>2
    <3>4. mapped' \in 0 .. NBUF
      BY <1>3, <2>1
    <3> QED
      BY <3>3, <3>4
  <2>2. CASE mapped' = mapped /\ queued' = queued
    <3>1. queued' = 0 .. mapped' - 1
      BY <1>3, <2>2
    <3> QED
      BY <1>3, <2>2, <3>1
  <2> QED
    BY <1>2, <2>1, <2>2
<1>5. CaptureTypes'
  <2>1. queued' \subseteq Buffers
    <3>1. \A m \in 0 .. NBUF : 0 .. m - 1 \subseteq 0 .. NBUF - 1
      BY <1>3
    <3> QED
      BY <1>4, <3>1, Zenon DEF Buffers
  <2>2. CaptureTypeOK'
    BY <1>1, <1>2, <1>4, <2>1
       DEF CaptureInv, CaptureTypes, CaptureTypeOK, Buffers, NoBuffer, NoFrame
  <2>3. PicturesCounted'
    BY <1>1, <1>2, CaptureFacts DEF PicturesCounted
  <2> QED
    BY <2>2, <2>3 DEF CaptureTypes
<1>6. OneOwner'
  BY <1>1, <1>3, <1>4 DEF OneOwner, NoBuffer
<1>7. Owned'
  <2>1. NoBuffer' = NoBuffer
    BY DEF NoBuffer
  <2>2. filled' = <<>> /\ held' = NoBuffer
    BY <1>1, <1>3
  <2>3. cap_pc' \in {"setup", "loop"} /\ (cap_pc' = "setup" => ~streaming')
    BY <1>2, <1>3
  <2> QED
    BY <1>4, <2>1, <2>2, <2>3, Zenon DEF Owned
<1>8. AllOwned'
  <2>1. CASE cap_pc' = "setup"
    BY <2>1 DEF AllOwned, InLoop
  <2>2. CASE cap_pc' = "loop"
    <3>1. queued' = Buffers
      BY <1>2, <1>4, <2>2 DEF Buffers
    <3>2. Cardinality(Buffers) = NBUF
      BY <1>3, FS_Interval, CaptureAssumption DEF Buffers
    <3> QED
      BY <1>1, <1>3, <3>1, <3>2 DEF AllOwned, Buffers, NoBuffer
  <2> QED
    BY <1>2, <2>1, <2>2
<1>9. FilledInOrder'
  BY <1>1, <1>2, CaptureFacts DEF FilledInOrder, Buffers
<1> QED
  BY <1>5, <1>6, <1>7, <1>8, <1>9 DEF CaptureInv

(* It gives the buffer back, or leaves the loop. *)
LEMMA RequeueKeeps ==
  ASSUME CaptureInv, CapRequeue
  PROVE  CaptureInv'
<1>1. /\ cap_pc = "requeue" /\ held \in Buffers
      /\ fd_open' = fd_open /\ mapped' = mapped /\ streaming' = streaming
      /\ filled' = filled /\ content' = content /\ pictures' = pictures
      /\ cap_seq' = cap_seq /\ cap_frame' = cap_frame
  BY CaptureFacts DEF CapRequeue, setupVars, Owned
<1>2. \/ queued' = queued \cup {held} /\ held' = NoBuffer /\ cap_pc' = "loop"
      \/ cap_pc' = "close" /\ queued' = queued /\ held' = held
  BY DEF CapRequeue
<1>3. CaptureTypes'
  <2>1. CaptureTypeOK'
    BY <1>1, <1>2 DEF CaptureInv, CaptureTypes, CaptureTypeOK, Buffers, NoBuffer, NoFrame
  <2>2. PicturesCounted'
    BY <1>1, <1>2, CaptureFacts DEF PicturesCounted
  <2> QED
    BY <2>1, <2>2 DEF CaptureTypes
<1>4. NoBuffer \notin Buffers /\ NoBuffer' = NoBuffer /\ Buffers' = Buffers
  BY CaptureAssumption DEF Buffers, NoBuffer
<1>5. OneOwner'
  BY <1>1, <1>2, <1>4, CaptureFacts DEF OneOwner
<1>6. Owned'
  BY <1>1, <1>2, <1>4, CaptureFacts DEF Owned
<1>7. AllOwned'
  <2>1. CASE cap_pc' = "close"
    BY <2>1 DEF AllOwned, InLoop
  <2>2. CASE queued' = queued \cup {held} /\ held' = NoBuffer
    <3>1. IsFiniteSet(queued) /\ Cardinality(queued) \in Nat
      BY QueuedFinite, CaptureFacts
    <3>2. Cardinality(queued') = Cardinality(queued) + 1
      BY <2>2, <3>1, FS_AddElement, CaptureFacts DEF OneOwner
    <3>3. /\ \A b \in Buffers : \/ b \in queued \/ b = held
                                \/ \E i \in 1 .. Len(filled) : filled[i] = b
          /\ Cardinality(queued) + Len(filled) + 1 = NBUF
      BY <1>1, <1>4, CaptureFacts DEF AllOwned, InLoop
    <3> QED
      BY <1>1, <1>4, <2>2, <3>1, <3>2, <3>3, CaptureFacts DEF AllOwned
  <2> QED
    BY <1>2, <2>1, <2>2
<1>8. FilledInOrder'
  BY <1>1, <1>2, CaptureFacts DEF FilledInOrder, Buffers
<1> QED
  BY <1>3, <1>5, <1>6, <1>7, <1>8 DEF CaptureInv

(* STREAMOFF leaves nothing with the driver. *)
LEMMA CloseKeeps ==
  ASSUME CaptureInv, CapClose
  PROVE  CaptureInv'
<1>1. /\ cap_pc = "close" /\ cap_pc' = "exited"
      /\ streaming' = FALSE /\ queued' = {} /\ filled' = <<>> /\ mapped' = 0
      /\ fd_open' = FALSE /\ content' = content /\ pictures' = pictures
      /\ held' = held /\ cap_seq' = cap_seq /\ cap_frame' = cap_frame
  BY DEF CapClose
<1>2. filled' \in Seq(Buffers) /\ Len(filled') = 0
  BY <1>1
<1>3. CaptureTypes'
  <2>1. CaptureTypeOK'
    BY <1>1, <1>2, CaptureAssumption
       DEF CaptureInv, CaptureTypes, CaptureTypeOK, Buffers, NoBuffer, NoFrame
  <2>2. PicturesCounted'
    BY <1>1, <1>2, CaptureFacts DEF PicturesCounted
  <2> QED
    BY <2>1, <2>2 DEF CaptureTypes
<1>4. OneOwner' /\ Owned' /\ AllOwned'
  BY <1>1, <1>2 DEF OneOwner, Owned, AllOwned, InLoop, Buffers, NoBuffer
<1>5. FilledInOrder'
  BY <1>1, <1>2, CaptureFacts DEF FilledInOrder, Buffers
<1> QED
  BY <1>3, <1>4, <1>5 DEF CaptureInv

(* The other steps leave the driver alone. *)
LEMMA CaptureKeeps ==
  ASSUME CaptureInv, Capture
  PROVE  CaptureInv'
<1>1. ASSUME CapOpen \/ CapSetupFails \/ CapLoop \/ CapNothing \/ CapPush
      PROVE  CaptureInv'
  <2>1. /\ mapped' = mapped /\ streaming' = streaming /\ queued' = queued
        /\ filled' = filled /\ content' = content /\ pictures' = pictures
        /\ held' = held /\ cap_seq' = cap_seq /\ cap_frame' = cap_frame
    BY <1>1 DEF CapOpen, CapSetupFails, CapLoop, CapNothing, CapPush, setupVars, driverVars
  <2>2. /\ fd_open' \in BOOLEAN
        /\ \/ cap_pc = "open" /\ cap_pc' = "setup"
           \/ cap_pc \in {"open", "setup"} /\ cap_pc' = "exited"
           \/ cap_pc = "loop" /\ cap_pc' \in {"wait", "close"}
           \/ cap_pc = "wait" /\ cap_pc' = "loop"
           \/ cap_pc = "push" /\ cap_pc' = "requeue"
    BY <1>1, CaptureFacts
       DEF CapOpen, CapSetupFails, CapLoop, CapNothing, CapPush, setupVars
  <2>3. CaptureTypes'
    <3>1. CaptureTypeOK'
      BY <2>1, <2>2 DEF CaptureInv, CaptureTypes, CaptureTypeOK, Buffers, NoBuffer, NoFrame
    <3>2. PicturesCounted'
      BY <2>1, <2>2, CaptureFacts DEF PicturesCounted
    <3> QED
      BY <3>1, <3>2 DEF CaptureTypes
  <2>4. OneOwner'
    BY <2>1, CaptureFacts DEF OneOwner
  <2>5. Owned'
    <3>1. Owned /\ Buffers' = Buffers /\ NoBuffer' = NoBuffer
      BY CaptureFacts DEF Buffers, NoBuffer
    <3>2. ASSUME cap_pc = "open", cap_pc' = "setup"
          PROVE  Owned'
      <4>1. mapped = 0 /\ queued = {} /\ 0 .. 0 - 1 = {}
        BY <3>1, <3>2 DEF Owned
      <4>2. queued' = 0 .. mapped' - 1
        BY <2>1, <4>1
      <4>3. filled' = <<>> /\ held' = NoBuffer /\ ~streaming'
        BY <2>1, <3>1, <3>2 DEF Owned
      <4> QED
        BY <3>1, <3>2, <4>2, <4>3, Zenon DEF Owned
    <3>3. ASSUME cap_pc \in {"open", "setup"}, cap_pc' = "exited"
          PROVE  Owned'
      BY <2>1, <3>1, <3>3 DEF Owned
    <3>4. ASSUME cap_pc \in {"loop", "wait", "push"},
                 cap_pc' \in {"loop", "wait", "close", "requeue"},
                 cap_pc' \in {"loop", "wait"} => cap_pc \in {"loop", "wait"},
                 cap_pc' = "requeue" => cap_pc = "push"
          PROVE  Owned'
      BY <2>1, <3>1, <3>4 DEF Owned
    <3> QED
      BY <2>2, <3>2, <3>3, <3>4
  <2>6. AllOwned'
    BY <2>1, <2>2, CaptureFacts DEF AllOwned, InLoop, Buffers, NoBuffer
  <2>7. FilledInOrder'
    BY <2>1, <2>2, CaptureFacts DEF FilledInOrder, Buffers
  <2> QED
    BY <2>3, <2>4, <2>5, <2>6, <2>7 DEF CaptureInv
<1> QED
  BY <1>1, SetupKeeps, DequeueKeeps, CopyKeeps, RequeueKeeps, CloseKeeps DEF Capture
--------------------------------------------------------------------------------
(* The frames *)

LEMMA FrameFacts ==
  ASSUME FrameInv
  PROVE  /\ cap_frame \in Frames /\ cap_frame.seq \in Int /\ cap_frame.picture \in Nat
         /\ frame \in Frames /\ frame.seq \in Int /\ frame.picture \in Nat
         /\ capture_queue \in Seq(Frames) /\ Len(capture_queue) \in Nat
         /\ Len(capture_queue) <= QueueSlots
         /\ \A i \in 1 .. Len(capture_queue) :
              /\ capture_queue[i] \in Frames
              /\ capture_queue[i].seq \in Int /\ capture_queue[i].picture \in Nat
         /\ running \in BOOLEAN /\ FramesInOrder
<1> USE DEF FrameInv, FrameTypes
<1>1. capture_queue \in Seq(Frames)
  OBVIOUS
<1>2. Len(capture_queue) \in Nat
      /\ \A i \in 1 .. Len(capture_queue) : capture_queue[i] \in Frames
  BY <1>1, ElementOfSeq
<1>3. \A f \in Frames : f.seq \in Int /\ f.picture \in Nat
  BY DEF Frames
<1> QED
  BY <1>1, <1>2, <1>3

LEMMA FrameInitially ==
  ASSUME Init
  PROVE  FrameInv
<1>1. capture_queue = <<>> /\ capture_queue \in Seq(Frames) /\ Len(capture_queue) = 0
  BY DEF Init, ThreadsInit
<1>2. cap_frame = [seq |-> -1, picture |-> 0] /\ frame = [seq |-> -1, picture |-> 0]
      /\ running = TRUE /\ cap_pc = "open"
  BY DEF Init, ThreadsInit, CaptureInit, InferenceInit, NoFrame
<1>3. FrameTypes
  BY <1>1, <1>2, ThreadsAssumption DEF FrameTypes, Frames
<1>4. FramesInOrder
  BY <1>1, <1>2 DEF FramesInOrder, NotLater
<1> QED
  BY <1>3, <1>4 DEF FrameInv

(* A frame is made later, of a later picture, than the one before it, and pushed
   once. *)
LEMMA CaptureKeepsFrames ==
  ASSUME CaptureInv, FrameInv, Capture, frame' = frame
  PROVE  FrameInv'
<1>1. ASSUME CapCopy
      PROVE  FrameInv'
  <2>1. /\ cap_frame' = [seq |-> cap_seq, picture |-> content[held]]
        /\ capture_queue' = capture_queue /\ running' = running /\ cap_pc' = "push"
        /\ cap_pc = "copy" /\ cap_seq \in Nat
    BY <1>1, CaptureFacts DEF CapCopy
  <2>2. content[held] \in Nat /\ cap_frame.picture < content[held]
        /\ cap_frame.seq < cap_seq
    BY <2>1, CaptureFacts DEF Owned, FilledInOrder
  <2>3. cap_frame' \in Frames /\ Earlier(cap_frame, cap_frame')
    BY <2>1, <2>2 DEF Frames, Earlier
  <2>4. FrameTypes'
    BY <2>1, <2>3, FrameFacts DEF FrameTypes, Frames
  <2>5. FramesInOrder'
    <3>1. Earlier(frame, cap_frame') /\ NotLater(frame, cap_frame')
      BY <2>1, <2>2, FrameFacts DEF FramesInOrder, NotLater, Earlier
    <3>2. \A i \in 1 .. Len(capture_queue) :
            Earlier(capture_queue[i], cap_frame') /\ NotLater(capture_queue[i], cap_frame')
      BY <2>1, <2>2, FrameFacts DEF FramesInOrder, NotLater, Earlier
    <3>3. (NotLater(frame, cap_frame) /\ Earlier(frame, cap_frame))'
      BY <3>1 DEF NotLater, Earlier
    <3>4. \A i \in 1 .. Len(capture_queue') :
            (Earlier(capture_queue[i], cap_frame) /\ NotLater(capture_queue[i], cap_frame)
             /\ Earlier(frame, capture_queue[i]))'
      BY <2>1, <3>2, FrameFacts DEF FramesInOrder, NotLater, Earlier
    <3>5. \A i, j \in 1 .. Len(capture_queue') :
            i < j => Earlier(capture_queue[i], capture_queue[j])'
      BY <2>1, FrameFacts DEF FramesInOrder, Earlier
    <3> QED
      BY <3>3, <3>4, <3>5 DEF FramesInOrder
  <2> QED
    BY <2>4, <2>5 DEF FrameInv
<1>2. ASSUME CapPush
      PROVE  FrameInv'
  <2> DEFINE q == Pushed(capture_queue, cap_frame)
  <2>1. /\ cap_frame' = cap_frame /\ capture_queue' = q /\ running' = running
        /\ cap_pc' = "requeue" /\ cap_pc = "push"
    BY <1>2 DEF CapPush
  <2>2. /\ q \in Seq(Frames) /\ Len(q) \in Nat /\ Len(q) <= QueueSlots
        /\ \A i \in 1 .. Len(q) :
             \/ i \in 1 .. Len(capture_queue) /\ q[i] = capture_queue[i]
             \/ i = Len(capture_queue) + 1 /\ q[i] = cap_frame
    <3>1. capture_queue \in Seq(Frames) /\ cap_frame \in Frames
          /\ Len(capture_queue) <= QueueSlots /\ Len(capture_queue) \in Nat
      BY FrameFacts
    <3>2. /\ q \in Seq(Frames) /\ Len(q) \in Nat /\ Len(q) <= QueueSlots
          /\ \A i \in 1 .. Len(q) :
               \/ i <= Len(capture_queue) /\ q[i] = capture_queue[i]
               \/ i = Len(capture_queue) + 1 /\ q[i] = cap_frame
      BY <3>1, PushedProperties
    <3> HIDE DEF q
    <3> QED
      BY <3>1, <3>2
  <2>3. FrameTypes'
    BY <2>1, <2>2, FrameFacts DEF FrameTypes, Frames
  <2>4. /\ \A i, j \in 1 .. Len(capture_queue) :
             i < j => Earlier(capture_queue[i], capture_queue[j])
        /\ \A i \in 1 .. Len(capture_queue) :
             /\ Earlier(frame, capture_queue[i])
             /\ NotLater(capture_queue[i], cap_frame)
             /\ Earlier(capture_queue[i], cap_frame)
        /\ Earlier(frame, cap_frame) /\ NotLater(frame, cap_frame)
    BY <2>1, FrameFacts DEF FramesInOrder
  <2>5. NotLater(cap_frame, cap_frame)
    BY FrameFacts DEF NotLater
  <2>6. \A i, j \in 1 .. Len(q) : i < j => Earlier(q[i], q[j])
    <3> SUFFICES ASSUME NEW i \in 1 .. Len(q), NEW j \in 1 .. Len(q), i < j
                 PROVE  Earlier(q[i], q[j])
      OBVIOUS
    <3> HIDE DEF q
    <3>1. i \in 1 .. Len(capture_queue) /\ q[i] = capture_queue[i]
      BY <2>2, FrameFacts
    <3> QED
      BY <2>2, <2>4, <3>1
  <2>7. \A i \in 1 .. Len(q) : Earlier(frame, q[i]) /\ NotLater(q[i], cap_frame)
    <3> HIDE DEF q
    <3> QED
      BY <2>2, <2>4, <2>5
  <2>8. FramesInOrder'
    <3> HIDE DEF q
    <3>1. \A i, j \in 1 .. Len(capture_queue') :
            i < j => (Earlier(capture_queue[i], capture_queue[j]))'
      BY <2>1, <2>6 DEF Earlier
    <3>2. \A i \in 1 .. Len(capture_queue') :
            (Earlier(frame, capture_queue[i]) /\ NotLater(capture_queue[i], cap_frame))'
      BY <2>1, <2>7 DEF Earlier, NotLater
    <3>3. NotLater(frame, cap_frame)' /\ cap_pc' # "push"
      BY <2>1, <2>4 DEF NotLater
    <3> QED
      BY <3>1, <3>2, <3>3 DEF FramesInOrder
  <2> QED
    BY <2>3, <2>8 DEF FrameInv
<1>3. ASSUME UNCHANGED <<cap_frame, capture_queue, running>>, cap_pc' # "push"
      PROVE  FrameInv'
  BY <1>3 DEF FrameInv, FrameTypes, FramesInOrder, Earlier, NotLater, Frames
<1> QED
  BY <1>1, <1>2, <1>3
     DEF Capture, CapOpen, CapSetupFails, CapMapBuffer, CapStreamOn, CapLoop, CapNothing,
         CapDequeue, CapRequeue, CapClose

(* The frame popped is later than the one before it. *)
LEMMA PopKeepsFrames ==
  ASSUME FrameInv, InfPop, UNCHANGED <<cap_pc, cap_frame>>
  PROVE  FrameInv' /\ Earlier(frame, frame')
<1>1. /\ capture_queue # <<>> /\ frame' = Head(capture_queue)
      /\ capture_queue' = Tail(capture_queue)
      /\ running' = running
  BY DEF InfPop
<1>2. /\ Len(capture_queue) \in Nat \ {0} /\ frame' = capture_queue[1]
      /\ capture_queue' \in Seq(Frames)
      /\ Len(capture_queue') = Len(capture_queue) - 1
      /\ \A i \in 1 .. Len(capture_queue') : capture_queue'[i] = capture_queue[i + 1]
      /\ frame' \in Frames
  <2>1. capture_queue \in Seq(Frames)
    BY FrameFacts
  <2>2. Head(capture_queue) = capture_queue[1]
    BY <2>1
  <2> QED
    BY <1>1, <2>1, <2>2, HeadTailProperties, EmptySeq
<1>3. Earlier(frame, frame')
  <2>1. 1 \in 1 .. Len(capture_queue)
    BY <1>2
  <2>2. Earlier(frame, capture_queue[1])
    BY <2>1, FrameFacts DEF FramesInOrder
  <2> QED
    BY <1>2, <2>2 DEF Earlier
<1>4. FrameTypes'
  <2>1. Frames' = Frames
    BY DEF Frames
  <2>2. Len(capture_queue') <= QueueSlots
    BY <1>2, FrameFacts, ThreadsAssumption
  <2>3. running' \in BOOLEAN /\ cap_frame' \in Frames
    BY <1>1, FrameFacts
  <2> QED
    BY <1>2, <2>1, <2>2, <2>3 DEF FrameTypes
<1>5. FramesInOrder'
  <2>1. \A i \in 1 .. Len(capture_queue') : i + 1 \in 1 .. Len(capture_queue) /\ 1 < i + 1
    BY <1>2
  <2>5. 1 \in 1 .. Len(capture_queue)
    BY <1>2
  <2>2. \A i, j \in 1 .. Len(capture_queue') :
          i < j => Earlier(capture_queue'[i], capture_queue'[j])
    <3> SUFFICES ASSUME NEW i \in 1 .. Len(capture_queue'),
                        NEW j \in 1 .. Len(capture_queue'), i < j
                 PROVE  Earlier(capture_queue'[i], capture_queue'[j])
      OBVIOUS
    <3>1. i + 1 \in 1 .. Len(capture_queue) /\ j + 1 \in 1 .. Len(capture_queue)
          /\ i + 1 < j + 1
      BY <2>1
    <3>2. Earlier(capture_queue[i + 1], capture_queue[j + 1])
      BY <3>1, FrameFacts DEF FramesInOrder
    <3> QED
      BY <1>2, <3>2
  <2>3. \A i \in 1 .. Len(capture_queue') :
          /\ Earlier(frame', capture_queue'[i])
          /\ NotLater(capture_queue'[i], cap_frame')
          /\ cap_pc' = "push" => Earlier(capture_queue'[i], cap_frame')
    <3>1. \A i \in 2 .. Len(capture_queue) :
            /\ Earlier(capture_queue[1], capture_queue[i])
            /\ NotLater(capture_queue[i], cap_frame)
            /\ cap_pc = "push" => Earlier(capture_queue[i], cap_frame)
      BY <2>5, FrameFacts DEF FramesInOrder
    <3> QED
      BY <1>2, <2>1, <3>1 DEF Earlier, NotLater
  <2>4. NotLater(frame', cap_frame') /\ (cap_pc' = "push" => Earlier(frame', cap_frame'))
    BY <1>2, <2>5, FrameFacts DEF FramesInOrder
  <2> QED
    BY <2>2, <2>3, <2>4 DEF FramesInOrder, Earlier, NotLater
<1> QED
  BY <1>3, <1>4, <1>5 DEF FrameInv
--------------------------------------------------------------------------------
(* The results *)

LEMMA ResultFacts ==
  ASSUME ResultInv
  PROVE  /\ shm.top \in Nat /\ shm.bottom \in Nat
         /\ found \in Seq(BOOLEAN) /\ Len(found) \in Nat /\ Len(found) <= DetectSlots
         /\ \A i \in 1 .. Len(found) : found[i] \in BOOLEAN
         /\ infer_result.seq \in Int /\ infer_result.results \in [Slots -> Nat]
         /\ result.seq \in Int /\ \A t \in Slots : result.results[t] \in Nat
         /\ infer_queue \in Seq(Results) /\ Len(infer_queue) \in Nat
         /\ Len(infer_queue) <= QueueSlots
         /\ \A i \in 1 .. Len(infer_queue) :
              /\ infer_queue[i] \in Results
              /\ infer_queue[i].seq \in Int
              /\ \A t \in Slots : infer_queue[i].results[t] \in Nat
         /\ InferenceTypes /\ ResultTypes /\ Copied /\ InTheMaking /\ Sent
         /\ SnapshotTaken /\ Accounted
<1>1. InferenceTypes /\ ResultTypes /\ Copied /\ InTheMaking /\ Sent
      /\ SnapshotTaken /\ Accounted
  BY DEF ResultInv
<1>2. infer_queue \in Seq(Results) /\ Len(infer_queue) <= QueueSlots
  BY <1>1 DEF ResultTypes
<1>3. Len(infer_queue) \in Nat
      /\ \A i \in 1 .. Len(infer_queue) : infer_queue[i] \in Results
  BY <1>2, ElementOfSeq
<1>4. found \in Seq(BOOLEAN) /\ Len(found) <= DetectSlots
  BY <1>1 DEF InferenceTypes
<1>5. Len(found) \in Nat /\ \A i \in 1 .. Len(found) : found[i] \in BOOLEAN
  BY <1>4, ElementOfSeq
<1>6. \A r \in Results : r.seq \in Int /\ \A t \in Slots : r.results[t] \in Nat
  BY DEF Results
<1>7. infer_result.seq \in Int /\ infer_result.results \in [Slots -> Nat]
  BY <1>1 DEF InferenceTypes, Results
<1>8. shm.top \in Nat /\ shm.bottom \in Nat
  BY <1>1 DEF InferenceTypes
<1>9. result \in Results
  BY <1>1 DEF ResultTypes
<1> QED
  BY <1>1, <1>2, <1>3, <1>4, <1>5, <1>6, <1>7, <1>8, <1>9

LEMMA ResultInitially ==
  ASSUME Init
  PROVE  ResultInv
<1>1. infer_queue = <<>> /\ infer_queue \in Seq(Results) /\ Len(infer_queue) = 0
  BY DEF Init, ThreadsInit
<1>2. found = <<>> /\ found \in Seq(BOOLEAN) /\ Len(found) = 0
  BY DEF Init, InferenceInit
<1>3. EmptyResult \in Results /\ [EmptyResult EXCEPT !.seq = -1] \in Results
  BY InferenceAssumption DEF EmptyResult, Results
<1>4. InferenceTypes
  BY <1>2, <1>3, InferenceAssumption DEF Init, InferenceInit, InferenceTypes, EmptyShm
<1>5. ResultTypes
  BY <1>1, <1>3, InferenceAssumption, ThreadsAssumption DEF Init, ResultTypes
<1>6. Copied /\ InTheMaking /\ SnapshotTaken /\ Accounted
  BY <1>1 DEF Init, InferenceInit, EmptyShm, Copied, InTheMaking, SnapshotTaken, Accounted
<1>7. Sent
  BY <1>1 DEF Init, InferenceInit, EmptyShm, EmptyResult, Sent, UpTo, InShm, InHand
<1> QED
  BY <1>4, <1>5, <1>6, <1>7 DEF ResultInv

(* What is sent stays in order as long as the frame in hand stays and shared memory
   only gets later pictures. *)
LEMMA SentStays ==
  ASSUME ResultInv, UNCHANGED <<result, infer_queue, frame>>,
         shm'.top \in Nat, shm'.bottom \in Nat,
         shm.top <= shm'.top, shm.bottom <= shm'.bottom,
         InHand' => InHand
  PROVE  Sent'
<1>1. result' = result /\ infer_queue' = infer_queue /\ frame' = frame
  OBVIOUS
<1>2. ASSUME NEW r, \A t \in Slots : r.results[t] \in Nat, InShm(r)
      PROVE  \A t \in Slots : r.results[t] <= shm'.top /\ r.results[t] <= shm'.bottom
  BY <1>2, ResultFacts DEF InShm
<1>3. \A t \in Slots : result.results[t] <= shm'.top /\ result.results[t] <= shm'.bottom
  BY <1>2, ResultFacts DEF Sent
<1>4. \A i \in 1 .. Len(infer_queue) : \A t \in Slots :
        infer_queue[i].results[t] <= shm'.top /\ infer_queue[i].results[t] <= shm'.bottom
  BY <1>2, ResultFacts DEF Sent
<1>5. (UpTo(result, frame) /\ InShm(result) /\ (InHand => Precedes(result, frame)))'
  BY <1>1, <1>3, ResultFacts DEF Sent, UpTo, InShm, Precedes
<1>6. \A i \in 1 .. Len(infer_queue') :
        (/\ Before(result, infer_queue[i])
         /\ UpTo(infer_queue[i], frame) /\ InShm(infer_queue[i])
         /\ InHand => Precedes(infer_queue[i], frame))'
  BY <1>1, <1>4, ResultFacts DEF Sent, UpTo, InShm, Precedes, Before
<1>7. \A i, j \in 1 .. Len(infer_queue') :
        i < j => Before(infer_queue[i], infer_queue[j])'
  BY <1>1, ResultFacts DEF Sent, Before
<1> QED
  BY <1>5, <1>6, <1>7 DEF Sent

(* What alarm_thread has stays as long as it rests. *)
AlarmRests == UNCHANGED <<alm_pc, result, alm_i, nv12, detect_publish_count, main_pc>>

LEMMA TypesStay ==
  ASSUME ResultInv, AlarmRests, infer_queue' = infer_queue
  PROVE  ResultTypes' /\ SnapshotTaken'
BY ResultFacts DEF AlarmRests, ResultTypes, SnapshotTaken, Results, Slots

(* Between two frames nothing is in the making. *)
BetweenFrames ==
  InfUnlink \/ InfCreate \/ InfSetup \/ InfLoop \/ InfStop \/ InfNothing \/ InfFails
    \/ InfSkip \/ InfCount

LEMMA BetweenFramesKeeps ==
  ASSUME ResultInv, BetweenFrames, AlarmRests
  PROVE  ResultInv'
<1> USE DEF BetweenFrames, InfUnlink, InfCreate, InfSetup, InfLoop, InfStop, InfNothing,
            InfFails, InfSkip, InfCount
<1>1. /\ frame' = frame /\ found' = found /\ k' = k /\ infer_result' = infer_result
      /\ infer_queue' = infer_queue /\ result' = result
  BY DEF AlarmRests
<1>2. /\ shm'.top = shm.top /\ shm'.bottom = shm.bottom
      /\ shm' \in [seq : Nat, top : Nat, bottom : Nat, count : 0 .. DetectSlots,
                   detects : [Slots -> Nat]]
  <2>1. shm \in [seq : Nat, top : Nat, bottom : Nat, count : 0 .. DetectSlots,
                 detects : [Slots -> Nat]]
    BY ResultFacts DEF InferenceTypes
  <2>2. \/ shm' = shm \/ shm' = [shm EXCEPT !.count = 0]
        \/ shm' = [shm EXCEPT !.seq = shm.seq + 1]
    OBVIOUS
  <2>3. 0 \in 0 .. DetectSlots
    BY InferenceAssumption
  <2> QED
    BY <2>1, <2>2, <2>3
<1>3. inf_pc' \in {"create", "setup", "loop", "pop", "skip", "exited"}
  OBVIOUS
<1>4. shm_name' \in BOOLEAN
  BY ResultFacts DEF InferenceTypes
<1>5. /\ inference_frame_count' \in Nat
      /\ inference_frame_count' =
           inference_frame_count + (IF inf_pc = "count" THEN 1 ELSE 0)
  BY ResultFacts DEF InferenceTypes
<1>6. InferenceTypes'
  BY <1>1, <1>2, <1>3, <1>4, <1>5, ResultFacts DEF InferenceTypes, Results, Slots
<1>7. ~InHand' /\ InTheMaking'
  BY <1>3 DEF InHand, InTheMaking
<1>8. Copied'
  BY <1>1, <1>2, <1>3, ResultFacts DEF Copied
<1>9. Sent'
  <2>1. shm'.top \in Nat /\ shm'.bottom \in Nat /\ shm.top <= shm'.top
        /\ shm.bottom <= shm'.bottom
    BY <1>2, ResultFacts
  <2> QED
    BY <1>1, <1>7, <2>1, SentStays
<1>10. ResultTypes' /\ SnapshotTaken'
  BY <1>1, TypesStay
<1>11. Accounted'
  <2>1. alm_pc' = alm_pc /\ detect_publish_count' = detect_publish_count
    BY DEF AlarmRests
  <2> QED
    BY <1>1, <1>3, <1>5, <2>1, ResultFacts DEF Accounted
<1> QED
  BY <1>6, <1>7, <1>8, <1>9, <1>10, <1>11 DEF ResultInv

(* A frame popped is later than all that was sent. *)
LEMMA PopKeepsResults ==
  ASSUME FrameInv, ResultInv, InfPop, Earlier(frame, frame'), frame' \in Frames, AlarmRests
  PROVE  ResultInv'
<1>1. /\ inf_pc = "pop" /\ inf_pc' = "top"
      /\ shm' = shm /\ shm_name' = shm_name /\ found' = found /\ k' = k
      /\ infer_result' = infer_result /\ infer_queue' = infer_queue
      /\ inference_frame_count' = inference_frame_count
      /\ alm_pc' = alm_pc /\ detect_publish_count' = detect_publish_count
      /\ result' = result
  BY DEF InfPop, AlarmRests
<1>2. /\ frame.seq < frame'.seq /\ frame.picture < frame'.picture
      /\ frame.seq \in Int /\ frame.picture \in Nat
      /\ frame'.seq \in Int /\ frame'.picture \in Nat
  BY FrameFacts DEF Earlier, Frames
<1>3. InferenceTypes'
  BY <1>1, ResultFacts DEF InferenceTypes, Results, Slots
<1>4. Copied'
  BY <1>1, <1>2, ResultFacts DEF Copied
<1>5. InTheMaking' /\ Accounted'
  BY <1>1, ResultFacts DEF InTheMaking, Accounted
<1>6. (UpTo(result, frame) /\ InShm(result) /\ Precedes(result, frame))'
  <2>1. /\ UpTo(result, frame) /\ InShm(result) /\ result.seq \in Int
        /\ \A t \in Slots : result.results[t] \in Nat
    BY ResultFacts DEF Sent
  <2> QED
    BY <1>1, <1>2, <2>1 DEF UpTo, InShm, Precedes
<1>7. \A i \in 1 .. Len(infer_queue') :
        (/\ Before(result, infer_queue[i]) /\ UpTo(infer_queue[i], frame)
         /\ InShm(infer_queue[i]) /\ Precedes(infer_queue[i], frame))'
  <2> SUFFICES ASSUME NEW i \in 1 .. Len(infer_queue)
               PROVE  (/\ Before(result, infer_queue[i]) /\ UpTo(infer_queue[i], frame)
                       /\ InShm(infer_queue[i]) /\ Precedes(infer_queue[i], frame))'
    BY <1>1
  <2>1. /\ infer_queue[i].seq \in Int /\ \A t \in Slots : infer_queue[i].results[t] \in Nat
        /\ Before(result, infer_queue[i]) /\ InShm(infer_queue[i])
        /\ UpTo(infer_queue[i], frame)
    BY ResultFacts DEF Sent
  <2>2. Before(result, infer_queue[i])' /\ InShm(infer_queue[i])'
    BY <1>1, <2>1 DEF Before, InShm
  <2>3. UpTo(infer_queue[i], frame)' /\ Precedes(infer_queue[i], frame)'
    BY <1>1, <1>2, <2>1 DEF UpTo, Precedes
  <2> QED
    BY <2>2, <2>3
<1>8. \A i, j \in 1 .. Len(infer_queue') :
        i < j => Before(infer_queue[i], infer_queue[j])'
  BY <1>1, ResultFacts DEF Sent, Before
<1>9. Sent'
  BY <1>6, <1>7, <1>8 DEF Sent
<1>10. ResultTypes' /\ SnapshotTaken'
  BY <1>1, TypesStay
<1> QED
  BY <1>3, <1>4, <1>5, <1>9, <1>10 DEF ResultInv

(* The picture is copied into shared memory half by half. *)
LEMMA CopyKeepsResults ==
  ASSUME FrameInv, ResultInv, InfCopyTop \/ InfCopyBottom, AlarmRests
  PROVE  ResultInv'
<1>1. /\ frame' = frame /\ shm_name' = shm_name /\ found' = found /\ k' = k
      /\ infer_result' = infer_result /\ infer_queue' = infer_queue
      /\ inference_frame_count' = inference_frame_count
      /\ alm_pc' = alm_pc /\ detect_publish_count' = detect_publish_count
      /\ result' = result
  BY DEF InfCopyTop, InfCopyBottom, AlarmRests
<1>2. \/ /\ inf_pc = "top" /\ inf_pc' = "bottom"
         /\ shm' = [shm EXCEPT !.top = frame.picture]
      \/ /\ inf_pc = "bottom" /\ inf_pc' = "infer"
         /\ shm' = [shm EXCEPT !.bottom = frame.picture]
  BY DEF InfCopyTop, InfCopyBottom
<1>3. shm \in [seq : Nat, top : Nat, bottom : Nat, count : 0 .. DetectSlots,
               detects : [Slots -> Nat]]
  BY ResultFacts DEF InferenceTypes
<1>4. frame.picture \in Nat /\ shm.top <= frame.picture /\ shm.bottom <= frame.picture
  BY FrameFacts, ResultFacts DEF Copied
<1>5. /\ shm' \in [seq : Nat, top : Nat, bottom : Nat, count : 0 .. DetectSlots,
                   detects : [Slots -> Nat]]
      /\ shm'.top \in Nat /\ shm'.bottom \in Nat
      /\ shm.top <= shm'.top /\ shm.bottom <= shm'.bottom
      /\ shm'.top <= frame.picture /\ shm'.bottom <= frame.picture
      /\ inf_pc' = "bottom" => shm'.top = frame.picture
      /\ inf_pc' = "infer" => shm'.top = shm.top /\ shm'.bottom = frame.picture
  BY <1>2, <1>3, <1>4
<1>6. InferenceTypes'
  BY <1>1, <1>2, <1>5, ResultFacts DEF InferenceTypes, Results, Slots
<1>7. Copied'
  BY <1>1, <1>2, <1>5, ResultFacts DEF Copied
<1>8. InTheMaking' /\ Accounted'
  BY <1>1, <1>2, ResultFacts DEF InTheMaking, Accounted
<1>9. Sent'
  BY <1>1, <1>2, <1>5, SentStays DEF InHand
<1>10. ResultTypes' /\ SnapshotTaken'
  BY <1>1, TypesStay
<1> QED
  BY <1>6, <1>7, <1>8, <1>9, <1>10 DEF ResultInv

(* The result starts out empty, and gets the boxes of its frame one by one. *)
LEMMA SucceedsKeeps ==
  ASSUME FrameInv, ResultInv, NEW detections \in Findings, InfSucceeds(detections),
         AlarmRests
  PROVE  ResultInv'
<1> DEFINE count == IF Len(detections) > DetectSlots THEN DetectSlots
                                                     ELSE Len(detections)
<1>1. /\ inf_pc = "infer" /\ inf_pc' = "detects" /\ k' = 1
      /\ found' = SubSeq(detections, 1, count)
      /\ shm' = [shm EXCEPT !.count = count]
      /\ infer_result' = [EmptyResult EXCEPT !.seq = frame.seq, !.count = count]
      /\ frame' = frame /\ shm_name' = shm_name /\ infer_queue' = infer_queue
      /\ inference_frame_count' = inference_frame_count
      /\ alm_pc' = alm_pc /\ detect_publish_count' = detect_publish_count
      /\ result' = result
  BY DEF InfSucceeds, AlarmRests
<1>2. detections \in Seq(BOOLEAN) /\ Len(detections) \in Nat
      /\ count \in 0 .. DetectSlots /\ count <= Len(detections)
  BY PipelineAssumption, InferenceAssumption
<1>3. found' \in Seq(BOOLEAN) /\ Len(found') = count
  <2>1. \A i \in 1 .. count : detections[i] \in BOOLEAN
    BY <1>2, ElementOfSeq
  <2>2. /\ SubSeq(detections, 1, count) \in Seq(BOOLEAN)
        /\ Len(SubSeq(detections, 1, count)) = IF 1 <= count THEN count - 1 + 1 ELSE 0
    <3> HIDE DEF count
    <3>1. 1 \in Int /\ count \in Int
      BY <1>2
    <3> QED
      BY <2>1, <3>1, SubSeqProperties
  <2> QED
    BY <1>1, <1>2, <2>2
<1> HIDE DEF count
<1>4. /\ shm' \in [seq : Nat, top : Nat, bottom : Nat, count : 0 .. DetectSlots,
                   detects : [Slots -> Nat]]
      /\ shm'.top = shm.top /\ shm'.bottom = shm.bottom
  BY <1>1, <1>2, ResultFacts DEF InferenceTypes
<1>5. /\ infer_result' \in Results /\ infer_result'.seq = frame.seq
      /\ \A s \in Slots : infer_result'.results[s] = 0
  BY <1>1, <1>2, FrameFacts DEF EmptyResult, Results
<1>6. InferenceTypes'
  <2>1. Len(found') <= DetectSlots /\ k' \in Nat \ {0}
    BY <1>1, <1>2, <1>3, InferenceAssumption
  <2>2. /\ inf_pc' = "detects" /\ shm_name' \in BOOLEAN /\ inference_frame_count' \in Nat
    BY <1>1, ResultFacts DEF InferenceTypes
  <2>3. Slots' = Slots /\ Results' = Results
    BY DEF Slots, Results
  <2> QED
    BY <1>3, <1>4, <1>5, <2>1, <2>2, <2>3 DEF InferenceTypes
<1>7. Copied'
  BY <1>1, <1>4, ResultFacts DEF Copied
<1>8. InTheMaking' /\ Accounted'
  BY <1>1, <1>5, ResultFacts DEF InTheMaking, Accounted, Slots
<1>9. Sent'
  BY <1>1, <1>4, SentStays, ResultFacts DEF InHand
<1>10. ResultTypes' /\ SnapshotTaken'
  BY <1>1, TypesStay
<1> QED
  BY <1>6, <1>7, <1>8, <1>9, <1>10 DEF ResultInv

LEMMA DetectKeeps ==
  ASSUME FrameInv, ResultInv, InfDetect, AlarmRests
  PROVE  ResultInv'
<1>1. /\ inf_pc = "detects" /\ inf_pc' = "detects" /\ k' = k + 1 /\ k <= Len(found)
      /\ found' = found
      /\ frame' = frame /\ shm_name' = shm_name /\ infer_queue' = infer_queue
      /\ inference_frame_count' = inference_frame_count
      /\ alm_pc' = alm_pc /\ detect_publish_count' = detect_publish_count
      /\ result' = result
  BY DEF InfDetect, AlarmRests
<1>2. \/ /\ shm' = [shm EXCEPT !.detects[k] = frame.picture]
         /\ infer_result' = [infer_result EXCEPT !.results[k] = frame.picture]
      \/ shm' = shm /\ infer_result' = infer_result
  BY DEF InfDetect
<1>3. k \in Slots /\ k \in Nat \ {0} /\ frame.picture \in Nat
  <2>1. k \in Nat \ {0} /\ k <= Len(found) /\ Len(found) <= DetectSlots
        /\ Len(found) \in Nat
    BY <1>1, ResultFacts DEF InferenceTypes
  <2> QED
    BY <2>1, FrameFacts, InferenceAssumption DEF Slots
<1>4. /\ shm' \in [seq : Nat, top : Nat, bottom : Nat, count : 0 .. DetectSlots,
                   detects : [Slots -> Nat]]
      /\ shm'.top = shm.top /\ shm'.bottom = shm.bottom
  <2>1. shm \in [seq : Nat, top : Nat, bottom : Nat, count : 0 .. DetectSlots,
                detects : [Slots -> Nat]]
    BY ResultFacts DEF InferenceTypes
  <2> QED
    BY <1>2, <1>3, <2>1
<1>5. /\ infer_result' \in Results /\ infer_result'.seq = frame.seq
      /\ \A s \in Slots : infer_result'.results[s] \in {0, frame.picture}
  <2>1. infer_result \in Results /\ infer_result.seq = frame.seq
        /\ \A s \in Slots : infer_result.results[s] \in {0, frame.picture}
    BY <1>1, ResultFacts DEF InferenceTypes, InTheMaking
  <2> QED
    BY <1>2, <1>3, <2>1 DEF Results
<1>6. InferenceTypes'
  <2>1. InferenceTypes /\ Results' = Results /\ Slots' = Slots
    BY ResultFacts DEF Results, Slots
  <2>2. k' \in Nat \ {0}
    BY <1>1, <1>3
  <2> QED
    BY <1>1, <1>4, <1>5, <2>1, <2>2 DEF InferenceTypes
<1>7. Copied'
  BY <1>1, <1>4, ResultFacts DEF Copied
<1>8. InTheMaking' /\ Accounted'
  BY <1>1, <1>5, ResultFacts DEF InTheMaking, Accounted, Slots
<1>9. Sent'
  BY <1>1, <1>4, SentStays, ResultFacts DEF InHand
<1>10. ResultTypes' /\ SnapshotTaken'
  BY <1>1, TypesStay
<1> QED
  BY <1>6, <1>7, <1>8, <1>9, <1>10 DEF ResultInv

LEMMA AnnounceKeeps ==
  ASSUME FrameInv, ResultInv, InfAnnounce, AlarmRests
  PROVE  ResultInv'
<1>1. /\ inf_pc = "detects" /\ inf_pc' = "push" /\ k' = k /\ found' = found
      /\ shm' = [shm EXCEPT !.seq = shm.seq + 1] /\ infer_result' = infer_result
      /\ frame' = frame /\ shm_name' = shm_name /\ infer_queue' = infer_queue
      /\ inference_frame_count' = inference_frame_count
      /\ alm_pc' = alm_pc /\ detect_publish_count' = detect_publish_count
      /\ result' = result
  BY DEF InfAnnounce, AlarmRests
<1>2. /\ shm' \in [seq : Nat, top : Nat, bottom : Nat, count : 0 .. DetectSlots,
                   detects : [Slots -> Nat]]
      /\ shm'.top = shm.top /\ shm'.bottom = shm.bottom
  <2>1. shm \in [seq : Nat, top : Nat, bottom : Nat, count : 0 .. DetectSlots,
                detects : [Slots -> Nat]]
    BY ResultFacts DEF InferenceTypes
  <2> QED
    BY <1>1, <2>1
<1>3. InferenceTypes'
  BY <1>1, <1>2, ResultFacts DEF InferenceTypes, Results, Slots
<1>4. Copied'
  BY <1>1, <1>2, ResultFacts DEF Copied
<1>5. InTheMaking' /\ Accounted'
  BY <1>1, ResultFacts DEF InTheMaking, Accounted, Slots
<1>6. Sent'
  BY <1>1, <1>2, SentStays, ResultFacts DEF InHand
<1>7. ResultTypes' /\ SnapshotTaken'
  BY <1>1, TypesStay
<1> QED
  BY <1>3, <1>4, <1>5, <1>6, <1>7 DEF ResultInv

(* The result pushed is of a later frame, and its boxes of a later picture, than
   all before it. *)
LEMMA PushKeeps ==
  ASSUME FrameInv, ResultInv, InfPush, AlarmRests
  PROVE  ResultInv'
<1> DEFINE q == Pushed(infer_queue, infer_result)
<1>1. /\ inf_pc = "push" /\ inf_pc' = "count" /\ infer_queue' = q
      /\ shm' = shm /\ shm_name' = shm_name /\ found' = found /\ k' = k
      /\ infer_result' = infer_result /\ frame' = frame
      /\ inference_frame_count' = inference_frame_count
  BY DEF InfPush
<1>2. /\ alm_pc' = alm_pc /\ detect_publish_count' = detect_publish_count
      /\ result' = result /\ alm_i' = alm_i /\ nv12' = nv12 /\ main_pc' = main_pc
  BY DEF AlarmRests
<1>3. infer_result \in Results
  BY ResultFacts DEF InferenceTypes
<1>4. /\ q \in Seq(Results) /\ Len(q) \in Nat /\ Len(q) <= QueueSlots
      /\ Len(q) <= Len(infer_queue) + 1
      /\ \A i \in 1 .. Len(q) :
           \/ i \in 1 .. Len(infer_queue) /\ q[i] = infer_queue[i]
           \/ i = Len(infer_queue) + 1 /\ q[i] = infer_result
  <2>1. infer_queue \in Seq(Results) /\ Len(infer_queue) <= QueueSlots
        /\ Len(infer_queue) \in Nat
    BY ResultFacts
  <2>2. /\ q \in Seq(Results) /\ Len(q) \in Nat /\ Len(q) <= QueueSlots
        /\ Len(q) <= Len(infer_queue) + 1
        /\ \A i \in 1 .. Len(q) :
             \/ i <= Len(infer_queue) /\ q[i] = infer_queue[i]
             \/ i = Len(infer_queue) + 1 /\ q[i] = infer_result
    BY <1>3, <2>1, PushedProperties
  <2> HIDE DEF q
  <2> QED
    BY <2>1, <2>2
<1> HIDE DEF q
<1>5. InferenceTypes'
  BY <1>1, ResultFacts DEF InferenceTypes, Results, Slots
<1>6. Copied' /\ InTheMaking' /\ SnapshotTaken'
  BY <1>1, <1>2, ResultFacts DEF Copied, InTheMaking, SnapshotTaken
<1>7. ResultTypes'
  <2>1. Results' = Results
    BY DEF Results, Slots
  <2>2. infer_queue' \in Seq(Results) /\ Len(infer_queue') <= QueueSlots
    BY <1>1, <1>4
  <2> QED
    BY <1>2, <2>1, <2>2, ResultFacts DEF ResultTypes
<1>8. Accounted'
  <2> DEFINE d == IF alm_pc \in {"rules", "open", "top", "bottom", "save"} THEN 1 ELSE 0
  <2>1. /\ detect_publish_count \in Nat /\ inference_frame_count \in Nat
        /\ Len(infer_queue) \in Nat /\ d \in Nat
    BY ResultFacts DEF ResultTypes, InferenceTypes
  <2>2. detect_publish_count + Len(infer_queue) + d <= inference_frame_count
    BY <1>1, <2>1, ResultFacts DEF Accounted
  <2>3. Accounted' <=> detect_publish_count + Len(q) + d <= inference_frame_count + 1
    BY <1>1, <1>2 DEF Accounted
  <2> HIDE DEF d
  <2> QED
    BY <1>4, <2>1, <2>2, <2>3
<1>9. /\ infer_result.seq = frame.seq
      /\ \A s \in Slots : infer_result.results[s] \in {0, frame.picture}
      /\ shm.top = frame.picture /\ shm.bottom = frame.picture
      /\ frame.seq \in Int /\ frame.picture \in Nat
  BY <1>1, ResultFacts, FrameFacts DEF InTheMaking, Copied
<1>10. UpTo(infer_result, frame) /\ InShm(infer_result)
  BY <1>9 DEF UpTo, InShm
<1>11. /\ Precedes(result, frame)
       /\ \A i \in 1 .. Len(infer_queue) : Precedes(infer_queue[i], frame)
  BY <1>1, ResultFacts DEF Sent, InHand
<1>12. ASSUME NEW r, Precedes(r, frame)
       PROVE  Before(r, infer_result)
  BY <1>9, <1>12 DEF Precedes, Before
<1>13. \A i \in 1 .. Len(q) :
         Before(result, q[i]) /\ UpTo(q[i], frame) /\ InShm(q[i])
  BY <1>4, <1>10, <1>11, <1>12, ResultFacts DEF Sent
<1>14. \A i, j \in 1 .. Len(q) : i < j => Before(q[i], q[j])
  <2> SUFFICES ASSUME NEW i \in 1 .. Len(q), NEW j \in 1 .. Len(q), i < j
               PROVE  Before(q[i], q[j])
    OBVIOUS
  <2>1. i \in 1 .. Len(infer_queue) /\ q[i] = infer_queue[i]
    BY <1>4, ResultFacts
  <2>2. Before(infer_queue[i], infer_result)
    BY <1>11, <1>12, <2>1
  <2>3. \A l \in 1 .. Len(infer_queue) : i < l => Before(infer_queue[i], infer_queue[l])
    BY <2>1, ResultFacts DEF Sent
  <2> QED
    BY <1>4, <2>1, <2>2, <2>3
<1>15. Sent'
  <2>1. ~InHand'
    BY <1>1 DEF InHand
  <2>2. UpTo(result, frame)' /\ InShm(result)'
    BY <1>1, <1>2, ResultFacts DEF Sent, UpTo, InShm
  <2>3. \A i \in 1 .. Len(infer_queue') :
          (Before(result, infer_queue[i]) /\ UpTo(infer_queue[i], frame)
           /\ InShm(infer_queue[i]))'
    BY <1>1, <1>2, <1>13 DEF Before, UpTo, InShm
  <2>4. \A i, j \in 1 .. Len(infer_queue') :
          i < j => Before(infer_queue[i], infer_queue[j])'
    BY <1>1, <1>14 DEF Before
  <2> QED
    BY <2>1, <2>2, <2>3, <2>4 DEF Sent
<1> QED
  BY <1>5, <1>6, <1>7, <1>8, <1>15 DEF ResultInv

(* inference_thread as a whole. *)
LEMMA InferenceKeepsResults ==
  ASSUME FrameInv, ResultInv, NEW detections \in Findings, Inference(detections),
         UNCHANGED <<cap_pc, cap_frame>>, AlarmRests
  PROVE  ResultInv'
<1>1. CASE InfPop
  <2>1. FrameInv' /\ Earlier(frame, frame')
    BY <1>1, PopKeepsFrames
  <2>2. frame' \in Frames
    BY <2>1 DEF FrameInv, FrameTypes, Frames
  <2> QED
    BY <1>1, <2>1, <2>2, PopKeepsResults
<1>2. CASE BetweenFrames
  BY <1>2, BetweenFramesKeeps
<1>3. CASE InfCopyTop \/ InfCopyBottom
  BY <1>3, CopyKeepsResults
<1>4. CASE InfSucceeds(detections)
  BY <1>4, SucceedsKeeps
<1>5. CASE InfDetect \/ InfAnnounce \/ InfPush
  BY <1>5, DetectKeeps, AnnounceKeeps, PushKeeps
<1> QED
  BY <1>1, <1>2, <1>3, <1>4, <1>5 DEF Inference, BetweenFrames

LEMMA InferenceKeepsFrames ==
  ASSUME FrameInv, NEW detections \in Findings, Inference(detections),
         UNCHANGED <<cap_pc, cap_frame>>
  PROVE  FrameInv'
<1>1. CASE InfPop
  BY <1>1, PopKeepsFrames
<1>2. CASE UNCHANGED <<frame, capture_queue, running>>
  BY <1>2 DEF FrameInv, FrameTypes, FramesInOrder, Earlier, NotLater, Frames
<1> QED
  BY <1>1, <1>2
     DEF Inference, InfUnlink, InfCreate, InfSetup, InfLoop, InfStop, InfNothing,
         InfCopyTop, InfCopyBottom, InfFails, InfSkip, InfSucceeds, InfDetect,
         InfAnnounce, InfPush, InfCount

InferenceRests ==
  UNCHANGED <<inf_pc, shm_name, shm, frame, found, k, infer_result,
              inference_frame_count, main_pc>>

(* alarm_thread takes the oldest result, which is later than the one before. *)
LEMMA AlmPopKeeps ==
  ASSUME ResultInv, AlmPop, InferenceRests
  PROVE  ResultInv' /\ Before(result, result')
<1>1. /\ alm_pc = "pop" /\ alm_pc' = "rules" /\ infer_queue # <<>>
      /\ result' = Head(infer_queue) /\ infer_queue' = Tail(infer_queue)
      /\ alm_i' = 1 /\ nv12' = nv12 /\ detect_publish_count' = detect_publish_count
  BY DEF AlmPop
<1>2. /\ inf_pc' = inf_pc /\ shm_name' = shm_name /\ shm' = shm /\ frame' = frame
      /\ found' = found /\ k' = k /\ infer_result' = infer_result
      /\ inference_frame_count' = inference_frame_count /\ main_pc' = main_pc
  BY DEF InferenceRests
<1>3. /\ Len(infer_queue) \in Nat \ {0} /\ result' = infer_queue[1]
      /\ infer_queue' \in Seq(Results) /\ Len(infer_queue') = Len(infer_queue) - 1
      /\ \A i \in 1 .. Len(infer_queue') : infer_queue'[i] = infer_queue[i + 1]
      /\ result' \in Results
  <2>1. infer_queue \in Seq(Results)
    BY ResultFacts
  <2>2. Head(infer_queue) = infer_queue[1]
    BY <2>1
  <2> QED
    BY <1>1, <2>1, <2>2, HeadTailProperties, EmptySeq
<1>4. 1 \in 1 .. Len(infer_queue)
  BY <1>3
<1>5. Before(result, infer_queue[1])
  BY <1>4, ResultFacts DEF Sent
<1>6. Before(result, result')
  BY <1>3, <1>5 DEF Before
<1>7. InferenceTypes' /\ Copied' /\ InTheMaking'
  BY <1>2, ResultFacts DEF InferenceTypes, Copied, InTheMaking, Results, Slots
<1>8. ResultTypes'
  <2>1. Results' = Results
    BY DEF Results, Slots
  <2>2. Len(infer_queue') <= QueueSlots /\ 1 \in 1 .. DetectSlots + 1
    BY <1>3, ResultFacts, ThreadsAssumption, InferenceAssumption
  <2> QED
    BY <1>1, <1>2, <1>3, <2>1, <2>2, ResultFacts DEF ResultTypes
<1>9. SnapshotTaken' /\ Accounted'
  <2>1. detect_publish_count \in Nat /\ inference_frame_count \in Nat
    BY ResultFacts DEF ResultTypes, InferenceTypes
  <2> QED
    BY <1>1, <1>2, <1>3, <2>1, ResultFacts DEF SnapshotTaken, Accounted
<1>10. Sent'
  <2>1. /\ UpTo(infer_queue[1], frame) /\ InShm(infer_queue[1])
        /\ InHand => Precedes(infer_queue[1], frame)
    BY <1>4, ResultFacts DEF Sent
  <2>2. (UpTo(result, frame) /\ InShm(result) /\ (InHand => Precedes(result, frame)))'
    BY <1>2, <1>3, <2>1 DEF UpTo, InShm, Precedes, InHand
  <2>3. \A i \in 1 .. Len(infer_queue') :
          /\ i + 1 \in 1 .. Len(infer_queue) /\ 1 < i + 1
    BY <1>3
  <2>4. \A i \in 2 .. Len(infer_queue) :
          /\ Before(infer_queue[1], infer_queue[i])
          /\ UpTo(infer_queue[i], frame) /\ InShm(infer_queue[i])
          /\ InHand => Precedes(infer_queue[i], frame)
    BY <1>4, ResultFacts DEF Sent
  <2>5. \A i \in 1 .. Len(infer_queue') :
          (/\ Before(result, infer_queue[i])
           /\ UpTo(infer_queue[i], frame) /\ InShm(infer_queue[i])
           /\ InHand => Precedes(infer_queue[i], frame))'
    <3> SUFFICES ASSUME NEW i \in 1 .. Len(infer_queue')
                 PROVE  (/\ Before(result, infer_queue[i])
                         /\ UpTo(infer_queue[i], frame) /\ InShm(infer_queue[i])
                         /\ InHand => Precedes(infer_queue[i], frame))'
      OBVIOUS
    <3>1. i + 1 \in 2 .. Len(infer_queue) /\ infer_queue'[i] = infer_queue[i + 1]
      BY <1>3, <2>3
    <3> QED
      BY <1>2, <1>3, <2>4, <3>1 DEF Before, UpTo, InShm, Precedes, InHand
  <2>6. \A i, j \in 1 .. Len(infer_queue') :
          i < j => Before(infer_queue'[i], infer_queue'[j])
    <3> SUFFICES ASSUME NEW i \in 1 .. Len(infer_queue'), NEW j \in 1 .. Len(infer_queue'),
                        i < j
                 PROVE  Before(infer_queue'[i], infer_queue'[j])
      OBVIOUS
    <3>1. /\ i + 1 \in 1 .. Len(infer_queue) /\ j + 1 \in 1 .. Len(infer_queue)
          /\ i + 1 < j + 1
      BY <1>3, <2>3
    <3>2. Before(infer_queue[i + 1], infer_queue[j + 1])
      BY <3>1, ResultFacts DEF Sent
    <3> QED
      BY <1>3, <3>2 DEF Before
  <2> QED
    BY <2>2, <2>5, <2>6 DEF Sent, Before
<1> QED
  BY <1>6, <1>7, <1>8, <1>9, <1>10 DEF ResultInv

(* It works on the result in hand. *)
LEMMA AlarmKeepsResults ==
  ASSUME ResultInv, AlarmLoop, InferenceRests
  PROVE  ResultInv'
<1>1. CASE AlmPop
  BY <1>1, AlmPopKeeps
<1>2. /\ result.count \in 0 .. DetectSlots /\ result \in Results
      /\ detect_publish_count \in Nat /\ inference_frame_count \in Nat
      /\ alm_i \in Nat \ {0} /\ alm_i <= DetectSlots + 1 /\ nv12 \in [top : Nat, bottom : Nat]
      /\ alm_pc \in {"open", "top", "bottom", "save"} => alm_i <= result.count
      /\ DetectSlots \in Nat
  <2>1. ResultTypes /\ InferenceTypes /\ DetectSlots \in Nat
    BY ResultFacts, InferenceAssumption
  <2>2. result \in Results /\ alm_i \in 1 .. DetectSlots + 1
    BY <2>1 DEF ResultTypes
  <2>3. alm_i \in Nat \ {0} /\ alm_i <= DetectSlots + 1
    BY <2>1, <2>2
  <2> QED
    BY <2>1, <2>2, <2>3 DEF ResultTypes, InferenceTypes, Results
<1>3. ASSUME ~AlmPop
      PROVE  ResultInv'
  <2> USE DEF AlarmLoop, AlmConnect, AlmLoop, AlmNothing, AlmNoAlarm, AlmAlarm, AlmOpen,
              AlmCopyTop, AlmCopyBottom, AlmSave, AlmPublishRaw, sharedVars
  <2>1. /\ inf_pc' = inf_pc /\ shm_name' = shm_name /\ shm' = shm /\ frame' = frame
        /\ found' = found /\ k' = k /\ infer_result' = infer_result
        /\ inference_frame_count' = inference_frame_count /\ main_pc' = main_pc
    BY DEF InferenceRests
  <2>2. result' = result /\ infer_queue' = infer_queue
    BY <1>3
  <2>3. InferenceTypes' /\ Copied' /\ InTheMaking'
    BY <2>1, ResultFacts DEF InferenceTypes, Copied, InTheMaking, Results, Slots
  <2>4. Sent'
    <3>1. InHand' => InHand
      BY <2>1 DEF InHand
    <3>2. /\ shm'.top \in Nat /\ shm'.bottom \in Nat
          /\ shm.top <= shm'.top /\ shm.bottom <= shm'.bottom
      BY <2>1, ResultFacts
    <3> QED
      BY <2>1, <2>2, <3>1, <3>2, SentStays
  <2>5. ResultTypes'
    <3>1. alm_pc' \in {"start", "loop", "pop", "rules", "open", "top", "bottom", "save",
                       "exited"}
      BY <1>3
    <3>2. /\ alm_i' \in Nat \ {0} /\ alm_i' <= DetectSlots + 1
          /\ alm_pc' \in {"open", "top", "bottom", "save"} => alm_i' <= result.count
      BY <1>3, <1>2
    <3>3. alm_i' \in 1 .. DetectSlots + 1
      BY <1>2, <3>2
    <3>4. nv12' \in [top : Nat, bottom : Nat]
      BY <1>3, <2>1, <1>2, ResultFacts
    <3>5. detect_publish_count' \in Nat
      BY <1>3, <1>2
    <3>6. Results' = Results
      BY DEF Results, Slots
    <3> QED
      BY <2>1, <2>2, <3>1, <3>2, <3>3, <3>4, <3>5, <3>6, ResultFacts DEF ResultTypes
  <2>6. SnapshotTaken'
    <3>1. ASSUME AlmCopyTop \/ AlmCopyBottom
          PROVE  alm_i \in Slots /\ result.results[alm_i] <= shm.top
                 /\ result.results[alm_i] <= shm.bottom
      <4>1. alm_i \in Slots
        BY <1>2, <3>1 DEF Slots
      <4> QED
        BY <4>1, ResultFacts DEF Sent, InShm
    <3>2. CASE AlmCopyTop
      BY <2>2, <1>2, <3>1, <3>2, ResultFacts DEF SnapshotTaken, Slots
    <3>3. CASE AlmCopyBottom
      BY <2>2, <1>2, <3>1, <3>3, ResultFacts DEF SnapshotTaken, Slots
    <3>4. CASE ~(AlmCopyTop \/ AlmCopyBottom)
      <4>1. alm_pc' \notin {"bottom", "save"}
        BY <1>3, <3>4
      <4> QED
        BY <4>1 DEF SnapshotTaken
    <3> QED
      BY <3>2, <3>3, <3>4
  <2>7. Accounted'
    <3>1. Accounted /\ Len(infer_queue) \in Nat
      BY ResultFacts
    <3>2. \/ /\ detect_publish_count' = detect_publish_count
             /\ alm_pc' \in {"rules", "open", "top", "bottom", "save"} =>
                  alm_pc \in {"rules", "open", "top", "bottom", "save"}
          \/ /\ detect_publish_count' = detect_publish_count + 1
             /\ alm_pc \in {"rules", "open", "top", "bottom", "save"}
             /\ alm_pc' \notin {"rules", "open", "top", "bottom", "save"}
      BY <1>3
    <3> HIDE DEF AlarmLoop
    <3> QED
      BY <2>1, <2>2, <1>2, <3>1, <3>2 DEF Accounted
  <2> QED
    BY <2>3, <2>4, <2>5, <2>6, <2>7 DEF ResultInv
<1> QED
  BY <1>1, <1>3
--------------------------------------------------------------------------------
(* The process *)

(* The invariant holds at first and is kept by every step of every thread, of the
   camera and of the signal handler. *)
LEMMA Initially ==
  ASSUME Init
  PROVE  Inv
BY CaptureInitially, FrameInitially, ResultInitially DEF Inv

LEMMA Inductive ==
  ASSUME Inv, [Next]_vars
  PROVE  Inv'
<1> USE DEF Inv
<1>1. ASSUME UNCHANGED captureVars
      PROVE  CaptureInv'
  BY <1>1 DEF captureVars, setupVars, driverVars, CaptureInv, CaptureTypes, CaptureTypeOK,
     PicturesCounted, OneOwner, Owned, AllOwned, InLoop, FilledInOrder, Buffers, NoBuffer,
     NoFrame
<1>2. ASSUME UNCHANGED <<cap_pc, cap_frame, frame, capture_queue>>, running' \in BOOLEAN
      PROVE  FrameInv'
  BY <1>2 DEF FrameInv, FrameTypes, FramesInOrder, Earlier, NotLater, Frames
<1>3. ASSUME UNCHANGED <<inferenceVars, alarmVars, infer_queue>>,
             main_pc' \in {"poll", "join_cap", "join_inf", "join_alm", "exited"}
      PROVE  ResultInv'
  <2>1. UNCHANGED <<inf_pc, shm_name, shm, frame, found, k, infer_result,
                    inference_frame_count>>
    BY <1>3 DEF inferenceVars
  <2>2. UNCHANGED <<alm_pc, result, alm_i, nv12, detect_publish_count, infer_queue>>
    BY <1>3 DEF alarmVars
  <2>3. InferenceTypes' /\ Copied' /\ InTheMaking'
    BY <2>1, ResultFacts DEF InferenceTypes, Copied, InTheMaking, Results, Slots
  <2>4. ResultTypes' /\ SnapshotTaken'
    BY <1>3, <2>2, ResultFacts DEF ResultTypes, SnapshotTaken, Results, Slots
  <2>5. Sent'
    <3>1. /\ shm'.top \in Nat /\ shm'.bottom \in Nat
          /\ shm.top <= shm'.top /\ shm.bottom <= shm'.bottom
      BY <2>1, ResultFacts
    <3>2. InHand' => InHand
      BY <2>1 DEF InHand
    <3> QED
      BY <2>1, <2>2, <3>1, <3>2, SentStays
  <2>6. Accounted'
    BY <2>1, <2>2, ResultFacts DEF Accounted
  <2> QED
    BY <2>3, <2>4, <2>5, <2>6 DEF ResultInv
<1>4. running \in BOOLEAN
      /\ main_pc \in {"poll", "join_cap", "join_inf", "join_alm", "exited"}
  BY DEF FrameInv, FrameTypes, ResultInv, ResultTypes
<1>5. CASE CaptureStep
  <2>1. Capture /\ UNCHANGED <<inferenceVars, alarmVars, main_pc>>
    BY <1>5 DEF CaptureStep
  <2>2. infer_queue' = infer_queue
    BY <2>1 DEF Capture, CapOpen, CapSetupFails, CapMapBuffer, CapStreamOn, CapLoop,
       CapNothing, CapDequeue, CapCopy, CapPush, CapRequeue, CapClose
  <2>3. frame' = frame
    BY <2>1 DEF inferenceVars
  <2> QED
    BY <1>3, <1>4, <2>1, <2>2, <2>3, CaptureKeeps, CaptureKeepsFrames
<1>6. CASE InferenceStep
  <2>1. PICK detections \in Findings : Inference(detections)
    BY <1>6 DEF InferenceStep
  <2>2. UNCHANGED captureVars /\ UNCHANGED alarmVars /\ main_pc' = main_pc
    BY <1>6 DEF InferenceStep
  <2>3. AlarmRests /\ UNCHANGED <<cap_pc, cap_frame>>
    BY <2>2 DEF AlarmRests, alarmVars, captureVars
  <2> QED
    BY <1>1, <2>1, <2>2, <2>3, InferenceKeepsFrames, InferenceKeepsResults
<1>7. CASE AlarmStep
  <2>1. AlarmLoop /\ UNCHANGED captureVars /\ UNCHANGED inferenceVars /\ main_pc' = main_pc
    BY <1>7 DEF AlarmStep
  <2>2. running' = running /\ capture_queue' = capture_queue
    BY <2>1 DEF AlarmLoop, AlmConnect, AlmLoop, AlmNothing, AlmPop, AlmNoAlarm, AlmAlarm,
       AlmOpen, AlmCopyTop, AlmCopyBottom, AlmSave, AlmPublishRaw, sharedVars
  <2>3. InferenceRests
    BY <2>1 DEF InferenceRests, inferenceVars
  <2>4. UNCHANGED <<cap_pc, cap_frame, frame, capture_queue>>
    BY <2>1, <2>2 DEF captureVars, inferenceVars
  <2> QED
    BY <1>1, <1>2, <1>4, <2>1, <2>2, <2>3, <2>4, AlarmKeepsResults
<1>8. CASE MainStep
  <2>1. /\ UNCHANGED captureVars /\ UNCHANGED <<inferenceVars, alarmVars, infer_queue>>
        /\ running' = running /\ capture_queue' = capture_queue
    BY <1>8 DEF MainStep, sharedVars
  <2>2. main_pc' \in {"poll", "join_cap", "join_inf", "join_alm", "exited"}
    BY <1>8 DEF MainStep, Main, MainPoll, MainJoinCapture, MainJoinInference, MainJoinAlarm
  <2>3. UNCHANGED <<cap_pc, cap_frame, frame, capture_queue>>
    BY <2>1 DEF captureVars, inferenceVars
  <2> QED
    BY <1>1, <1>2, <1>3, <1>4, <2>1, <2>2, <2>3
<1>9. CASE Camera
  <2>1. /\ TakePicture /\ UNCHANGED <<inferenceVars, alarmVars, infer_queue>>
        /\ main_pc' = main_pc
    BY <1>9 DEF Camera, TakePicture
  <2>2. UNCHANGED <<cap_pc, cap_frame, frame, capture_queue, running>>
    BY <2>1 DEF TakePicture, inferenceVars
  <2> QED
    BY <1>2, <1>3, <1>4, <2>1, <2>2, CameraKeeps
<1>10. CASE SignalArrives
  <2>1. /\ UNCHANGED captureVars /\ UNCHANGED <<inferenceVars, alarmVars, infer_queue>>
        /\ main_pc' = main_pc /\ running' = FALSE /\ capture_queue' = capture_queue
    BY <1>10 DEF SignalArrives, Signal
  <2>2. UNCHANGED <<cap_pc, cap_frame, frame, capture_queue>>
    BY <2>1 DEF captureVars, inferenceVars
  <2> QED
    BY <1>1, <1>2, <1>3, <1>4, <2>1, <2>2
<1>11. CASE UNCHANGED vars
  <2>1. /\ UNCHANGED captureVars /\ UNCHANGED <<inferenceVars, alarmVars, infer_queue>>
        /\ main_pc' = main_pc /\ running' = running /\ capture_queue' = capture_queue
    BY <1>11 DEF vars, sharedVars
  <2>2. UNCHANGED <<cap_pc, cap_frame, frame, capture_queue>>
    BY <2>1 DEF captureVars, inferenceVars
  <2> QED
    BY <1>1, <1>2, <1>3, <1>4, <2>1, <2>2
<1> QED
  BY <1>5, <1>6, <1>7, <1>8, <1>9, <1>10, <1>11 DEF Next

(* The inductive invariant holds in every reachable state: main's three threads,
   the camera and the signal handler all keep it. *)
THEOREM PipelineInvariant == Spec => []Inv
<1>1. Init => Inv
  BY Initially
<1>2. Inv /\ [Next]_vars => Inv'
  BY Inductive
<1> QED
  BY <1>1, <1>2, PTL DEF Spec
--------------------------------------------------------------------------------
(* The properties of the runs *)

(* The variables have their types: the queues never hold more than their slots,
   and alarm_thread never looks beyond the slots of a result. *)
THEOREM TypeCorrect == Spec => []TypeOK
<1>1. Inv => TypeOK
  BY DEF Inv, CaptureInv, CaptureTypes, FrameInv, FrameTypes, ResultInv, ResultTypes, TypeOK
<1> QED
  BY <1>1, PipelineInvariant, PTL

(* Whatever fails in the loop of capture_thread, no buffer is lost to the camera. *)
THEOREM BuffersNeverLost == Spec => []NoBufferLost
<1>1. ASSUME Inv
      PROVE  NoBufferLost
  <2> SUFFICES ASSUME cap_pc \in {"loop", "wait"}
               PROVE  /\ held = NoBuffer
                      /\ queued \cup ToSet(filled) = Buffers
                      /\ Cardinality(queued) + Len(filled) = NBUF
    BY DEF NoBufferLost
  <2>1. CaptureInv /\ NoBuffer \notin Buffers
    BY <1>1, CaptureAssumption DEF Inv, Buffers, NoBuffer
  <2>2. held = NoBuffer
    BY <2>1, CaptureFacts DEF Owned
  <2>3. /\ \A b \in Buffers : \/ b \in queued
                              \/ \E i \in 1 .. Len(filled) : filled[i] = b
        /\ Cardinality(queued) + Len(filled) + 0 = NBUF
    BY <2>1, <2>2, CaptureFacts DEF AllOwned, InLoop
  <2>4. Cardinality(queued) + Len(filled) = NBUF
    BY <2>1, <2>3, CaptureFacts, QueuedFinite
  <2>5. ToSet(filled) = {filled[i] : i \in 1 .. Len(filled)}
    BY <2>1, CaptureFacts, LenProperties DEF ToSet
  <2>6. queued \cup ToSet(filled) = Buffers
    BY <2>1, <2>3, <2>5, CaptureFacts
  <2> QED
    BY <2>2, <2>4, <2>6
<1> QED
  BY <1>1, PipelineInvariant, PTL

(* save_alarm_snapshot never takes a part of a picture that is older than the one
   the alarm was raised on. *)
THEOREM SnapshotsNeverOlder == Spec => []SnapshotNotOlder
<1>1. Inv => SnapshotNotOlder
  BY DEF Inv, ResultInv, SnapshotTaken, SnapshotNotOlder
<1> QED
  BY <1>1, PipelineInvariant, PTL

(* The metrics of inference_thread and alarm_thread agree up to one result. *)
THEOREM CountersAlwaysAgree == Spec => []CountersAgree
<1>1. ASSUME Inv
      PROVE  CountersAgree
  <2>1. ResultInv
    BY <1>1 DEF Inv
  <2>2. detect_publish_count \in Nat /\ inference_frame_count \in Nat
        /\ Len(infer_queue) \in Nat /\ Accounted
    BY <2>1, ResultFacts DEF ResultTypes, InferenceTypes
  <2> QED
    BY <2>2 DEF Accounted, CountersAgree
<1> QED
  BY <1>1, PipelineInvariant, PTL

(* From the driver's buffers to alarm_thread, the results come in the order of
   their frames and the boxes in that of their pictures, none twice: an action
   property of the whole process. *)
THEOREM ResultsAlwaysInOrder == Spec => ResultsInOrder
<1> DEFINE Ordered ==
      /\ result'.seq > result.seq
      /\ \A s, t \in Slots : result'.results[s] # 0 =>
           result'.results[s] > result.results[t]
<1>1. ASSUME Inv, [Next]_vars
      PROVE  [Ordered]_result
  <2>1. CASE AlarmStep /\ AlmPop
    <3>1. ResultInv /\ InferenceRests /\ AlmPop
      BY <1>1, <2>1 DEF Inv, AlarmStep, InferenceRests, inferenceVars
    <3>2. ResultInv' /\ Before(result, result')
      BY <3>1, AlmPopKeeps
    <3>3. result.seq \in Int
      BY <3>1, ResultFacts
    <3>4. result'.seq \in Int
      BY <3>2 DEF ResultInv, ResultTypes, Results
    <3>5. result'.seq > result.seq
      BY <3>2, <3>3, <3>4 DEF Before
    <3> QED
      BY <3>2, <3>5 DEF Before
  <2>2. CASE AlarmStep /\ ~AlmPop
    <3>1. result' = result
      BY <2>2 DEF AlarmStep, AlarmLoop, AlmConnect, AlmLoop, AlmNothing, AlmNoAlarm, AlmAlarm,
         AlmOpen, AlmCopyTop, AlmCopyBottom, AlmSave, AlmPublishRaw
    <3> QED
      BY <3>1
  <2>3. CASE ~AlarmStep
    <3>1. result' = result
      BY <1>1, <2>3 DEF Next, vars, CaptureStep, InferenceStep, MainStep, Camera, SignalArrives,
         alarmVars
    <3> QED
      BY <3>1
  <2> QED
    BY <2>1, <2>2, <2>3
<1> QED
  BY <1>1, PipelineInvariant, PTL DEF Spec, ResultsInOrder
--------------------------------------------------------------------------------
(* The queues.  What a queue carries, and how much of it, follows from Inv. *)

CaptureQueue == INSTANCE BoundedFifo WITH
  Item <- Frames, Capacity <- QueueSlots, NoItem <- NoFrame,
  queue <- capture_queue, taken <- frame

InferQueue == INSTANCE BoundedFifo WITH
  Item <- Results, Capacity <- QueueSlots, NoItem <- [EmptyResult EXCEPT !.seq = -1],
  queue <- infer_queue, taken <- result

(* capture_queue is used as the bounded FIFO that RingQueue implements: one thread
   pushes and one pops, a push that finds it full drops its own frame only, and each
   frame inference_thread works on is the oldest one not yet taken. *)
THEOREM CaptureQueueIsFifo == Spec => CaptureQueue!Spec
<1>1. Init => CaptureQueue!Init
  BY DEF Init, ThreadsInit, InferenceInit, NoFrame, CaptureQueue!Init
<1>2. ASSUME Inv, [Next]_vars
      PROVE  [CaptureQueue!Next]_(CaptureQueue!fifoVars)
  <2>1. CASE CaptureStep /\ CapPush
    <3>1. capture_queue' = Pushed(capture_queue, cap_frame) /\ frame' = frame
      BY <2>1 DEF CaptureStep, CapPush, inferenceVars
    <3>2. cap_frame \in Frames
      BY <1>2, FrameFacts DEF Inv
    <3>3. CASE Len(capture_queue) < QueueSlots
      BY <3>1, <3>2, <3>3 DEF Pushed, CaptureQueue!Push, CaptureQueue!Next
    <3>4. CASE ~(Len(capture_queue) < QueueSlots)
      BY <3>1, <3>4 DEF Pushed, CaptureQueue!fifoVars
    <3> QED
      BY <3>3, <3>4
  <2>2. CASE InferenceStep /\ InfPop
    BY <2>2 DEF InfPop, CaptureQueue!Pop, CaptureQueue!Next
  <2>3. CASE CaptureStep /\ ~CapPush
    <3>1. capture_queue' = capture_queue /\ frame' = frame
      BY <2>3 DEF CaptureStep, inferenceVars, Capture, CapOpen, CapSetupFails, CapMapBuffer,
         CapStreamOn, CapLoop, CapNothing, CapDequeue, CapCopy, CapRequeue, CapClose
    <3> QED
      BY <3>1 DEF CaptureQueue!fifoVars
  <2>4. CASE InferenceStep /\ ~InfPop
    <3>1. PICK detections \in Findings : Inference(detections)
      BY <2>4 DEF InferenceStep
    <3>2. capture_queue' = capture_queue /\ frame' = frame
      BY <2>4, <3>1 DEF Inference, InfUnlink, InfCreate, InfSetup, InfLoop, InfStop,
         InfNothing, InfCopyTop, InfCopyBottom, InfFails, InfSkip, InfSucceeds, InfDetect,
         InfAnnounce, InfPush, InfCount
    <3> QED
      BY <3>2 DEF CaptureQueue!fifoVars
  <2>5. CASE ~CaptureStep /\ ~InferenceStep
    <3>1. capture_queue' = capture_queue /\ frame' = frame
      BY <1>2, <2>5 DEF Next, vars, sharedVars, inferenceVars, AlarmStep, AlarmLoop,
         AlmConnect, AlmLoop, AlmNothing, AlmPop, AlmNoAlarm, AlmAlarm, AlmOpen, AlmCopyTop,
         AlmCopyBottom, AlmSave, AlmPublishRaw, MainStep, Camera, TakePicture,
         SignalArrives, Signal
    <3> QED
      BY <3>1 DEF CaptureQueue!fifoVars
  <2> QED
    BY <2>1, <2>2, <2>3, <2>4, <2>5
<1> QED
  BY <1>1, <1>2, PipelineInvariant, PTL DEF Spec, CaptureQueue!Spec

(* So is infer_queue, between inference_thread and alarm_thread. *)
THEOREM InferQueueIsFifo == Spec => InferQueue!Spec
<1>1. Init => InferQueue!Init
  BY DEF Init, ThreadsInit, InferQueue!Init
<1>2. ASSUME Inv, [Next]_vars
      PROVE  [InferQueue!Next]_(InferQueue!fifoVars)
  <2>1. CASE InferenceStep /\ InfPush
    <3>1. infer_queue' = Pushed(infer_queue, infer_result) /\ result' = result
      BY <2>1 DEF InferenceStep, InfPush, alarmVars
    <3>2. infer_result \in Results
      BY <1>2 DEF Inv, ResultInv, InferenceTypes
    <3>3. CASE Len(infer_queue) < QueueSlots
      BY <3>1, <3>2, <3>3 DEF Pushed, InferQueue!Push, InferQueue!Next
    <3>4. CASE ~(Len(infer_queue) < QueueSlots)
      BY <3>1, <3>4 DEF Pushed, InferQueue!fifoVars
    <3> QED
      BY <3>3, <3>4
  <2>2. CASE AlarmStep /\ AlmPop
    BY <2>2 DEF AlmPop, InferQueue!Pop, InferQueue!Next
  <2>3. CASE InferenceStep /\ ~InfPush
    <3>1. PICK detections \in Findings : Inference(detections)
      BY <2>3 DEF InferenceStep
    <3>2. infer_queue' = infer_queue /\ result' = result
      BY <2>3, <3>1 DEF InferenceStep, alarmVars, Inference, InfUnlink, InfCreate, InfSetup,
         InfLoop, InfStop, InfNothing, InfPop, InfCopyTop, InfCopyBottom, InfFails, InfSkip,
         InfSucceeds, InfDetect, InfAnnounce, InfCount
    <3> QED
      BY <3>2 DEF InferQueue!fifoVars
  <2>4. CASE AlarmStep /\ ~AlmPop
    <3>1. infer_queue' = infer_queue /\ result' = result
      BY <2>4 DEF AlarmStep, AlarmLoop, sharedVars, AlmConnect, AlmLoop, AlmNothing,
         AlmNoAlarm, AlmAlarm, AlmOpen, AlmCopyTop, AlmCopyBottom, AlmSave, AlmPublishRaw
    <3> QED
      BY <3>1 DEF InferQueue!fifoVars
  <2>5. CASE ~InferenceStep /\ ~AlarmStep
    <3>1. infer_queue' = infer_queue /\ result' = result
      BY <1>2, <2>5 DEF Next, vars, sharedVars, alarmVars, CaptureStep, Capture, CapOpen,
         CapSetupFails, CapMapBuffer, CapStreamOn, CapLoop, CapNothing, CapDequeue, CapCopy,
         CapPush, CapRequeue, CapClose, MainStep, Camera, TakePicture, SignalArrives, Signal
    <3> QED
      BY <3>1 DEF InferQueue!fifoVars
  <2> QED
    BY <2>1, <2>2, <2>3, <2>4, <2>5
<1> QED
  BY <1>1, <1>2, PipelineInvariant, PTL DEF Spec, InferQueue!Spec
================================================================================
