----------------------------- MODULE CaptureThread -----------------------------
(***************************************************************************)
(* capture_thread (src/capture.cpp): sets up the V4L2 camera with NBUF     *)
(* memory-mapped buffers, then takes each filled buffer from the driver,   *)
(* copies the picture into a RawFrame, pushes it and gives the buffer      *)
(* back.  The driver owns a buffer from VIDIOC_QBUF to VIDIOC_DQBUF and    *)
(* may write a picture into it at any time between the two.                *)
(***************************************************************************)
EXTENDS Threads, FiniteSets, SequencesExt

CONSTANTS NBUF,         \* 4 buffers
          MaxPictures   \* bound: the pictures the camera takes

ASSUME CaptureAssumption == NBUF \in Nat \ {0} /\ MaxPictures \in Nat

VARIABLES cap_pc,
          fd_open,      \* the device is open
          mapped,       \* the buffers below this one are mmapped
          streaming,    \* between STREAMON and STREAMOFF
          queued,       \* buffers the driver may fill
          filled,       \* buffers the driver has filled, in order
          content,      \* the picture in each buffer
          pictures,     \* pictures taken so far
          held,         \* the buffer dequeued, as long as it is not given back
          cap_seq,      \* seq: frames made so far
          cap_frame     \* the RawFrame made from the buffer held

driverVars == <<queued, filled, content, pictures>>
setupVars == <<fd_open, mapped, streaming>>
captureVars == <<cap_pc, setupVars, driverVars, held, cap_seq, cap_frame>>

Buffers == 0 .. NBUF - 1
NoBuffer == -1
NoFrame == [seq |-> -1, picture |-> 0]

CaptureInit ==
  /\ cap_pc = "open"
  /\ fd_open = FALSE /\ mapped = 0 /\ streaming = FALSE
  /\ queued = {} /\ filled = <<>> /\ held = NoBuffer
  /\ content = [b \in Buffers |-> 0] /\ pictures = 0
  /\ cap_seq = 0 /\ cap_frame = NoFrame

\* The camera writes a picture into a buffer the driver owns.
TakePicture ==
  /\ streaming /\ pictures < MaxPictures
  /\ \E b \in queued :
       /\ pictures' = pictures + 1
       /\ content' = [content EXCEPT ![b] = pictures']
       /\ queued' = queued \ {b}
       /\ filled' = Append(filled, b)
  /\ UNCHANGED <<cap_pc, setupVars, held, cap_seq, cap_frame, running,
                 capture_queue, infer_queue>>
--------------------------------------------------------------------------------
(* Setup.  Every early return closes the device and leaves running alone. *)

CapOpen ==
  /\ cap_pc = "open"
  /\ \/ cap_pc' = "setup" /\ fd_open' = TRUE
     \/ cap_pc' = "exited" /\ UNCHANGED fd_open
  /\ UNCHANGED <<mapped, streaming, driverVars, held, cap_seq, cap_frame, running,
                 capture_queue, infer_queue>>

\* S_FMT, REQBUFS, QUERYBUF, mmap, QBUF or STREAMON failed.  The buffers mapped
\* so far stay mapped.
CapSetupFails ==
  /\ cap_pc = "setup"
  /\ cap_pc' = "exited" /\ fd_open' = FALSE
  /\ UNCHANGED <<mapped, streaming, driverVars, held, cap_seq, cap_frame, running,
                 capture_queue, infer_queue>>

\* QUERYBUF, mmap and QBUF of the next buffer.
CapMapBuffer ==
  /\ cap_pc = "setup" /\ mapped < NBUF
  /\ mapped' = mapped + 1 /\ queued' = queued \cup {mapped}
  /\ UNCHANGED <<cap_pc, fd_open, streaming, filled, content, pictures, held,
                 cap_seq, cap_frame, running, capture_queue, infer_queue>>

CapStreamOn ==
  /\ cap_pc = "setup" /\ mapped = NBUF
  /\ streaming' = TRUE /\ cap_pc' = "loop"
  /\ UNCHANGED <<fd_open, mapped, driverVars, held, cap_seq, cap_frame, running,
                 capture_queue, infer_queue>>
--------------------------------------------------------------------------------
(* The loop *)

CapLoop ==
  /\ cap_pc = "loop"
  /\ cap_pc' = IF running THEN "wait" ELSE "close"
  /\ UNCHANGED <<setupVars, driverVars, held, cap_seq, cap_frame, running,
                 capture_queue, infer_queue>>

\* Mutation: select is called again without a look at running.
CapNothingWait ==
  /\ cap_pc = "wait"
  /\ UNCHANGED <<captureVars, running, capture_queue, infer_queue>>

\* select times out after two seconds or fails, or VIDIOC_DQBUF fails.
CapNothing ==
  /\ cap_pc = "wait"
  /\ cap_pc' = "loop"
  /\ UNCHANGED <<setupVars, driverVars, held, cap_seq, cap_frame, running,
                 capture_queue, infer_queue>>

CapDequeue ==
  /\ cap_pc = "wait" /\ filled # <<>>
  /\ held' = Head(filled) /\ filled' = Tail(filled)
  /\ cap_pc' = "copy"
  /\ UNCHANGED <<setupVars, queued, content, pictures, cap_seq, cap_frame, running,
                 capture_queue, infer_queue>>

CapCopy ==
  /\ cap_pc = "copy"
  /\ cap_frame' = [seq |-> cap_seq, picture |-> content[held]]
  /\ cap_seq' = cap_seq + 1
  /\ cap_pc' = "push"
  /\ UNCHANGED <<setupVars, driverVars, held, running, capture_queue, infer_queue>>

CapPush ==
  /\ cap_pc = "push"
  /\ capture_queue' = Pushed(capture_queue, cap_frame)
  /\ cap_pc' = "requeue"
  /\ UNCHANGED <<setupVars, driverVars, held, cap_seq, cap_frame, running,
                 infer_queue>>

\* Mutation: the loop goes on when the buffer cannot be given back.
CapRequeueIgnoringFailure ==
  /\ cap_pc = "requeue"
  /\ queued' \in {queued, queued \cup {held}}
  /\ held' = NoBuffer
  /\ cap_pc' = "loop"
  /\ UNCHANGED <<setupVars, filled, content, pictures, cap_seq, cap_frame, running,
                 capture_queue, infer_queue>>

\* VIDIOC_QBUF; a failure leaves the loop.
CapRequeue ==
  /\ cap_pc = "requeue"
  /\ \/ queued' = queued \cup {held} /\ held' = NoBuffer /\ cap_pc' = "loop"
     \/ cap_pc' = "close" /\ UNCHANGED <<queued, held>>
  /\ UNCHANGED <<setupVars, filled, content, pictures, cap_seq, cap_frame, running,
                 capture_queue, infer_queue>>

\* STREAMOFF takes every buffer back from the driver; then munmap and close.
CapClose ==
  /\ cap_pc = "close"
  /\ streaming' = FALSE /\ queued' = {} /\ filled' = <<>>
  /\ mapped' = 0 /\ fd_open' = FALSE
  /\ cap_pc' = "exited"
  /\ UNCHANGED <<content, pictures, held, cap_seq, cap_frame, running,
                 capture_queue, infer_queue>>
--------------------------------------------------------------------------------
Capture == \/ CapOpen \/ CapSetupFails \/ CapMapBuffer \/ CapStreamOn \/ CapLoop
           \/ CapNothing \/ CapDequeue \/ CapCopy \/ CapPush \/ CapRequeue
           \/ CapClose

CaptureTypeOK ==
  /\ cap_pc \in {"open", "setup", "loop", "wait", "copy", "push", "requeue",
                 "close", "exited"}
  /\ fd_open \in BOOLEAN /\ streaming \in BOOLEAN
  /\ mapped \in 0 .. NBUF /\ queued \subseteq Buffers
  /\ filled \in Seq(Buffers) /\ held \in Buffers \cup {NoBuffer}
  /\ content \in [Buffers -> 0 .. MaxPictures] /\ pictures \in 0 .. MaxPictures
  /\ cap_seq \in 0 .. MaxPictures
  /\ cap_frame \in {NoFrame} \cup [seq : 0 .. MaxPictures, picture : 1 .. MaxPictures]

(* However the loop goes, no buffer leaks: when the thread is about to wait for
   the next picture, every buffer is either in the driver's hands or filled and
   waiting, none twice, so the camera can always go on. *)
NoBufferLost ==
  cap_pc \in {"loop", "wait"} =>
    /\ held = NoBuffer
    /\ queued \cup ToSet(filled) = Buffers
    /\ Cardinality(queued) + Len(filled) = NBUF
================================================================================
