---------------------------- MODULE InferenceThread ----------------------------
(***************************************************************************)
(* inference_thread (src/inference.cpp): creates the shared memory segment *)
(* /edge_ai_frame, then writes each frame's picture and detections into it *)
(* for the readers and sends the detections to alarm_thread.               *)
(*                                                                         *)
(* The picture is copied without a lock while readers copy it out, so it   *)
(* is modelled in two halves, each of which holds a part of some picture;  *)
(* a box in a slot is reduced to the picture it was found in, 0 for an     *)
(* empty slot.                                                             *)
(***************************************************************************)
EXTENDS Threads

CONSTANTS DetectSlots   \* the slots of detects and results: 64

ASSUME InferenceAssumption == DetectSlots \in Nat

VARIABLES inf_pc,
          shm_name,      \* /dev/shm/edge_ai_frame exists
          shm,           \* the SharedFrame
          frame,         \* the RawFrame in hand
          found,         \* od_results: for each detection, is its clamped box
                         \* at least a pixel wide and high
          k,             \* the detection looked at
          infer_result,  \* the InferResult being filled
          inference_frame_count

inferenceVars == <<inf_pc, shm_name, shm, frame, found, k, infer_result,
                   inference_frame_count>>

Slots == 1 .. DetectSlots

EmptyShm == [seq |-> 0, top |-> 0, bottom |-> 0, count |-> 0,
             detects |-> [s \in Slots |-> 0]]
EmptyResult == [seq |-> 0, count |-> 0, results |-> [s \in Slots |-> 0]]

InferenceInit ==
  /\ inf_pc = "unlink"
  /\ shm_name \in BOOLEAN      \* a killed process leaves its segment behind
  /\ shm = EmptyShm
  /\ frame = [seq |-> -1, picture |-> 0] /\ found = <<>> /\ k = 1
  /\ infer_result = EmptyResult
  /\ inference_frame_count = 0
--------------------------------------------------------------------------------
(* Setup *)

InfUnlink ==
  /\ inf_pc = "unlink"
  /\ shm_name' = FALSE
  /\ inf_pc' = "create"
  /\ UNCHANGED <<shm, frame, found, k, infer_result, inference_frame_count,
                 running, capture_queue, infer_queue>>

InfCreate ==
  /\ inf_pc = "create"
  /\ \/ shm_name' = TRUE /\ inf_pc' = "setup"
     \/ inf_pc' = "exited" /\ UNCHANGED shm_name
  /\ UNCHANGED <<shm, frame, found, k, infer_result, inference_frame_count,
                 running, capture_queue, infer_queue>>

\* Mutation: a failed setup leaves the segment's name behind.
InfSetupLeavesName ==
  /\ inf_pc = "setup"
  /\ inf_pc' \in {"loop", "exited"}
  /\ UNCHANGED <<shm_name, shm, frame, found, k, infer_result,
                 inference_frame_count, running, capture_queue, infer_queue>>

\* ftruncate, mmap, the SharedFrame constructor, post-processing and the model;
\* whichever step fails removes the segment's name.
InfSetup ==
  /\ inf_pc = "setup"
  /\ \/ inf_pc' = "loop" /\ UNCHANGED shm_name
     \/ inf_pc' = "exited" /\ shm_name' = FALSE
  /\ UNCHANGED <<shm, frame, found, k, infer_result, inference_frame_count,
                 running, capture_queue, infer_queue>>
--------------------------------------------------------------------------------
(* The loop *)

InfLoop ==
  /\ inf_pc = "loop" /\ running
  /\ inf_pc' = "pop"
  /\ UNCHANGED <<shm_name, shm, frame, found, k, infer_result,
                 inference_frame_count, running, capture_queue, infer_queue>>

\* The model is released and the segment's name removed.
InfStop ==
  /\ inf_pc = "loop" /\ ~running
  /\ shm_name' = FALSE
  /\ inf_pc' = "exited"
  /\ UNCHANGED <<shm, frame, found, k, infer_result, inference_frame_count,
                 running, capture_queue, infer_queue>>

\* The queue is empty: sleep for a millisecond.
InfNothing ==
  /\ inf_pc = "pop" /\ capture_queue = <<>>
  /\ inf_pc' = "loop"
  /\ UNCHANGED <<shm_name, shm, frame, found, k, infer_result,
                 inference_frame_count, running, capture_queue, infer_queue>>

\* Mutation: the frame is announced before it is copied.
InfPopAnnounced ==
  /\ inf_pc = "pop" /\ capture_queue # <<>>
  /\ frame' = Head(capture_queue) /\ capture_queue' = Tail(capture_queue)
  /\ shm' = [shm EXCEPT !.seq = @ + 1]
  /\ inf_pc' = "top"
  /\ UNCHANGED <<shm_name, found, k, infer_result, inference_frame_count, running,
                 infer_queue>>

\* Mutation: the newest frame is taken first.
InfPopNewest ==
  /\ inf_pc = "pop" /\ capture_queue # <<>>
  /\ frame' = capture_queue[Len(capture_queue)]
  /\ capture_queue' = SubSeq(capture_queue, 1, Len(capture_queue) - 1)
  /\ inf_pc' = "top"
  /\ UNCHANGED <<shm_name, shm, found, k, infer_result, inference_frame_count,
                 running, infer_queue>>

InfPop ==
  /\ inf_pc = "pop" /\ capture_queue # <<>>
  /\ frame' = Head(capture_queue) /\ capture_queue' = Tail(capture_queue)
  /\ inf_pc' = "top"
  /\ UNCHANGED <<shm_name, shm, found, k, infer_result, inference_frame_count,
                 running, infer_queue>>

\* memcpy(shm->nv12, frame.data), in two halves.
InfCopyTop ==
  /\ inf_pc = "top"
  /\ shm' = [shm EXCEPT !.top = frame.picture]
  /\ inf_pc' = "bottom"
  /\ UNCHANGED <<shm_name, frame, found, k, infer_result, inference_frame_count,
                 running, capture_queue, infer_queue>>

\* Mutation: the size copied covers the luminance plane only.
InfCopyBottomNot ==
  /\ inf_pc = "bottom"
  /\ inf_pc' = "infer"
  /\ UNCHANGED <<shm_name, shm, frame, found, k, infer_result,
                 inference_frame_count, running, capture_queue, infer_queue>>

InfCopyBottom ==
  /\ inf_pc = "bottom"
  /\ shm' = [shm EXCEPT !.bottom = frame.picture]
  /\ inf_pc' = "infer"
  /\ UNCHANGED <<shm_name, frame, found, k, infer_result, inference_frame_count,
                 running, capture_queue, infer_queue>>

\* The conversion throws or the model fails: no result, but a new seq.
InfFails ==
  /\ inf_pc = "infer"
  /\ shm' = [shm EXCEPT !.count = 0]
  /\ inf_pc' = "skip"
  /\ UNCHANGED <<shm_name, frame, found, k, infer_result, inference_frame_count,
                 running, capture_queue, infer_queue>>

\* Mutation: a frame without a result is not announced.
InfSkipSilently ==
  /\ inf_pc = "skip"
  /\ inf_pc' = "loop"
  /\ UNCHANGED <<shm_name, shm, frame, found, k, infer_result,
                 inference_frame_count, running, capture_queue, infer_queue>>

InfSkip ==
  /\ inf_pc = "skip"
  /\ shm' = [shm EXCEPT !.seq = @ + 1]
  /\ inf_pc' = "loop"
  /\ UNCHANGED <<shm_name, frame, found, k, infer_result, inference_frame_count,
                 running, capture_queue, infer_queue>>

\* Mutation: infer_result is not cleared before it is filled.
InfSucceedsStale(detections) ==
  /\ inf_pc = "infer"
  /\ LET count == IF Len(detections) > DetectSlots THEN DetectSlots
                                                   ELSE Len(detections)
     IN /\ found' = SubSeq(detections, 1, count)
        /\ shm' = [shm EXCEPT !.count = count]
        /\ infer_result' = [infer_result EXCEPT !.seq = frame.seq, !.count = count]
  /\ k' = 1
  /\ inf_pc' = "detects"
  /\ UNCHANGED <<shm_name, frame, inference_frame_count, running, capture_queue,
                 infer_queue>>

\* Mutation: the number of detections is not clamped.
InfSucceedsUnclamped(detections) ==
  /\ inf_pc = "infer"
  /\ found' = detections
  /\ shm' = [shm EXCEPT !.count = Len(detections)]
  /\ infer_result' = [EmptyResult EXCEPT !.seq = frame.seq, !.count = Len(detections)]
  /\ k' = 1
  /\ inf_pc' = "detects"
  /\ UNCHANGED <<shm_name, frame, inference_frame_count, running, capture_queue,
                 infer_queue>>

\* The model returns detections; those beyond the slots are ignored.
InfSucceeds(detections) ==
  /\ inf_pc = "infer"
  /\ LET count == IF Len(detections) > DetectSlots THEN DetectSlots
                                                   ELSE Len(detections)
     IN /\ found' = SubSeq(detections, 1, count)
        /\ shm' = [shm EXCEPT !.count = count]
        /\ infer_result' = [EmptyResult EXCEPT !.seq = frame.seq, !.count = count]
  /\ k' = 1
  /\ inf_pc' = "detects"
  /\ UNCHANGED <<shm_name, frame, inference_frame_count, running, capture_queue,
                 infer_queue>>

\* An empty box is skipped: its slot keeps what it had, in both arrays.
InfDetect ==
  /\ inf_pc = "detects" /\ k <= Len(found)
  /\ IF found[k]
     THEN /\ shm' = [shm EXCEPT !.detects[k] = frame.picture]
          /\ infer_result' = [infer_result EXCEPT !.results[k] = frame.picture]
     ELSE UNCHANGED <<shm, infer_result>>
  /\ k' = k + 1
  /\ UNCHANGED <<inf_pc, shm_name, frame, found, inference_frame_count, running,
                 capture_queue, infer_queue>>

InfAnnounce ==
  /\ inf_pc = "detects" /\ k > Len(found)
  /\ shm' = [shm EXCEPT !.seq = @ + 1]
  /\ inf_pc' = "push"
  /\ UNCHANGED <<shm_name, frame, found, k, infer_result, inference_frame_count,
                 running, capture_queue, infer_queue>>

InfPush ==
  /\ inf_pc = "push"
  /\ infer_queue' = Pushed(infer_queue, infer_result)
  /\ inf_pc' = "count"
  /\ UNCHANGED <<shm_name, shm, frame, found, k, infer_result,
                 inference_frame_count, running, capture_queue>>

\* Mutation: the frame is not counted.
InfCountNot ==
  /\ inf_pc = "count"
  /\ inf_pc' = "loop"
  /\ UNCHANGED <<shm_name, shm, frame, found, k, infer_result,
                 inference_frame_count, running, capture_queue, infer_queue>>

\* metrics_record_inference_frame, after the push.
InfCount ==
  /\ inf_pc = "count"
  /\ inference_frame_count' = inference_frame_count + 1
  /\ inf_pc' = "loop"
  /\ UNCHANGED <<shm_name, shm, frame, found, k, infer_result, running,
                 capture_queue, infer_queue>>
--------------------------------------------------------------------------------
Inference(detections) ==
  \/ InfUnlink \/ InfCreate \/ InfSetup \/ InfLoop \/ InfStop \/ InfNothing
  \/ InfPop
  \/ InfCopyTop \/ InfCopyBottom \/ InfFails \/ InfSkip
  \/ InfSucceeds(detections) \/ InfDetect \/ InfAnnounce \/ InfPush \/ InfCount

(* However the thread ends, except by a crash, no stale segment is left behind
   for a reader to map. *)
NoSegmentLeft == inf_pc = "exited" => ~shm_name

(* A result never carries a detection of an earlier frame, also where a box of
   the frame was skipped. *)
ResultIsOfFrame ==
  inf_pc = "push" =>
    \A s \in Slots :
      infer_result.results[s] = IF s <= Len(found) /\ found[s] THEN frame.picture
                                                              ELSE 0
================================================================================
