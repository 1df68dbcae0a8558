-------------------------------- MODULE Pipeline -------------------------------
(***************************************************************************)
(* The process edge_ai_pipeline (src/main.cpp): main and its three         *)
(* threads, from the camera's buffers to the alarm snapshot.               *)
(*                                                                         *)
(* capture_thread and inference_thread are those of CaptureThread and      *)
(* InferenceThread.  alarm_thread appears here by what it shares with      *)
(* them - the result queue, the counters and, through save_alarm_snapshot, *)
(* the picture in shared memory; whether a detection raises an alarm is    *)
(* left open (RulePolicy and AlarmThread say when it does).                *)
(***************************************************************************)
EXTENDS CaptureThread, InferenceThread

CONSTANT Findings     \* what the model may find in a picture

ASSUME PipelineAssumption == Findings \subseteq Seq(BOOLEAN)

VARIABLES alm_pc,
          result,     \* the InferResult in hand
          alm_i,      \* the detection looked at
          nv12,       \* the picture of the snapshot, in the two halves of shm
          detect_publish_count,
          main_pc

alarmVars == <<alm_pc, result, alm_i, nv12, detect_publish_count>>
sharedVars == <<running, capture_queue, infer_queue>>
vars == <<sharedVars, captureVars, inferenceVars, alarmVars, main_pc>>

Init ==
  /\ ThreadsInit /\ CaptureInit /\ InferenceInit
  /\ alm_pc = "start" /\ result = [EmptyResult EXCEPT !.seq = -1] /\ alm_i = 1
  /\ nv12 = [top |-> 0, bottom |-> 0]
  /\ detect_publish_count = 0
  /\ main_pc = "poll"
--------------------------------------------------------------------------------
(* alarm_thread *)

AlmConnect ==
  /\ alm_pc = "start"
  /\ alm_pc' \in {"loop", "exited"}
  /\ UNCHANGED <<result, alm_i, nv12, detect_publish_count, sharedVars>>

AlmLoop ==
  /\ alm_pc = "loop"
  /\ alm_pc' = IF running THEN "pop" ELSE "exited"
  /\ UNCHANGED <<result, alm_i, nv12, detect_publish_count, sharedVars>>

AlmNothing ==
  /\ alm_pc = "pop" /\ infer_queue = <<>>
  /\ alm_pc' = "loop"
  /\ UNCHANGED <<result, alm_i, nv12, detect_publish_count, sharedVars>>

\* Mutation: the newest result is taken first.
AlmPopNewest ==
  /\ alm_pc = "pop" /\ infer_queue # <<>>
  /\ result' = Last(infer_queue) /\ infer_queue' = Front(infer_queue)
  /\ alm_i' = 1
  /\ alm_pc' = "rules"
  /\ UNCHANGED <<nv12, detect_publish_count, running, capture_queue>>

AlmPop ==
  /\ alm_pc = "pop" /\ infer_queue # <<>>
  /\ result' = Head(infer_queue) /\ infer_queue' = Tail(infer_queue)
  /\ alm_i' = 1
  /\ alm_pc' = "rules"
  /\ UNCHANGED <<nv12, detect_publish_count, running, capture_queue>>

AlmNoAlarm ==
  /\ alm_pc = "rules" /\ alm_i <= result.count
  /\ alm_i' = alm_i + 1
  /\ UNCHANGED <<alm_pc, result, nv12, detect_publish_count, sharedVars>>

\* An empty slot has no class name and raises no alarm.
AlmAlarm ==
  /\ alm_pc = "rules" /\ alm_i <= result.count
  /\ result.results[alm_i] # 0
  /\ alm_pc' = "open"
  /\ UNCHANGED <<result, alm_i, nv12, detect_publish_count, sharedVars>>

\* save_alarm_snapshot: shm_open finds the segment.  An alarm without a snapshot
\* (it is disabled, or fails) is published as well.
AlmOpen ==
  /\ alm_pc = "open"
  /\ \/ shm_name /\ alm_pc' = "top" /\ UNCHANGED alm_i
     \/ alm_pc' = "rules" /\ alm_i' = alm_i + 1
  /\ UNCHANGED <<result, nv12, detect_publish_count, sharedVars>>

AlmCopyTop ==
  /\ alm_pc = "top"
  /\ nv12' = [nv12 EXCEPT !.top = shm.top]
  /\ alm_pc' = "bottom"
  /\ UNCHANGED <<result, alm_i, detect_publish_count, sharedVars>>

AlmCopyBottom ==
  /\ alm_pc = "bottom"
  /\ nv12' = [nv12 EXCEPT !.bottom = shm.bottom]
  /\ alm_pc' = "save"
  /\ UNCHANGED <<result, alm_i, detect_publish_count, sharedVars>>

\* The overlays, the JPEG and the alarm's publication.
AlmSave ==
  /\ alm_pc = "save"
  /\ alm_i' = alm_i + 1
  /\ alm_pc' = "rules"
  /\ UNCHANGED <<result, nv12, detect_publish_count, sharedVars>>

AlmPublishRaw ==
  /\ alm_pc = "rules" /\ alm_i > result.count
  /\ detect_publish_count' = detect_publish_count + 1
  /\ alm_pc' = "loop"
  /\ UNCHANGED <<result, alm_i, nv12, sharedVars>>

AlarmLoop == \/ AlmConnect \/ AlmLoop \/ AlmNothing \/ AlmPop \/ AlmNoAlarm
             \/ AlmAlarm \/ AlmOpen \/ AlmCopyTop \/ AlmCopyBottom \/ AlmSave
             \/ AlmPublishRaw
--------------------------------------------------------------------------------
(* main: polls running, then joins the threads in the order it made them. *)

MainPoll ==
  /\ main_pc = "poll" /\ ~running
  /\ main_pc' = "join_cap"

MainJoinCapture ==
  /\ main_pc = "join_cap" /\ cap_pc = "exited"
  /\ main_pc' = "join_inf"

MainJoinInference ==
  /\ main_pc = "join_inf" /\ inf_pc = "exited"
  /\ main_pc' = "join_alm"

MainJoinAlarm ==
  /\ main_pc = "join_alm" /\ alm_pc = "exited"
  /\ main_pc' = "exited"

Main == MainPoll \/ MainJoinCapture \/ MainJoinInference \/ MainJoinAlarm
--------------------------------------------------------------------------------
CaptureStep == Capture /\ UNCHANGED <<inferenceVars, alarmVars, main_pc>>

InferenceStep ==
  /\ \E detections \in Findings : Inference(detections)
  /\ UNCHANGED <<captureVars, alarmVars, main_pc>>

AlarmStep == AlarmLoop /\ UNCHANGED <<captureVars, inferenceVars, main_pc>>

MainStep == Main /\ UNCHANGED <<sharedVars, captureVars, inferenceVars, alarmVars>>

Camera == TakePicture /\ UNCHANGED <<inferenceVars, alarmVars, main_pc>>

SignalArrives == Signal /\ UNCHANGED <<captureVars, inferenceVars, alarmVars, main_pc>>

Next == CaptureStep \/ InferenceStep \/ AlarmStep \/ MainStep \/ Camera \/ SignalArrives

Spec == Init /\ [][Next]_vars

(* The four threads run; the camera and the user owe nothing. *)
FairSpec == Spec /\ WF_vars(CaptureStep) /\ WF_vars(InferenceStep)
                 /\ WF_vars(AlarmStep) /\ WF_vars(MainStep)
--------------------------------------------------------------------------------
(* Type invariant. *)
TypeOK ==
  /\ CaptureTypeOK
  /\ Len(capture_queue) <= QueueSlots /\ Len(infer_queue) <= QueueSlots
  /\ alm_i \in 1 .. DetectSlots + 1
  /\ main_pc \in {"poll", "join_cap", "join_inf", "join_alm", "exited"}

(* From end to end - driver buffers, two queues that drop, shared memory - the
   results alarm_thread gets are of ever later frames, and their boxes of ever
   later pictures: no picture is counted twice and none comes late. *)
ResultsInOrder ==
  [][/\ result'.seq > result.seq
     /\ \A s, t \in Slots : result'.results[s] # 0 =>
          result'.results[s] > result.results[t]]_result

(* The picture in the snapshot of an alarm may be a later one than the picture
   that raised it, but no part of it is an earlier one. *)
SnapshotNotOlder ==
  alm_pc = "save" =>
    /\ nv12.top >= result.results[alm_i]
    /\ nv12.bottom >= result.results[alm_i]

(* The metrics agree across the threads that write them: of the results whose
   raw detections were published at most the latest is not counted as inferred. *)
CountersAgree == detect_publish_count <= inference_frame_count + 1

(* SIGINT and SIGTERM always end the process, also after threads have failed,
   with the queues full or empty and with the camera silent. *)
Shutdown == ~running ~> main_pc = "exited"
================================================================================
