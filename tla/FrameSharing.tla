------------------------------ MODULE FrameSharing -----------------------------
(***************************************************************************)
(* The shared memory segment /edge_ai_frame between inference_thread and   *)
(* one MJPEG client of web_viewer (serve_mjpeg, src/web_viewer.cpp), which *)
(* runs in another process and shares no lock with it: the viewer waits    *)
(* for seq to change, copies the picture, and then reads the detections    *)
(* straight from the segment while it draws them.                          *)
(*                                                                         *)
(* Around them, capture_thread fills capture_queue and alarm_thread        *)
(* empties infer_queue.                                                    *)
(***************************************************************************)
EXTENDS InferenceThread

CONSTANTS Findings,    \* what the model may find in a picture: sequences that
                       \* say for each detection whether its box has an area
          MaxFrames    \* bound: the frames captured

ASSUME SharingAssumption ==
  Findings \subseteq Seq(BOOLEAN) /\ MaxFrames \in Nat

VARIABLES captured,    \* frames pushed so far
          announced,   \* history: the picture in hand at each change of shm.seq
          web_pc,
          last_seq,    \* UINT64_MAX, here -1, until a picture was copied
          local_nv12,  \* the viewer's copy, in the two halves of shm
          cnt, slot,   \* the detections to draw and the next one
          drawn,       \* the box drawn from each slot
          sent,        \* history: the copy last sent to the client
          given_up     \* history: the copy whose conversion or encoding last failed

envVars == <<running, captured>>
outcome == <<sent, given_up>>
webVars == <<web_pc, last_seq, local_nv12, cnt, slot, drawn, outcome>>
vars == <<inferenceVars, capture_queue, infer_queue, envVars, announced, webVars>>

NothingDrawn == [s \in Slots |-> 0]
NoPicture == [top |-> 0, bottom |-> 0]

Init ==
  /\ ThreadsInit /\ InferenceInit
  /\ captured = 0 /\ announced = <<>>
  /\ web_pc = "open" /\ last_seq = -1
  /\ local_nv12 = NoPicture /\ sent = NoPicture /\ given_up = NoPicture
  /\ cnt = 0 /\ slot = 1 /\ drawn = NothingDrawn
--------------------------------------------------------------------------------
(* Surroundings *)

\* capture_thread pushes the next picture.
CaptureFrame ==
  /\ captured < MaxFrames
  /\ captured' = captured + 1
  /\ capture_queue' = Pushed(capture_queue, [seq |-> captured, picture |-> captured'])
  /\ UNCHANGED <<inferenceVars, running, infer_queue, announced, webVars>>

\* alarm_thread pops a result.
TakeResult ==
  /\ infer_queue # <<>>
  /\ infer_queue' = Tail(infer_queue)
  /\ UNCHANGED <<inferenceVars, capture_queue, envVars, announced, webVars>>

Stop == Signal /\ UNCHANGED <<inferenceVars, captured, announced, webVars>>

InferenceStep ==
  /\ \E detections \in Findings : Inference(detections)
  /\ announced' = IF shm'.seq # shm.seq THEN Append(announced, frame'.picture)
                                        ELSE announced
  /\ UNCHANGED <<captured, webVars>>
--------------------------------------------------------------------------------
(* web_viewer: main maps the segment once, serve_mjpeg reads it. *)

sharedVars == <<inferenceVars, capture_queue, infer_queue, envVars, announced>>

\* The viewer is started once the segment is set up, and keeps its mapping when
\* the segment's name goes; without the mapping, or when the headers of the stream
\* cannot be written, no client is served.
WebOpen ==
  /\ web_pc = "open" /\ shm_name
  /\ inf_pc \notin {"unlink", "create", "setup"}
  /\ web_pc' \in {"load", "closed"}
  /\ UNCHANGED <<sharedVars, last_seq, local_nv12, cnt, slot, drawn, outcome>>

WebUnchanged ==
  /\ web_pc = "load"
  /\ shm.seq = last_seq
  /\ web_pc' = "sleep"
  /\ UNCHANGED <<sharedVars, last_seq, local_nv12, cnt, slot, drawn, outcome>>

WebSlept ==
  /\ web_pc = "sleep"
  /\ web_pc' = "load"
  /\ UNCHANGED <<sharedVars, last_seq, local_nv12, cnt, slot, drawn, outcome>>

WebNewFrame ==
  /\ web_pc = "load"
  /\ shm.seq # last_seq
  /\ last_seq' = shm.seq
  /\ web_pc' = "top"
  /\ UNCHANGED <<sharedVars, local_nv12, cnt, slot, drawn, outcome>>

WebCopyTop ==
  /\ web_pc = "top"
  /\ local_nv12' = [local_nv12 EXCEPT !.top = shm.top]
  /\ web_pc' = "bottom"
  /\ UNCHANGED <<sharedVars, last_seq, cnt, slot, drawn, outcome>>

WebCopyBottom ==
  /\ web_pc = "bottom"
  /\ local_nv12' = [local_nv12 EXCEPT !.bottom = shm.bottom]
  /\ web_pc' = "convert"
  /\ UNCHANGED <<sharedVars, last_seq, cnt, slot, drawn, outcome>>

\* The picture is not sent, with last_seq moved on: it is not tried again.
WebGivesUp ==
  /\ given_up' = local_nv12
  /\ web_pc' = "sleep"
  /\ UNCHANGED <<sharedVars, last_seq, local_nv12, cnt, slot, drawn, sent>>

\* cvtColor throws.
WebConvertFails == web_pc = "convert" /\ WebGivesUp

\* detect_count is read once, after the picture.
WebConvert ==
  /\ web_pc = "convert"
  /\ cnt' = shm.count /\ slot' = 1 /\ drawn' = NothingDrawn
  /\ web_pc' = "draw"
  /\ UNCHANGED <<sharedVars, last_seq, local_nv12, outcome>>

\* An empty box is not drawn.
WebDraw ==
  /\ web_pc = "draw" /\ slot <= cnt
  /\ drawn' = [drawn EXCEPT ![slot] = shm.detects[slot]]
  /\ slot' = slot + 1
  /\ UNCHANGED <<sharedVars, web_pc, last_seq, local_nv12, cnt, outcome>>

\* imencode throws, or yields nothing.
WebEncodeFails == web_pc = "draw" /\ slot > cnt /\ WebGivesUp

\* The writes; one that fails closes the client's connection.
WebSend ==
  /\ web_pc = "draw" /\ slot > cnt
  /\ \/ web_pc' = "load" /\ sent' = local_nv12
     \/ web_pc' = "closed" /\ UNCHANGED sent
  /\ UNCHANGED <<sharedVars, last_seq, local_nv12, cnt, slot, drawn, given_up>>
--------------------------------------------------------------------------------
WebViewer == \/ WebOpen \/ WebUnchanged \/ WebSlept \/ WebNewFrame
             \/ WebCopyTop \/ WebCopyBottom \/ WebConvertFails \/ WebConvert
             \/ WebDraw \/ WebEncodeFails \/ WebSend

Next == CaptureFrame \/ TakeResult \/ Stop \/ InferenceStep \/ WebViewer

Spec == Init /\ [][Next]_vars

(* Both loops keep running: neither waits for anything but its own calls. *)
FairSpec == Spec /\ WF_vars(InferenceStep) /\ WF_vars(WebViewer)
--------------------------------------------------------------------------------
Pictures == 0 .. MaxFrames
Copies == [top : Pictures, bottom : Pictures]

(* Type invariant. *)
TypeOK ==
  /\ captured \in Pictures /\ announced \in Seq(Pictures)
  /\ shm.seq = Len(announced)
  /\ Len(capture_queue) <= QueueSlots /\ Len(infer_queue) <= QueueSlots
  /\ shm.top \in Pictures /\ shm.bottom \in Pictures
  /\ shm.count \in 0 .. DetectSlots /\ shm.detects \in [Slots -> Pictures]
  /\ infer_result.results \in [Slots -> Pictures]
  /\ last_seq \in -1 .. Len(announced)
  /\ local_nv12 \in Copies /\ sent \in Copies /\ given_up \in Copies
  /\ cnt \in 0 .. DetectSlots /\ slot \in 1 .. DetectSlots + 1
  /\ drawn \in [Slots -> Pictures]

(* What the acquire/release on seq buys: neither half of the viewer's copy is
   older than the picture whose announcement it answers to. *)
CopyIsFresh ==
  web_pc \in {"convert", "draw"} /\ last_seq > 0 =>
    /\ local_nv12.top >= announced[last_seq]
    /\ local_nv12.bottom >= announced[last_seq]

(* The video never jumps back: neither half of the viewer's copy is ever
   replaced by that of an earlier picture. *)
VideoNeverGoesBack ==
  [][/\ local_nv12'.top >= local_nv12.top
     /\ local_nv12'.bottom >= local_nv12.bottom]_local_nv12

NotBefore(copy, p) == copy.top >= p /\ copy.bottom >= p

(* Of every picture the inference thread has put into the segment, or of a later
   one, the viewer's copy is sent to a client that stays connected, or converting
   or encoding that copy fails: also when the model failed on the picture, and when
   it was the last one before the process stopped. *)
PictureReachesViewer ==
  \A p \in 1 .. MaxFrames :
    (shm.top = p /\ shm.bottom = p) ~>
      \/ NotBefore(sent, p) \/ NotBefore(given_up, p)
      \/ web_pc \in {"open", "closed"}
--------------------------------------------------------------------------------
(* web_viewer.cpp: the picture is copied to a local buffer before it is
   converted, so that the picture shown is not torn by the inference thread
   writing the shared memory while web_viewer reads it. *)
CopyNotTorn == web_pc = "convert" => local_nv12.top = local_nv12.bottom

(* inference.cpp: the result list of the frame is written to the shared memory
   for web_viewer to draw its boxes. *)
BoxesAreOfFrame ==
  inf_pc = "push" =>
    \A s \in 1 .. shm.count : shm.detects[s] \in {0, frame.picture}
================================================================================
