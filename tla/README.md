# Edge person monitor: TLA+ models and proofs

The repository runs YOLOv8 person detection on an RK3568 board: one process,
`edge_ai_pipeline`, captures pictures, runs the model and raises alarms; a second
one, `web_viewer`, shows the video and the events. These modules model the
parts of that program where threads, processes, time or arithmetic make a
mistake easy and a test hard.

Paths below are those of the repository (`src/alarm.cpp`, `include/common.h`).

## 1. Inventory

### Components, state and operations

| Part | State | Operations | Talks to |
|---|---|---|---|
| `RingQueue<T, 4>` (`include/common.h`) | four slots, atomic `read_`, `write_` | `push`, `pop`; no lock, one thread on either side | the three threads |
| capture thread (`src/capture.cpp`) | V4L2 device, 4 mapped buffers, `seq` | setup, `select`/DQBUF/copy/push/QBUF loop, teardown | camera driver; `capture_queue` |
| inference thread (`src/inference.cpp`) | shared memory segment, model, `InferResult` | setup (unlink, create, map, post-processing, model), loop, shutdown | both queues; `/dev/shm/edge_ai_frame`; metrics |
| alarm thread (`src/alarm.cpp`) | rule engine, `alarm_seq`, MQTT connection, metrics timer | pop, evaluate each detection, snapshot, publish | `infer_queue`; broker; snapshot; metrics |
| rule engine (`src/rule_engine.cpp`) | dwell active/start, last alarm | `configure`, `reset`, `evaluate` | alarm thread |
| ROI geometry (`src/rule_engine.cpp`) | none | `isInsideRoi`, `pointOnSegment` | rule engine |
| snapshot (`src/snapshot.cpp`) | none | map the segment, copy, draw, write a JPEG | shared memory; file system |
| metrics (`src/metrics.cpp`) | atomic counters | one increment each, `metrics_get_snapshot` | inference and alarm threads |
| main (`src/main.cpp`) | `running`, the queues, the threads | signal handler, poll, joins | all threads |
| web viewer, video (`src/web_viewer.cpp`) | mapping of the segment, `last_seq` per client | `serve_mjpeg`, a thread per client | shared memory |
| web viewer, events (`src/web_viewer.cpp`) | list of SSE sockets and its mutex | MQTT callback, broadcast, accept loop, snapshot files | broker; browsers |
| configuration (`src/config.cpp`) | `AppConfig` | parse with regular expressions | main, web viewer |
| scripts and units (`scripts/`, `service/`) | the segment's name as a signal that the pipeline runs | wait, start, restart | both processes |

Shared state and what protects it: the queues by acquire/release on their
indices; `running` by an atomic; the counters by atomics; the shared memory
frame by nothing but its atomic `seq`; the SSE list by a mutex.

### What is hard, and what makes each part correct

* **Ring.** Index loads may be stale on the board's weakly ordered CPU. Correct:
  no slot is touched by both sides, and the ring is a FIFO of three items.
* **Capture.** A buffer belongs to the driver or to the thread, never both; errors
  leave the loop. Correct: no buffer leaks, every picture arrives under its own
  seq, the thread can always be stopped.
* **Inference.** Writer of an unlocked frame; two error paths that still announce a
  frame; five setup failures. Correct: results carry only boxes of their frame,
  the segment is removed however the thread ends.
* **Rules.** One dwell and one cooldown for all detections, unsigned arithmetic on
  signed configuration. Correct: an alarm exactly when dwell and cooldown allow.
* **Alarm thread.** Frames dropped before it, connection lost under it, stopped
  in mid-frame, held up by a snapshot between raising an alarm and publishing it.
  Correct: subscribers see frames in order and none left out, alarms are raised a
  cooldown apart, counters agree with what was sent.
* **Viewer and snapshot.** Readers of the unlocked frame. Correct: never an older
  picture than the one announced or alarmed; the last picture is sent too, unless
  converting or encoding it fails.
* **Process.** Threads that die do not stop the process. Correct: a signal ends it
  from every state.
* **Events.** A payload goes through three fixed buffers; three threads share one table
  of descriptors; one mutex is held over blocking writes. Correct: events arrive whole,
  every registered client gets each one once and in order, every descriptor is closed once.
* **Restarts and configuration.** A name in `/dev/shm` outlives a killed process; the
  configuration may be read while it is saved. Correct: the name stands for a live pipeline
  or a killed one, no part of a rule section is used, a restarted viewer that starts finds the picture.

`PROJECT.json` lists every hazard at its line, with the properties that cover it
or the reason why none does.

## 2. Modules

| Module | Models | Notes |
|---|---|---|
| `BoundedFifo` | what the threads expect of a queue | abstract specification |
| `RingQueue` | `push` and `pop`, one action per load, copy and store | implements `BoundedFifo` |
| `RoiGeometry` | `isInsideRoi` | pure operators |
| `RuleEngine` | `evaluate`, one action per return | no behaviour of its own |
| `RulePolicy` | `RuleEngine` plus the history of its calls | states when an alarm is due |
| `AlarmThread` | `alarm_thread` over `RuleEngine` | broker, clock, inference and signal as surroundings |
| `Threads` | `running` and the two queues | shared by the next ones |
| `CaptureThread` | `capture_thread` and the driver's buffers | |
| `InferenceThread` | `inference_thread` and the shared frame | |
| `FrameSharing` | `InferenceThread` and one MJPEG client | two processes, no lock |
| `Pipeline` | `CaptureThread`, `InferenceThread`, the alarm thread's side of what is shared, `main` | the whole process |
| `EventPayload` | `publish_raw_detection`'s buffer, and those of `on_message` and `sse_broadcast` | lengths only |
| `EventFeed` | what a client of `/events` is promised | abstract specification |
| `WebServer` | accept loop, `handle_client`, `serve_snapshot`, `sse_broadcast`, browsers, descriptors | |
| `EventDelivery` | `EventPayload`, the broker, `mqtt_thread` and `WebServer` | implements `EventFeed` |
| `Configuration` | `load_app_config` on the rule section | operators |
| `ServiceLifecycle` | both services over starts, stops, crashes and edits of the file | uses `Configuration` |
| `*Proofs` | theorems | section 5 |
| `MC*` | small instances | section 3 |

How the models relate to the code:

* **`RingQueue`** counts stores: `write_` and `read_` are the number of stores made,
  the int in the atomic is that number `% N`. `pview`/`cview` are the newest stores
  of the other side a thread has seen; a load may return any store from there on.
  `ppc`/`cpc` are the places inside `push`/`pop`. A slot read not ordered by a
  release returns anything.
* **`RuleEngine`** keeps the names of the fields. A detection is the outcome of the
  three tests; `AsU64` is the cast, with `Modulus` for 2^64.
* **`AlarmThread`** has one action per step of the loop between which another thread
  or the broker can act; a scene is the detections of a frame; `wire` is the list of
  messages the MQTT library took; `stay` is a history variable for the documents'
  notion of a continuous stay, `raised` for when each alarm was raised. A message is
  stamped when it is made, after the snapshot: two of them may be closer than the
  cooldown, their alarms may not. The code stamps with the wall clock and raises with the
  monotonic one; here both are `now_ms`. The connection never comes back, because
  the thread neither calls `mosquitto_loop` nor reconnects.
* **`CaptureThread`**: pictures are numbered as the camera takes them; `queued` and
  `filled` are the driver's buffers, `held` the thread's.
* **`InferenceThread`**: the picture in shared memory is two halves, written one after
  the other, each holding the number of the picture it is a part of; a box in a slot
  is the number of the picture it was found in. `infer_result.results` is cleared for
  each frame as by the `memset`; `shm.detects` is not.
* **`FrameSharing`**: `serve_mjpeg` loads `seq`, copies the halves in two steps, reads
  `detect_count`, then one slot per step. `announced` is history: the picture in hand
  at each change of `seq`; `sent` and `given_up` are too: the copy last sent, and the one
  whose conversion or encoding last failed, which is not tried again. The viewer starts once
  the segment is set up, as `run_web.sh` intends.
* **`Pipeline`** takes the queues at the level of `BoundedFifo`, which `RingQueue`
  implements. A push that sees a full queue, or a pop that sees an empty one, through
  a stale index is the same as one made a moment earlier: nothing flows from a
  queue's consumer back to its producer. Whether a detection raises an alarm is left
  open there; `RulePolicy` and `AlarmThread` say when.
* **`EventPayload`** keeps `offset` as the code does: the sum of the lengths `snprintf`
  returns, which may exceed the buffer. `EventDelivery` passes the length on through
  `on_message` to `sse_broadcast` and records in `whole` whether something was cut.
* **`WebServer`**: `table` is the process's table of descriptors, and a new one gets the lowest
  free number, so that a number closed by the MQTT thread is soon another connection.
  `http_fd`, `http_file`, `streams` and `sse_clients` are the variables that hold such
  numbers. A connection holds `SocketRoom` unread parts, then `write_all` blocks; after its
  browser left, one write may still succeed. A failed write returns:
  `mosquitto_new` makes the process ignore `SIGPIPE`, which is taken to have happened
  before the first browser leaves.
* **`EventDelivery`** hands a message to whoever is subscribed when it is published (QoS 0).
  After `LinkLost` the library reconnects, but nobody subscribes again. `feed` and `joined`
  are history. For `EventFeed`, what a member was handed is what its connection was sent after
  the header, if it asked for `/events`; it is gone once its browser left.
* **`Configuration`** reduces a key to what the regular expression finds for it; a file being
  saved is a prefix, and a section whose braces do not balance is as good as absent.
* **`ServiceLifecycle`** numbers the segments. `shm_name` is the one that
  `/dev/shm/edge_ai_frame` stands for, `mon_seg` and `web_seg` what the processes have
  mapped; `zombie` is a pipeline whose inference thread gave up in its setup. A viewer that
  cannot open or map the segment, or cannot get its port, ends as `failed` and may be started
  again. `orphans` is history.

Definitions whose comment begins with "Mutation" are plausible bugs. They are
used by no specification; each is the second half of a `PROJECT.json` mutant, which
puts it in place of the definition it follows, and makes a property fail.

## 3. Runs

| Run | Instance | Shows |
|---|---|---|
| `ring_queue` | N = 4 as in the code, two laps of both indices, two items | type, capacity, race freedom, the inductive invariant, refinement of the FIFO, progress |
| `roi_geometry` | all outlines of 0..4 points on a 3x3 corner, all triangles on 4x4, every centre | triangle by half-planes; independence of ray, start and direction |
| `rule_policy` | dwell -1, 0, 2, cooldown -2, 0, 3, clock to 5, five calls | an alarm exactly when due, with a negative cooldown too; a negative dwell never alarms |
| `alarm_thread` | two rule settings, frames of two detections, queue of 2, 3 frames | order on the wire with nothing skipped, spacing of alarms, truthful counters |
| `alarm_thread_gap` | a person comes and goes | **violation** of `ContinuousStay` |
| `alarm_thread_crowd` | one inside, one passing by | **violation** of `StayRaisesAlarm` |
| `frame_sharing` | 2 frames, one slot, no box / box / empty box / too many | freshness, no going back, every picture sent or given up, boxes of the frame, no segment left |
| `frame_sharing_torn` | same | **violation** of `CopyNotTorn` |
| `frame_sharing_boxes` | same | **violation** of `BoxesAreOfFrame` |
| `pipeline` | 2 buffers, 3 pictures of one box, queues of 2 | order end to end, buffers, snapshot age, counters, shutdown |
| `event_delivery` | 2 browsers, 2 descriptors, 2 messages, sockets that hold one part, a buffer that a second object would overrun | events whole, once, in order; answers unmixed; descriptors owned; broadcasts and requests end |
| `service_lifecycle` | 2 lives, 2 saves, 2 rounds of the wait, 4 versions of the rule section | honest name, rules of one version, a restarted viewer that starts finds the picture |

### Why the bounds are enough

* Ring: two laps let both indices wrap with every fill level and every staleness.
* Rules: five calls hold a dwell, an alarm, a cooldown, a break and the next alarm;
  the proof covers the rest.
* Alarm thread: three frames make one wait behind another and one be dropped; scenes
  take every return of `evaluate`, alarm twice in a frame and break the dwell within
  one. The clock's few ticks make metrics, dwell and cooldown all come due.
* Sharing: two pictures and the empty segment let a copy straddle a write, skip a
  frame and meet a failed inference; one slot with up to two detections meets the clamp.
* Pipeline: two buffers and three pictures let a buffer be reused while its first
  picture is under way; queues of two hold two items, which a wrong order would swap, and
  drop the third. Every picture has one box, whose number tells the results apart; what a
  model may find otherwise is varied in `frame_sharing`.
* Events: with two descriptors the snapshot's file takes the number that a second client
  waits for, and a number closed in the middle of a broadcast is accepted again before the
  broadcast ends; sockets of one part make every second write block. The formatter's sizes
  are scaled (24 bytes with a margin of 20), one object reaches the margin and two would
  overrun the buffer; the proof holds for the sizes in the code.
* Lifecycle: two lives let a viewer keep the segment of one and a name outlive a kill, two
  saves let each process read another version. Four sections: whole, with values the
  parser skips, and with a duration or a coordinate that no int holds.

`MaxPush`, `MaxTime`, `MaxCalls`, `MaxFrames`, `MaxPictures`, `MaxMessages`, `InFlight`,
`MaxLives` and `MaxSaves` bound counters the program does not bound. Deadlock is not
checked where the system stops: at the end of the clock in `rule_policy`, when the thread
or the process has ended or nobody has anything more to do in the others.

### Fairness

* `RingQueue`: a thread inside a call goes on; the consumer keeps polling, and a store
  becomes visible in finite time (`PopReady`). Nothing makes the producer push.
* `AlarmThread`: weak fairness of the thread's steps, the library calls return.
* `FrameSharing`: weak fairness of the inference thread and of the viewer's thread. A
  client that neither reads nor closes its connection blocks its own `write`; the
  liveness property is about the others. A failed write closes the connection; a picture
  whose conversion or encoding fails is given up, which the property allows and names.
* `Pipeline`: weak fairness of each thread and of main; `select` has a timeout, so the
  capture thread never waits for the camera. The camera, the model's answers
  and the user owe nothing.
* `EventDelivery`: weak fairness of main and of the MQTT thread. Nothing makes a browser
  ask, read or leave; what liveness needs of browsers is stated inside the properties:
  `BroadcastEnds` holds while they go on reading (`Attentive`), `RequestServed` while
  they also send their request (`Prompt`). Without the first a broadcast blocks for ever
  under `sse_mtx`, and without the second the accept loop waits in `read`: this is what the
  code does, and what the hazards at `src/web_viewer.cpp:90` and `:716` are about.
* `ServiceLifecycle`: weak fairness of `run_web.sh` and the viewer up to the accept loop.

There is no strong fairness anywhere.

## 4. Findings

1. **A stay need not be continuous** (`src/alarm.cpp:318`). `evaluate` is called for
   detections only. Frames without any leave the dwell running: somebody who crosses the
   region, leaves an empty picture and returns after the dwell time raises an alarm at
   once. `docs/mqtt_protocol.md:428` asks for a continuous stay.
2. **A passer-by prevents alarms** (`src/rule_engine.cpp:102`). Any detection that fails
   a test clears the one dwell of the engine, also in a frame with a person in the
   region after or before it. `docs/performance.md:389` says a stay of the dwell
   time increases `alarm_count`.
3. **The viewer's copy can be torn** (`src/web_viewer.cpp:461`). The local copy is meant
   to prevent it (comment at lines 458-459), but copies without checking `seq` again.
4. **Stale boxes** (`src/inference.cpp:209`). A detection whose clamped box is empty keeps
   its place in `detect_count`, with the box of an earlier frame in the slot. The result
   sent to the alarm thread is cleared first and has no such box (`ResultIsOfFrame`).

## 5. Proofs

Checked by TLAPS; every theorem holds for all values of the constants that satisfy the
named assumptions.

* **`RingQueueProofs`** (assuming `N \in Nat \ {0}` and that `Blank` is not an item).
  `Capacity` and `NoDataRace` are not inductive: that `push` sees room
  says nothing unless the release it saw is not newer than the consumer's index. `IInv`
  adds the order `pview <= read_ <= cview <= write_`, what each thread keeps between its
  test and its store, and that the slots between the indices hold items. `Invariance`
  proves it step by step; the arithmetic of `% N` comes from one lemma: two
  positions less than N apart are different slots. `Refinement` maps the store
  to `write_` to `Push`, the store to `read_` to `Pop` and every other step to a stutter.
* **`RulePolicyProofs`** (assuming `RuleAssumption`: clock and durations far from 2^64).
  `PolicyHolds` is `AlarmPolicy` for every dwell that is not negative, every cooldown and
  any number of calls; for a negative cooldown the deadline wraps around 2^64, and the case
  analysis is on whether the clock was older than it at the last alarm. The engine has
  four fields and the policy speaks of the whole history, so `EngineRemembers` says what
  the fields record: the dwell start is the earliest call of the unbroken run at the end
  of the history, the last alarm its latest alarm. `NegativeDwellSilences` follows from the
  cast. `TypeCorrect` is type correctness.
* **`PipelineProofs`** (assuming `ThreadsAssumption`, `InferenceAssumption` and
  `CaptureAssumption`: numbers of slots, detections, buffers and pictures are natural numbers). None of the properties is inductive: each speaks of one
  end of a chain that runs from the driver's buffers over two queues to a snapshot. `Inv`
  follows a picture along it. `CaptureInv` says who owns each buffer at each step (a buffer
  is queued, filled or held; together there are `NBUF`) and that filled buffers hold ever
  later pictures, all later than the last frame made. `FrameInv` orders the frames in
  `capture_queue` between the frame in hand and the last one made. `ResultInv` orders the
  results in `infer_queue` by frame and by the pictures of their boxes, and keeps the picture
  in shared memory at or after them. `BuffersNeverLost`, `SnapshotsNeverOlder`,
  `CountersAlwaysAgree`, the action property `ResultsAlwaysInOrder` and `TypeCorrect` follow.
  `CaptureQueueIsFifo` and `InferQueueIsFifo` say that the two queues, each with what its
  consumer took last, implement `BoundedFifo`, the specification `RingQueue` implements too.
* **`FrameSharingProofs`** (the same assumptions and `SharingAssumption`). `CopyIsFresh` speaks of
  the viewer after its copy; that a half is fresh when copied needs `WriterInv`: both halves in
  the segment are never older than anything announced, and are those of the frame in hand
  before `seq` announces it. `Viewed` carries this through the two steps of the `memcpy`.
  `CopiesAreFresh`, `NoSegmentIsLeft`, `ResultsAreOfFrame`, the action property
  `VideoMovesForward` and `TypeCorrect` follow. That a copy is of one picture is false
  (finding 3) and nowhere assumed.
* **`AlarmThreadProofs`** (assuming `AlarmAssumption` and `RuleAssumption`). The messages on the wire
  say nothing about the result in hand, so `Inv` adds where alarm_thread stands with it:
  `WireInOrder` (no raw detections of the frame before its alarms are out), `RawPublished`
  (while the connection holds, those of every earlier result are out), `Spaced` (no alarm was
  raised later than the engine remembers; the alarm in the making has the latest event
  number and no message yet), `RaisedTypes` (as many alarms raised as numbered),
  `AlarmsCounted`, `DetectsCounted` and `FramesCounted` (counter, messages, and the alarm or
  frame in the making). `MessagesInOrder`, `AlarmsKeepApart`, `CountersTellTheTruth` and
  `TypeCorrect` follow. The cooldown may be negative.
* **`EventDeliveryProofs`** (assuming `PayloadAssumption`: one object with the tail and the
  framing fits the margin, and the later buffers are not smaller than the first;
  `ServerAssumption`: there is at least one descriptor and one part fits a socket;
  `DeliveryAssumption`: the bounds are natural numbers).
  * `EventsWhole` says nothing of a message under way, so `WholeInv` adds the formatter's
    `Margins` and that each message in flight fits the buffers still ahead of it.
    `NothingIsCut` and `FormatterStaysInside` follow; the numbers in the code are 4096 for all
    three buffers, a margin of 256 and objects of fewer than 100 bytes.
  * `DeliveryInv` is about descriptors, connections and the broadcast. `Ownership`: each open
    descriptor is main's, a video thread's or one live entry of `sse_clients`, where the entry
    that `sse_broadcast` has closed and not erased yet is not live: its number may belong to
    another connection already. `Places` and `Connections`: what descriptors refer to in
    each place, and that a connection is behind one at most. `Answering` and `Shapes`:
    which parts a connection has been sent at each place of main. `InHand` and
    `Delivering`: in the middle of a broadcast the clients before `index` have the event and
    the ones after it have all but that one. `DescriptorsOwned`, `StreamsStayIntact` and
    `TypeCorrect` follow.
  * `FeedIsKept` is the refinement of `EventFeed`. A broadcast begins where `on_message` gets
    `sse_mtx` and is `Broadcast`; a successful write by it is `Hand`; `Register` is `Join`; a
    browser's leaving is `Leave`. Every other step is a stutter: in particular those of main,
    since what it sends on a connection is no event, and the erasing of a client, who left
    before. The guard of `Broadcast`, that everybody is up to date, is `Delivering` when the
    MQTT thread is idle.
* **`ServiceLifecycleProofs`** (assuming `LifecycleAssumption`): `NameIsHonest` is inductive as it
  stands; `RuleNeverMixed` rests on `LoadedIsWhole`, that a file cut anywhere loads as a complete
  one or as one without the section. `TypeCorrect` needs that `ftruncate` comes after a segment
  was created.

* **`RoiGeometryProofs`** (assuming `RoiAssumption`: a frame has a width and a height, an outline is
  a sequence of integer points, of any length). `isInsideRoi` counts crossings around an outline,
  and parities around a cycle would call for an induction over its points, which the
  provers cannot instantiate; the proofs make do with one.
  * `OrderIsFree`: `SameEdgesSameRegion` says that outlines with the same edges, in whatever
    order and direction, are the same region; rotation and reversal keep the edges.
  * `RayIsFree`: `TurnsAreEven` says that around a closed outline the edges that lead into or out
    of a set of points are even in number. (The one induction, over the length of the outline, by
    a least counterexample.) For a point on no edge, an edge crosses exactly one of two rays
    only if it leads into or out of what lies between them, so the two counts have one
    parity. The other rays follow by mirroring and transposing the plane.
  * `TrianglesAreExact`: with the point at the centre, the corners weighted by the areas opposite to
    them balance (`Balance`); the cases are how many corners lie above the ray.

Every safety invariant and action property of the passing runs is proved, and both
refinements that a run checks are.

Only model-checked:

* All liveness (`AcceptedIsTaken`, `PictureReachesViewer`, `Shutdown`, `BroadcastEnds`,
  `RequestServed`, `RestartHeals`), which the prover cannot handle under fairness.
* What the violation runs show.

## 6. Not modelled

* Text: the alarm and metrics payloads (whose buffers are smaller than the viewer's), event
  ids, log lines, overlays, JPEG; the frame rate, uptime and time stamp in the metrics.
* The model, OpenCV and libmosquitto inside; their results are inputs.
* Short frames of the camera: a dequeued buffer is taken as filled.
* Video of several clients at once: they share nothing but the segment they read and the
  descriptors, which `WebServer` models.
* What a browser does after the server closed its end, and partial writes: a part is
  written at once or not at all.
* The configuration's other sections, the command line, systemd's restart timer: in
  `ServiceLifecycle` a service may be started again at any time, or never. Two pipelines at
  once, started by hand beside the service.
* Allocation failures and exceptions other than the one in `get_int_value` and
  `parse_roi_points`.

## 7. Plan

In this order:

1. `Pipeline` over two `RingQueue`s: a push may see a full queue, and a pop an empty one, that is
   not. That this is the same as an earlier call is the argument of section 2, not a theorem.
2. `EventId`: second and `alarm_seq % 10000` under clock steps and restarts; snapshot
   files overwritten.
