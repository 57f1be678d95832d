------------------------- MODULE DetectionPipeline -------------------------
(***************************************************************************)
(* The on-device detection pipeline of main/main.cpp,                      *)
(* components/vigo_camera/motion_detector.cpp and                          *)
(* components/vigo_camera/surveillance_pipeline.cpp:                       *)
(*                                                                         *)
(*   camera_task     core 1, priority 5: copies a frame into               *)
(*                   detection_buffer_ when detection_idle_sem_ is free    *)
(*   detection_task  core 0, priority 4: process_frame_async, which starts *)
(*                   the PPA without waiting for it                        *)
(*   PPA             hardware: scales the frame, then interrupts           *)
(*   motion_worker   core 0, priority 5: compares, runs the pedestrian     *)
(*                   detector, queues the event, gives idle back           *)
(*   motion_upload   core 0, priority 2: posts and frees queued events     *)
(*                                                                         *)
(* async_frame_ = frame copies a CameraFrameBuffer, which copies the       *)
(* pointer: every read of async_frame_ reads detection_buffer.             *)
(***************************************************************************)
EXTENDS Integers

CONSTANTS Scene,           \* pictures the camera can deliver
          NoScene,         \* contents of a buffer that holds no whole picture
          MotionQueueLen   \* length of motion_queue_ (5 in main.cpp)

ASSUME SceneAssumption == NoScene \notin Scene
ASSUME QueueAssumption == MotionQueueLen \in Nat \ {0}

VARIABLES
  camera_pc,                   \* camera_task: where it is in its loop
  camera_frame,                \* picture returned by the last capture()
  detection_idle_sem,          \* binary semaphore, given at start-up
  detection_start_sem,         \* binary semaphore, initially empty
  detection_buffer,            \* picture in detection_buffer_
  detection_pc,                \* detection_task: where it is
  ppa_started,                 \* local of process_frame_async
  is_processing,               \* MotionDetector::is_processing_
  ppa_used_for_current_frame,  \* MotionDetector::ppa_used_for_current_frame_
  ppa_busy,                    \* the PPA reads the frame and writes current_gray
  notified,                    \* notification count of the motion worker
  worker_pc,                   \* motion worker: where it is
  used_ppa,                    \* local of worker_loop
  report_motion,               \* local of worker_loop, then result.motion_detected
  current_gray, prev_gray,     \* the two half-size pictures that are compared
  motion_queue,                \* number of payload pointers in motion_queue_
  uploading,                   \* motion_upload_task holds a payload
  payloads                     \* MotionEventPayload objects on the heap

cameraVars    == <<camera_pc, camera_frame>>
handoffVars   == <<detection_idle_sem, detection_start_sem, detection_buffer>>
detectionVars == <<detection_pc, ppa_started, is_processing, ppa_used_for_current_frame>>
ppaVars       == <<ppa_busy, notified>>
workerVars    == <<worker_pc, used_ppa, report_motion>>
grayVars      == <<current_gray, prev_gray>>
payloadVars   == <<motion_queue, uploading, payloads>>

vars == <<cameraVars, handoffVars, detectionVars, ppaVars, workerVars, grayVars,
          payloadVars>>

(***************************************************************************)
(* A gray picture remembers which converter wrote it: the PPA leaves       *)
(* interleaved YUV420, the CPU loop one byte per pixel.  A vector that was *)
(* never filled (prev_gray_buf_.empty()) has scene NoScene.                *)
(***************************************************************************)
Layout == {"yuv420", "gray"}
Gray   == [layout : Layout, scene : Scene \cup {NoScene}]

CameraPc    == {"capture", "offer", "copy"}
DetectionPc == {"wait", "claim", "start_ppa", "set_flag", "notify"}
WorkerPc    == {"blocked", "convert", "compare", "detect", "collect",
                "send", "give", "unlock"}

TypeOK ==
  /\ camera_pc \in CameraPc
  /\ camera_frame \in Scene \cup {NoScene}
  /\ detection_idle_sem \in {0, 1}
  /\ detection_start_sem \in {0, 1}
  /\ detection_buffer \in Scene \cup {NoScene}
  /\ detection_pc \in DetectionPc
  /\ ppa_started \in BOOLEAN
  /\ is_processing \in BOOLEAN
  /\ ppa_used_for_current_frame \in BOOLEAN
  /\ ppa_busy \in BOOLEAN
  /\ notified \in Nat
  /\ worker_pc \in WorkerPc
  /\ used_ppa \in BOOLEAN
  /\ report_motion \in BOOLEAN
  /\ current_gray \in Gray
  /\ prev_gray \in Gray
  /\ motion_queue \in 0..MotionQueueLen
  /\ uploading \in BOOLEAN
  /\ payloads \in Int

Init ==
  /\ camera_pc = "capture"
  /\ camera_frame = NoScene
  /\ detection_idle_sem = 1
  /\ detection_start_sem = 0
  /\ detection_buffer = NoScene
  /\ detection_pc = "wait"
  /\ ppa_started = FALSE
  /\ is_processing = FALSE
  /\ ppa_used_for_current_frame = FALSE
  /\ ppa_busy = FALSE
  /\ notified = 0
  /\ worker_pc = "blocked"
  /\ used_ppa = FALSE
  /\ report_motion = FALSE
  /\ current_gray = [layout |-> "gray", scene |-> NoScene]
  /\ prev_gray = [layout |-> "gray", scene |-> NoScene]
  /\ motion_queue = 0
  /\ uploading = FALSE
  /\ payloads = 0

-----------------------------------------------------------------------------
(***************************************************************************)
(* camera_task.  The slice of the loop that feeds the detector; encoding,  *)
(* snapshots and streaming do not touch these variables.  A failed         *)
(* capture() retries after 100 ms and is a stuttering step here.           *)
(***************************************************************************)
CameraCapture ==
  /\ camera_pc = "capture"
  /\ camera_frame' \in Scene
  /\ camera_pc' = "offer"
  /\ UNCHANGED <<handoffVars, detectionVars, ppaVars, workerVars, grayVars,
                 payloadVars>>

\* Slip: the frame is copied without asking whether the detector is idle.
OfferUnasked ==
  /\ camera_pc = "offer"
  /\ detection_idle_sem' = 0
  /\ detection_buffer' = NoScene
  /\ camera_pc' = "copy"
  /\ UNCHANGED <<camera_frame, detection_start_sem, detectionVars, ppaVars, workerVars,
                 grayVars, payloadVars>>

\* xSemaphoreTake(detection_idle_sem_, 0) succeeded: the memcpy starts.
OfferTaken ==
  /\ camera_pc = "offer"
  /\ detection_idle_sem = 1
  /\ detection_idle_sem' = 0
  /\ detection_buffer' = NoScene
  /\ camera_pc' = "copy"
  /\ UNCHANGED <<camera_frame, detection_start_sem, detectionVars, ppaVars, workerVars,
                 grayVars, payloadVars>>

\* The detector is busy: the frame is encoded and streamed, not analysed.
OfferSkipped ==
  /\ camera_pc = "offer"
  /\ detection_idle_sem = 0
  /\ camera_pc' = "capture"
  /\ UNCHANGED <<camera_frame, handoffVars, detectionVars, ppaVars, workerVars,
                 grayVars, payloadVars>>

\* Slip: the wrong semaphore is given after the copy.
CopyDoneGivesIdle ==
  /\ camera_pc = "copy"
  /\ detection_buffer' = camera_frame
  /\ detection_idle_sem' = 1
  /\ camera_pc' = "capture"
  /\ UNCHANGED <<camera_frame, detection_start_sem, detectionVars, ppaVars, workerVars,
                 grayVars, payloadVars>>

\* The memcpy ends and detection_start_sem_ is given.
CopyDone ==
  /\ camera_pc = "copy"
  /\ detection_buffer' = camera_frame
  /\ detection_start_sem' = 1
  /\ camera_pc' = "capture"
  /\ UNCHANGED <<camera_frame, detection_idle_sem, detectionVars, ppaVars, workerVars,
                 grayVars, payloadVars>>

-----------------------------------------------------------------------------
(***************************************************************************)
(* Fixed-priority scheduling on core 0.  The worker and detection_task are *)
(* both pinned there, so detection_task runs only while the worker is      *)
(* blocked: on its notification, or inside detect() and collect(), which   *)
(* wait for the accelerators.                                              *)
(***************************************************************************)
\* Slip: detection_task is created at the worker's priority.
DetectionPriorityRaised == 5

DetectionPriority == 4
WorkerPriority    == 5

WorkerReady ==
  IF worker_pc = "blocked" THEN notified > 0
                           ELSE worker_pc \notin {"detect", "collect"}

DetectionMayRun == WorkerReady => DetectionPriority >= WorkerPriority

\* detection_task takes the start semaphore and calls process_frame_async.
DetectionTake ==
  /\ DetectionMayRun
  /\ detection_pc = "wait"
  /\ detection_start_sem = 1
  /\ detection_start_sem' = 0
  /\ detection_pc' = "claim"
  /\ UNCHANGED <<cameraVars, detection_idle_sem, detection_buffer, ppa_started,
                 is_processing, ppa_used_for_current_frame, ppaVars, workerVars,
                 grayVars, payloadVars>>

\* compare_exchange on is_processing_.  When the worker still holds it the
\* frame is dropped and nobody gives detection_idle_sem_ back.
Claim ==
  /\ DetectionMayRun
  /\ detection_pc = "claim"
  /\ is_processing' = TRUE
  /\ detection_pc' = IF is_processing THEN "wait" ELSE "start_ppa"
  /\ UNCHANGED <<cameraVars, handoffVars, ppa_started, ppa_used_for_current_frame,
                 ppaVars, workerVars, grayVars, payloadVars>>

\* ppa_do_scale_rotate_mirror, non-blocking: it starts, or reports an error (or
\* there is no PPA client).
StartPpa ==
  /\ DetectionMayRun
  /\ detection_pc = "start_ppa"
  /\ ppa_started' \in BOOLEAN
  /\ ppa_busy' = ppa_started'
  /\ detection_pc' = "set_flag"
  /\ UNCHANGED <<cameraVars, handoffVars, is_processing, ppa_used_for_current_frame,
                 notified, workerVars, grayVars, payloadVars>>

\* The flag the worker reads is written only now, after the PPA was started.
SetFlag ==
  /\ DetectionMayRun
  /\ detection_pc = "set_flag"
  /\ ppa_used_for_current_frame' = ppa_started
  /\ detection_pc' = IF ppa_started THEN "wait" ELSE "notify"
  /\ UNCHANGED <<cameraVars, handoffVars, ppa_started, is_processing, ppaVars,
                 workerVars, grayVars, payloadVars>>

\* CPU fallback: the worker is notified by hand.
NotifyWorker ==
  /\ DetectionMayRun
  /\ detection_pc = "notify"
  /\ notified' = notified + 1
  /\ detection_pc' = "wait"
  /\ UNCHANGED <<cameraVars, handoffVars, ppa_started, is_processing,
                 ppa_used_for_current_frame, ppa_busy, workerVars, grayVars,
                 payloadVars>>

\* The PPA has written the scaled picture; ppa_motion_done_cb runs in its interrupt.
PpaDone ==
  /\ ppa_busy
  /\ ppa_busy' = FALSE
  /\ current_gray' = [layout |-> "yuv420", scene |-> detection_buffer]
  /\ notified' = notified + 1
  /\ UNCHANGED <<cameraVars, handoffVars, detectionVars, workerVars, prev_gray,
                 payloadVars>>

-----------------------------------------------------------------------------
(***************************************************************************)
(* worker_loop, with the callbacks it calls: the one SurveillancePipeline  *)
(* installs and, inside it, the one Device::start installs.                *)
(***************************************************************************)
\* ulTaskNotifyTake(pdTRUE, portMAX_DELAY) clears the count; then the flag is read.
WorkerWake ==
  /\ worker_pc = "blocked"
  /\ notified > 0
  /\ notified' = 0
  /\ used_ppa' = ppa_used_for_current_frame
  /\ worker_pc' = "convert"
  /\ UNCHANGED <<cameraVars, handoffVars, detectionVars, ppa_busy, report_motion,
                 grayVars, payloadVars>>

\* Without the PPA the worker converts the frame itself.
Convert ==
  /\ worker_pc = "convert"
  /\ current_gray' = IF used_ppa THEN current_gray
                     ELSE [layout |-> "gray", scene |-> detection_buffer]
  /\ worker_pc' = "compare"
  /\ UNCHANGED <<cameraVars, handoffVars, detectionVars, ppaVars, used_ppa,
                 report_motion, prev_gray, payloadVars>>

\* Two pictures in one layout differ only if the scenes differ; two layouts read
\* as one can differ in any number of points.
MayDiffer(a, b) == a.layout = b.layout => a.scene # b.scene

\* The first frame only becomes the reference.  Afterwards motion may be reported
\* when enough points differ; the cooldown may still suppress it.
Compare ==
  /\ worker_pc = "compare"
  /\ report_motion' \in
       IF prev_gray.scene # NoScene /\ MayDiffer(prev_gray, current_gray)
         THEN BOOLEAN ELSE {FALSE}
  /\ prev_gray' = current_gray
  /\ current_gray' = prev_gray
  /\ worker_pc' = "detect"
  /\ UNCHANGED <<cameraVars, handoffVars, detectionVars, ppaVars, used_ppa,
                 payloadVars>>

\* Pedestrian scan, only after motion; a detection or a discarded candidate confirms.
Detect ==
  /\ worker_pc = "detect"
  /\ worker_pc' \in IF report_motion THEN {"collect", "give"} ELSE {"give"}
  /\ UNCHANGED <<cameraVars, handoffVars, detectionVars, ppaVars, used_ppa,
                 report_motion, grayVars, payloadVars>>

\* collect(&frame): an empty snapshot ends the event, otherwise a payload is made.
Collect ==
  /\ worker_pc = "collect"
  /\ \/ worker_pc' = "give" /\ UNCHANGED payloads
     \/ worker_pc' = "send" /\ payloads' = payloads + 1
  /\ UNCHANGED <<cameraVars, handoffVars, detectionVars, ppaVars, used_ppa,
                 report_motion, grayVars, motion_queue, uploading>>

\* Slip: a refused payload is not deleted.
SendLeaks ==
  /\ worker_pc = "send"
  /\ worker_pc' = "give"
  /\ motion_queue' = IF motion_queue < MotionQueueLen THEN motion_queue + 1
                                                      ELSE motion_queue
  /\ UNCHANGED <<cameraVars, handoffVars, detectionVars, ppaVars, used_ppa,
                 report_motion, grayVars, uploading, payloads>>

\* Slip: the queue is taken for unbounded.
SendUnbounded ==
  /\ worker_pc = "send"
  /\ worker_pc' = "give"
  /\ motion_queue' = motion_queue + 1
  /\ UNCHANGED <<cameraVars, handoffVars, detectionVars, ppaVars, used_ppa,
                 report_motion, grayVars, uploading, payloads>>

\* xQueueSend(..., 0): a full queue refuses the pointer and the payload is deleted.
Send ==
  /\ worker_pc = "send"
  /\ worker_pc' = "give"
  /\ \/ /\ motion_queue < MotionQueueLen
        /\ motion_queue' = motion_queue + 1
        /\ UNCHANGED payloads
     \/ /\ motion_queue = MotionQueueLen
        /\ payloads' = payloads - 1
        /\ UNCHANGED motion_queue
  /\ UNCHANGED <<cameraVars, handoffVars, detectionVars, ppaVars, used_ppa,
                 report_motion, grayVars, uploading>>

\* Slip: only a confirmed or reported motion gives the detector back.
GiveIdleAfterMotion ==
  /\ worker_pc = "give"
  /\ detection_idle_sem' = IF report_motion THEN 1 ELSE detection_idle_sem
  /\ worker_pc' = "unlock"
  /\ UNCHANGED <<cameraVars, detection_start_sem, detection_buffer, detectionVars,
                 ppaVars, used_ppa, report_motion, grayVars, payloadVars>>

\* The callback's last statement, whatever the result was.
GiveIdle ==
  /\ worker_pc = "give"
  /\ detection_idle_sem' = 1
  /\ worker_pc' = "unlock"
  /\ UNCHANGED <<cameraVars, detection_start_sem, detection_buffer, detectionVars,
                 ppaVars, used_ppa, report_motion, grayVars, payloadVars>>

Unlock ==
  /\ worker_pc = "unlock"
  /\ is_processing' = FALSE
  /\ worker_pc' = "blocked"
  /\ UNCHANGED <<cameraVars, handoffVars, detection_pc, ppa_started,
                 ppa_used_for_current_frame, ppaVars, used_ppa, report_motion, grayVars,
                 payloadVars>>

-----------------------------------------------------------------------------
\* motion_upload_task.
UploadReceive ==
  /\ ~uploading
  /\ motion_queue > 0
  /\ motion_queue' = motion_queue - 1
  /\ uploading' = TRUE
  /\ UNCHANGED <<cameraVars, handoffVars, detectionVars, ppaVars, workerVars, grayVars,
                 payloads>>

\* send_motion_event returned, with or without an error: the payload is deleted.
UploadDone ==
  /\ uploading
  /\ uploading' = FALSE
  /\ payloads' = payloads - 1
  /\ UNCHANGED <<cameraVars, handoffVars, detectionVars, ppaVars, workerVars, grayVars,
                 motion_queue>>

-----------------------------------------------------------------------------
CameraTask    == CameraCapture \/ OfferTaken \/ OfferSkipped \/ CopyDone
DetectionTask == DetectionTake \/ Claim \/ StartPpa \/ SetFlag \/ NotifyWorker
MotionWorker  == \/ WorkerWake \/ Convert \/ Compare \/ Detect
                 \/ Collect \/ Send \/ GiveIdle \/ Unlock
MotionUpload  == UploadReceive \/ UploadDone

Next == CameraTask \/ DetectionTask \/ PpaDone \/ MotionWorker \/ MotionUpload

\* The tasks are infinite loops that the scheduler keeps running (core 0's idle
\* time is what remains when the worker blocks), and the PPA finishes what it starts.
Fairness ==
  /\ WF_vars(CameraTask)
  /\ WF_vars(DetectionTask)
  /\ WF_vars(PpaDone)
  /\ WF_vars(MotionWorker)
  /\ WF_vars(MotionUpload)

SafeSpec == Init /\ [][Next]_vars
Spec     == SafeSpec /\ Fairness

-----------------------------------------------------------------------------
(***************************************************************************)
(* Properties                                                              *)
(***************************************************************************)
\* Who holds the one right to use detection_buffer.
CopyHolds      == camera_pc = "copy"
DetectionHolds == \/ detection_pc \in {"claim", "start_ppa"}
                  \/ detection_pc \in {"set_flag", "notify"} /\ ~ppa_started
WorkerHolds    == worker_pc \notin {"blocked", "unlock"}

Count(b) == IF b THEN 1 ELSE 0

\* The right to use detection_buffer is never lost and never doubled: it is in the
\* idle semaphore, the start semaphore, the camera's copy, process_frame_async, the
\* PPA, the pending notification or the worker, and in exactly one of them.  Two
\* holders would mean a frame overwritten while it is analysed; none would mean a
\* detector that never analyses again, because only the worker's callback gives
\* detection_idle_sem_ back.
OneHolder ==
  detection_idle_sem + detection_start_sem + Count(CopyHolds) + Count(DetectionHolds)
    + Count(ppa_busy) + notified + Count(WorkerHolds) = 1

\* From the moment motion is decided to the moment the event is queued, the frame
\* the pedestrian detector and the snapshot encoder read through async_frame_ is the
\* one whose half-size picture was compared: evidence shows what triggered it.
EvidenceMatches ==
  worker_pc \in {"detect", "collect", "send"} =>
    /\ detection_buffer # NoScene
    /\ prev_gray.scene = detection_buffer

\* Every MotionEventPayload on the heap is reachable from exactly one place: the
\* queue, the worker that is about to send it, or the upload in progress.  So none
\* leaks, none is freed twice and at most MotionQueueLen + 2 exist.
PayloadsOwned ==
  payloads = motion_queue + Count(worker_pc = "send") + Count(uploading)

\* A frame that was handed over is analysed and the detector becomes idle again, under
\* the scheduler's and the PPA's fairness: no interleaving of the early
\* xSemaphoreGive and the late is_processing_ store wedges the pipeline.
FrameFinishes == detection_start_sem = 1 ~> detection_idle_sem = 1

\* The pipeline implements the abstract hand-off of one slot.
Handoff == INSTANCE FrameHandoff WITH
  slot    <- IF detection_idle_sem = 1 THEN "free"
             ELSE IF CopyHolds THEN "filling"
             ELSE IF detection_start_sem = 1 THEN "full" ELSE "busy",
  content <- detection_buffer

HandoffSpec == Handoff!Spec

\* tests/unit/main/test_main.cpp says that two identical frames in a row cause no
\* motion.  The code compares whatever layouts the two conversions left behind.
IdenticalFramesQuiet ==
  [][Compare /\ prev_gray.scene = current_gray.scene => ~report_motion']_vars

=============================================================================
