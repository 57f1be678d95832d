------------------------- MODULE TelemetrySnapshot -------------------------
(***************************************************************************)
(* The two users of the camera in main/main.cpp: camera_task, which        *)
(* captures and encodes for ever, and telemetry_task, which asks it for a  *)
(* copy of a frame with request_telemetry_snapshot_ and, when the copy is  *)
(* not there in time, calls capture() itself (TelemetryCollector::collect  *)
(* with no frame).                                                         *)
(*                                                                         *)
(* The detector hand-off in the same loop is DetectionPipeline; streaming  *)
(* and heartbeat handling do not touch these variables.                    *)
(*                                                                         *)
(* The self-test's capture() comes before either task exists.  When it     *)
(* failed the tasks start as Init says, or some frames later; when it      *)
(* succeeded they start with its buffer in last_trans, which is also how   *)
(* camera_task leaves things after a first frame that was not encoded.     *)
(***************************************************************************)
EXTENDS CameraBuffers

CONSTANTS cameraTask, telemetryTask

ASSUME TaskAssumption == cameraTask # telemetryTask /\ Task = {cameraTask, telemetryTask}

VARIABLES
  camera_pc, telemetry_pc,
  request_telemetry_snapshot,
  has_latest_frame,
  latest_frame_mutex,         \* held by camera_task while it copies
  latest_age,                 \* telemetry cycles begun since latest_frame_ was copied
  telemetry_captured          \* history: telemetry_task has called capture()

snapshotVars == <<request_telemetry_snapshot, has_latest_frame, latest_frame_mutex,
                  latest_age>>
vars == <<bufferVars, camera_pc, telemetry_pc, snapshotVars, telemetry_captured>>

MaxAge == 2   \* ages from here on are not told apart

CameraPc    == {"loop", "capturing", "encode", "check", "copy", "clear_request"}
TelemetryPc == {"request", "wait", "take", "collect", "capturing", "heartbeat"}

TypeOK ==
  /\ BufferTypeOK
  /\ camera_pc \in CameraPc
  /\ telemetry_pc \in TelemetryPc
  /\ request_telemetry_snapshot \in BOOLEAN
  /\ has_latest_frame \in BOOLEAN
  /\ latest_frame_mutex \in BOOLEAN
  /\ latest_age \in 0..MaxAge
  /\ telemetry_captured \in BOOLEAN

Init ==
  /\ BufferInit
  /\ camera_pc = "loop"
  /\ telemetry_pc = "request"
  /\ request_telemetry_snapshot = FALSE
  /\ has_latest_frame = FALSE
  /\ latest_frame_mutex = FALSE
  /\ latest_age = 0
  /\ telemetry_captured = FALSE

-----------------------------------------------------------------------------
\* camera_task
CameraLoop ==
  /\ camera_pc = "loop"
  /\ CallCapture(cameraTask)
  /\ camera_pc' = "capturing"
  /\ UNCHANGED <<telemetry_pc, snapshotVars, telemetry_captured>>

\* capture() returned: with a frame it is encoded, without one the loop starts again
\* after 100 ms.
CameraCaptured ==
  /\ camera_pc = "capturing"
  /\ capture_pc[cameraTask] = "out"
  /\ camera_pc' = IF frame[cameraTask] = NoBuffer THEN "loop" ELSE "encode"
  /\ UNCHANGED <<bufferVars, telemetry_pc, snapshotVars, telemetry_captured>>

\* The encoder reads the frame; a frame it rejects serves no snapshot request.
Encode ==
  /\ camera_pc = "encode"
  /\ camera_pc' \in {"check", "loop"}
  /\ UNCHANGED <<bufferVars, telemetry_pc, snapshotVars, telemetry_captured>>

CheckRequest ==
  /\ camera_pc = "check"
  /\ camera_pc' = IF request_telemetry_snapshot THEN "copy" ELSE "loop"
  /\ UNCHANGED <<bufferVars, telemetry_pc, snapshotVars, telemetry_captured>>

\* Slip: the request flag is reset before the frame is there.
CopyLatestClearsFirst ==
  /\ camera_pc = "copy"
  /\ request_telemetry_snapshot' = FALSE
  /\ camera_pc' = "clear_request"
  /\ UNCHANGED <<bufferVars, telemetry_pc, has_latest_frame, latest_frame_mutex,
                 latest_age, telemetry_captured>>

\* Under latest_frame_mutex_: memcpy and has_latest_frame_ = true ...
CopyLatest ==
  /\ camera_pc = "copy"
  /\ ~latest_frame_mutex
  /\ latest_frame_mutex' = TRUE
  /\ has_latest_frame' = TRUE
  /\ latest_age' = 0
  /\ camera_pc' = "clear_request"
  /\ UNCHANGED <<bufferVars, telemetry_pc, request_telemetry_snapshot,
                 telemetry_captured>>

\* ... then the request is reset and the lock released.
ClearRequest ==
  /\ camera_pc = "clear_request"
  /\ request_telemetry_snapshot' = FALSE
  /\ latest_frame_mutex' = FALSE
  /\ camera_pc' = "loop"
  /\ UNCHANGED <<bufferVars, telemetry_pc, has_latest_frame, latest_age,
                 telemetry_captured>>

-----------------------------------------------------------------------------
\* telemetry_task
RequestSnapshot ==
  /\ telemetry_pc = "request"
  /\ request_telemetry_snapshot' = TRUE
  /\ latest_age' = IF latest_age < MaxAge THEN latest_age + 1 ELSE MaxAge
  /\ telemetry_pc' = "wait"
  /\ UNCHANGED <<bufferVars, camera_pc, has_latest_frame, latest_frame_mutex,
                 telemetry_captured>>

SnapshotServed ==
  /\ telemetry_pc = "wait"
  /\ ~request_telemetry_snapshot
  /\ telemetry_pc' = "take"
  /\ UNCHANGED <<bufferVars, camera_pc, snapshotVars, telemetry_captured>>

\* wait_cycles reached 20 (200 ms): the request stays up.
SnapshotTimeout ==
  /\ telemetry_pc = "wait"
  /\ request_telemetry_snapshot
  /\ telemetry_pc' = "take"
  /\ UNCHANGED <<bufferVars, camera_pc, snapshotVars, telemetry_captured>>

\* Slip: has_latest_frame_ is not reset for the next demand cycle.
TakeLatestKeeps ==
  /\ telemetry_pc = "take"
  /\ ~latest_frame_mutex
  /\ telemetry_pc' = IF has_latest_frame THEN "heartbeat" ELSE "collect"
  /\ UNCHANGED <<bufferVars, camera_pc, request_telemetry_snapshot, has_latest_frame,
                 latest_frame_mutex, latest_age, telemetry_captured>>

\* One critical section of latest_frame_mutex_: copy the frame out if there is one.
TakeLatest ==
  /\ telemetry_pc = "take"
  /\ ~latest_frame_mutex
  /\ has_latest_frame' = FALSE
  /\ telemetry_pc' = IF has_latest_frame THEN "heartbeat" ELSE "collect"
  /\ UNCHANGED <<bufferVars, camera_pc, request_telemetry_snapshot,
                 latest_frame_mutex, latest_age, telemetry_captured>>

\* collect(nullptr) captures a frame of its own ...
CollectCaptures ==
  /\ telemetry_pc = "collect"
  /\ CallCapture(telemetryTask)
  /\ telemetry_captured' = TRUE
  /\ telemetry_pc' = "capturing"
  /\ UNCHANGED <<camera_pc, snapshotVars>>

\* ... and the heartbeat is sent with it or, when capture() failed, without a picture.
CollectDone ==
  /\ telemetry_pc = "capturing"
  /\ capture_pc[telemetryTask] = "out"
  /\ telemetry_pc' = "heartbeat"
  /\ UNCHANGED <<bufferVars, camera_pc, snapshotVars, telemetry_captured>>

\* Heartbeat and its consequences, then the delay to the next cycle; local_frame of
\* collect() is gone by then.
HeartbeatSent ==
  /\ telemetry_pc = "heartbeat"
  /\ frame' = [frame EXCEPT ![telemetryTask] = NoBuffer]
  /\ telemetry_pc' = "request"
  /\ UNCHANGED <<csi_queue, dma, frame_ready_que, has_last_transaction, last_trans,
                 capture_pc, overlapped, camera_pc, snapshotVars, telemetry_captured>>

-----------------------------------------------------------------------------
CameraTask ==
  \/ CameraLoop \/ CameraCaptured \/ Encode \/ CheckRequest \/ CopyLatest
  \/ ClearRequest

TelemetryTask ==
  \/ RequestSnapshot \/ SnapshotServed \/ SnapshotTimeout \/ TakeLatest
  \/ CollectCaptures \/ CollectDone \/ HeartbeatSent

Driver ==
  /\ FrameEnd \/ \E t \in Task : CaptureStep(t)
  /\ UNCHANGED <<camera_pc, telemetry_pc, snapshotVars, telemetry_captured>>

Next == CameraTask \/ TelemetryTask \/ Driver

Spec == Init /\ [][Next]_vars

-----------------------------------------------------------------------------
\* As long as no two calls of capture() overlap, whichever tasks make them, every DMA
\* buffer is in exactly one place: none is lost to the controller for good, and the
\* interrupt's queue, as long as there are buffers, never has to drop a finished one.
\* More is needed for the frame that is being read: it is out of the controller's reach
\* until telemetry_task calls capture() for the first time.
BuffersConservedApart ==
  /\ ~overlapped => Conserved
  /\ ~telemetry_captured => NoFrameOverwritten

\* A request that was answered in time was answered with a frame: telemetry_task
\* never falls back to capture() after camera_task reset the flag.
ServedMeansFrame ==
  telemetry_pc = "wait" /\ ~request_telemetry_snapshot => has_latest_frame

\* A copy that arrived after its request timed out is used in the following cycle at
\* the latest; it never survives two heartbeats.
SnapshotAgeBounded == has_latest_frame => latest_age <= 1

\* camera.cpp: the controller may overwrite a buffer "only after the host has finished
\* encoding it".
EncodedFrameIntact ==
  camera_pc = "encode" => ~WithController(frame[cameraTask])

=============================================================================
