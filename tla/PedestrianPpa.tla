--------------------------- MODULE PedestrianPpa ---------------------------
(***************************************************************************)
(* PedestrianDetector::detect of components/vigo_camera/                   *)
(* pedestrian_detector.cpp: the step Detect of DetectionPipeline, seen     *)
(* from inside.  The motion worker scales the frame with a PPA transaction *)
(* of its own, waits 100 ms for its interrupt and otherwise converts the   *)
(* frame itself; then the neural network reads the picture.                *)
(*                                                                         *)
(* A transaction that is given up is not cancelled: it goes on reading     *)
(* detection_buffer_ and writing inference_frame_, and its interrupt gives *)
(* ppa_sem_ to whoever takes it next.  The simulated pedestrian of the     *)
(* unit tests is left out, and so is what the network finds.               *)
(***************************************************************************)
EXTENDS Naturals

CONSTANTS Scene,      \* pictures a frame can show
          NoScene     \* contents that are not one whole picture of one frame

ASSUME SceneAssumption == NoScene \notin Scene

VARIABLES
  ppa_client,        \* the PPA client was registered and ppa_sem_ created
  callback,          \* on_trans_done was registered
  detect_pc,         \* where detect() is; "out" between two calls
  buffer,            \* picture in detection_buffer_, the frame of detect()
  ppa_sem,           \* binary semaphore, initially empty
  writing,           \* who is writing inference_frame_
  output,            \* per writer: the picture that will result if nobody interferes
  inference,         \* inference_frame_
  using_uyvy,        \* local of detect(): how inference_frame_ is read
  seen,              \* picture in rgb_inference_frame, the input of the network
  debug_frame,       \* debug_frame_
  clean              \* history: detect() began with nothing left over by an earlier
                     \* call and its wait has not timed out

setupVars   == <<ppa_client, callback>>
pictureVars == <<writing, output, inference>>
resultVars  == <<seen, debug_frame>>

vars == <<setupVars, detect_pc, buffer, ppa_sem, pictureVars, using_uyvy, resultVars,
          clean>>

Writer   == {"ppa", "cpu"}
Layout   == {"interleaved", "planar"}
Contents == Scene \cup {NoScene}
Picture  == [layout : Layout, scene : Contents]
DetectPc == {"out", "start", "wait", "fall_back", "convert", "infer", "publish"}

\* The PPA leaves interleaved YUV420, the CPU loops leave planes.
LayoutOf(w) == IF w = "ppa" THEN "interleaved" ELSE "planar"

TypeOK ==
  /\ ppa_client \in BOOLEAN
  /\ callback \in BOOLEAN
  /\ detect_pc \in DetectPc
  /\ buffer \in Contents
  /\ ppa_sem \in {0, 1}
  /\ writing \in SUBSET Writer
  /\ output \in [Writer -> Contents]
  /\ inference \in Picture
  /\ using_uyvy \in BOOLEAN
  /\ seen \in Contents
  /\ debug_frame \in [has_frame : BOOLEAN, is_uyvy : BOOLEAN, picture : Picture]
  /\ clean \in BOOLEAN

\* inference_frame_ is allocated and filled with zeros.
NoPicture == [layout |-> "planar", scene |-> NoScene]

\* The constructor goes on when the client or its callback cannot be registered.
Init ==
  /\ ppa_client \in BOOLEAN
  /\ callback \in BOOLEAN
  /\ detect_pc = "out"
  /\ buffer = NoScene
  /\ ppa_sem = 0
  /\ writing = {}
  /\ output = [w \in Writer |-> NoScene]
  /\ inference = NoPicture
  /\ using_uyvy = FALSE
  /\ seen = NoScene
  /\ debug_frame = [has_frame |-> FALSE, is_uyvy |-> FALSE, picture |-> NoPicture]
  /\ clean = TRUE

-----------------------------------------------------------------------------
(***************************************************************************)
(* Writers of inference_frame_.  Two at a time leave a mixture.            *)
(***************************************************************************)
\* The picture is not whole from now on, and will be only if w stays alone.
BeginWriting(w) ==
  /\ writing' = writing \cup {w}
  /\ inference' = [inference EXCEPT !.scene = NoScene]
  /\ output' = IF writing = {} THEN [output EXCEPT ![w] = buffer]
                               ELSE [v \in Writer |-> NoScene]

EndWriting(w) ==
  /\ writing' = writing \ {w}
  /\ inference' = [layout |-> LayoutOf(w),
                   scene  |-> IF writing = {w} THEN output[w] ELSE NoScene]
  /\ UNCHANGED output

-----------------------------------------------------------------------------
(***************************************************************************)
(* The owners of the frame.  Once the callback that called detect() has    *)
(* returned, camera_task may copy the next frame into detection_buffer_;   *)
(* OneHolder of DetectionPipeline keeps it from doing so earlier.          *)
(***************************************************************************)
\* The copy spoils what a transaction that is still running reads.
CameraCopies ==
  /\ detect_pc = "out"
  /\ buffer' \in Scene
  /\ output' = [output EXCEPT !["ppa"] = NoScene]
  /\ UNCHANGED <<setupVars, detect_pc, ppa_sem, writing, inference, using_uyvy,
                 resultVars, clean>>

\* Nothing is left over by an earlier call.
Quiet == ppa_sem = 0 /\ writing = {}

\* The motion worker has decided that there is motion in the frame.
Enter ==
  /\ detect_pc = "out"
  /\ buffer \in Scene
  /\ detect_pc' = IF ppa_client THEN "start" ELSE "fall_back"
  /\ using_uyvy' = FALSE
  /\ clean' = Quiet
  /\ UNCHANGED <<setupVars, buffer, ppa_sem, pictureVars, resultVars>>

-----------------------------------------------------------------------------
(***************************************************************************)
(* The PPA transaction, and the fall-back.                                 *)
(***************************************************************************)
\* ppa_do_scale_rotate_mirror, non-blocking.  max_pending_trans_num is 1: the driver
\* refuses a second transaction; it may also refuse the first.
StartPpa ==
  /\ detect_pc = "start"
  /\ \/ /\ "ppa" \notin writing
        /\ BeginWriting("ppa")
        /\ detect_pc' = "wait"
     \/ /\ detect_pc' = "fall_back"
        /\ UNCHANGED pictureVars
  /\ UNCHANGED <<setupVars, buffer, ppa_sem, using_uyvy, resultVars, clean>>

\* Slip: the semaphore counts.
PpaDoneCounts ==
  /\ "ppa" \in writing
  /\ EndWriting("ppa")
  /\ ppa_sem' = IF callback THEN ppa_sem + 1 ELSE ppa_sem
  /\ UNCHANGED <<setupVars, detect_pc, buffer, using_uyvy, resultVars, clean>>

\* The transaction is complete; ppa_pedestrian_done_cb gives the semaphore.
PpaDone ==
  /\ "ppa" \in writing
  /\ EndWriting("ppa")
  /\ ppa_sem' = IF callback THEN 1 ELSE ppa_sem
  /\ UNCHANGED <<setupVars, detect_pc, buffer, using_uyvy, resultVars, clean>>

\* Slip: the wait is over without a token, and the picture is read.
TakeImpatient ==
  /\ detect_pc = "wait"
  /\ ppa_sem' = 0
  /\ using_uyvy' = TRUE
  /\ detect_pc' = "infer"
  /\ UNCHANGED <<setupVars, buffer, pictureVars, resultVars, clean>>

\* Slip: the token is seen but not taken.
TakePeeks ==
  /\ detect_pc = "wait"
  /\ ppa_sem = 1
  /\ using_uyvy' = TRUE
  /\ detect_pc' = "infer"
  /\ UNCHANGED <<setupVars, buffer, ppa_sem, pictureVars, resultVars, clean>>

\* xSemaphoreTake succeeds, whoever gave the token.
Take ==
  /\ detect_pc = "wait"
  /\ ppa_sem = 1
  /\ ppa_sem' = 0
  /\ using_uyvy' = TRUE
  /\ detect_pc' = "infer"
  /\ UNCHANGED <<setupVars, buffer, pictureVars, resultVars, clean>>

\* Slip: the wait is portMAX_DELAY.
WaitForever == FALSE /\ UNCHANGED vars

\* 100 ms without a token: the CPU takes over, the transaction goes on.
WaitTimeout ==
  /\ detect_pc = "wait"
  /\ ppa_sem = 0
  /\ detect_pc' = "fall_back"
  /\ clean' = FALSE
  /\ UNCHANGED <<setupVars, buffer, ppa_sem, pictureVars, using_uyvy, resultVars>>

\* convert_ouyy_evyy_to_yuv420_binned, followed by downsample_yuv420_2x for a factor
\* of 4, begins and ends.
ConvertBegin ==
  /\ detect_pc = "fall_back"
  /\ BeginWriting("cpu")
  /\ detect_pc' = "convert"
  /\ UNCHANGED <<setupVars, buffer, ppa_sem, using_uyvy, resultVars, clean>>

ConvertEnd ==
  /\ detect_pc = "convert"
  /\ EndWriting("cpu")
  /\ detect_pc' = "infer"
  /\ UNCHANGED <<setupVars, buffer, ppa_sem, using_uyvy, resultVars, clean>>

-----------------------------------------------------------------------------
\* A picture read in the wrong layout shows nothing.
ReadRight == using_uyvy <=> inference.layout = "interleaved"

\* The Y plane is copied into rgb_inference_frame and the network runs.  Without a
\* network (impl_ is null with the mock camera) nothing is found.
Infer ==
  /\ detect_pc = "infer"
  /\ seen' = IF ReadRight THEN inference.scene ELSE NoScene
  /\ detect_pc' = "publish"
  /\ UNCHANGED <<setupVars, buffer, ppa_sem, pictureVars, using_uyvy, debug_frame,
                 clean>>

\* The boxes are drawn on the picture, update_debug_frame copies it under debug_mutex_
\* and detect() returns.
Publish ==
  /\ detect_pc = "publish"
  /\ debug_frame' = [has_frame |-> TRUE, is_uyvy |-> using_uyvy, picture |-> inference]
  /\ detect_pc' = "out"
  /\ UNCHANGED <<setupVars, buffer, ppa_sem, pictureVars, using_uyvy, seen, clean>>

-----------------------------------------------------------------------------
Detect == \/ StartPpa \/ Take \/ WaitTimeout \/ ConvertBegin \/ ConvertEnd
          \/ Infer \/ Publish

Next == CameraCopies \/ Enter \/ PpaDone \/ Detect

\* The motion worker goes on, and 100 ms pass.  Nothing is asked of the PPA, which may
\* never finish.
SafeSpec == Init /\ [][Next]_vars
Spec     == SafeSpec /\ WF_vars(Detect)

-----------------------------------------------------------------------------
(***************************************************************************)
(* Properties                                                              *)
(***************************************************************************)
\* A call that finds nothing left over and does not time out shows the network, and the
\* debug page, the whole frame it was called with, read in the layout of the converter
\* that wrote it: with the PPA, when its start is refused and when there is no client.
SeesItsFrame ==
  detect_pc = "publish" /\ clean =>
    /\ seen = buffer
    /\ inference.scene = buffer
    /\ ReadRight

\* Such a call also leaves nothing behind: when it returns, and detection_buffer_ goes
\* back to camera_task, no transaction reads the buffer or writes the picture, and no
\* token is there to end the next wait early.  Only a timeout starts the disorder.
LeavesQuiet == detect_pc = "out" /\ clean => Quiet

\* detect() always returns, and with it the motion worker's callback, which gives
\* detection_idle_sem_ back: also when the PPA never finishes or never interrupts.
DetectReturns == detect_pc # "out" ~> detect_pc = "out"

=============================================================================
