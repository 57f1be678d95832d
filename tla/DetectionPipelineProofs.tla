---------------------- MODULE DetectionPipelineProofs ----------------------
(***************************************************************************)
(* Proofs about DetectionPipeline, for every set of pictures and every     *)
(* queue length.                                                           *)
(***************************************************************************)
EXTENDS DetectionPipeline, TLAPS

\* is_processing_ is set only while the frame is somewhere in the detector, and a
\* frame about to be claimed finds it clear: the priorities leave no window.
ClaimSucceeds ==
  /\ detection_pc = "claim" => worker_pc = "blocked" /\ ~is_processing
  /\ is_processing => \/ DetectionHolds
                      \/ ppa_busy
                      \/ notified > 0
                      \/ worker_pc # "blocked"
  /\ detection_pc = "notify" => ~ppa_started

\* What the flag, the camera's local and the buffers hold along the way.
FrameIntact ==
  /\ camera_pc # "capture" => camera_frame \in Scene
  /\ detection_idle_sem = 0 /\ ~CopyHolds => detection_buffer \in Scene
  /\ detection_pc = "notify" => ~ppa_used_for_current_frame

\* The worker compares the frame it was handed: either it converts the frame itself
\* or the PPA has just written it.
GrayFresh ==
  /\ notified > 0 /\ \/ ppa_used_for_current_frame
                     \/ detection_pc = "set_flag" /\ ppa_started
       => current_gray.scene = detection_buffer
  /\ worker_pc = "convert" /\ used_ppa => current_gray.scene = detection_buffer
  /\ worker_pc = "compare" => current_gray.scene = detection_buffer

HolderInv == OneHolder /\ ClaimSucceeds
FrameInv  == FrameIntact /\ GrayFresh /\ EvidenceMatches

-----------------------------------------------------------------------------
\* Every step of every task preserves the types; queue capacity and semaphores included.
LEMMA TypeStep == TypeOK /\ [Next]_vars => TypeOK'
<1> SUFFICES ASSUME TypeOK, [Next]_vars PROVE TypeOK'
  OBVIOUS
<1> USE DEF cameraVars, handoffVars, detectionVars, ppaVars, workerVars, grayVars,
            payloadVars
<1>1. CASE CameraCapture
  BY <1>1, QueueAssumption DEF CameraCapture, TypeOK, CameraPc, DetectionPc,
         WorkerPc
<1>2. CASE OfferTaken
  BY <1>2, QueueAssumption DEF OfferTaken, TypeOK, CameraPc, DetectionPc, WorkerPc
<1>3. CASE OfferSkipped
  BY <1>3, QueueAssumption DEF OfferSkipped, TypeOK, CameraPc, DetectionPc, WorkerPc
<1>4. CASE CopyDone
  BY <1>4, QueueAssumption DEF CopyDone, TypeOK, CameraPc, DetectionPc, WorkerPc
<1>5. CASE DetectionTake
  BY <1>5, QueueAssumption DEF DetectionTake, TypeOK, CameraPc, DetectionPc,
         WorkerPc
<1>6. CASE Claim
  BY <1>6, QueueAssumption DEF Claim, TypeOK, CameraPc, DetectionPc, WorkerPc
<1>7. CASE StartPpa
  BY <1>7, QueueAssumption DEF StartPpa, TypeOK, CameraPc, DetectionPc, WorkerPc
<1>8. CASE SetFlag
  BY <1>8, QueueAssumption DEF SetFlag, TypeOK, CameraPc, DetectionPc, WorkerPc
<1>9. CASE NotifyWorker
  BY <1>9, QueueAssumption DEF NotifyWorker, TypeOK, CameraPc, DetectionPc, WorkerPc
<1>10. CASE PpaDone
  <2>1. ppa_busy' \in BOOLEAN
    BY <1>10 DEF PpaDone
  <2> QED
    BY <1>10, <2>1, QueueAssumption DEF PpaDone, TypeOK, CameraPc, DetectionPc,
           WorkerPc, Gray, Layout
<1>11. CASE WorkerWake
  BY <1>11, QueueAssumption DEF WorkerWake, TypeOK, CameraPc, DetectionPc, WorkerPc
<1>12. CASE Convert
  BY <1>12, QueueAssumption DEF Convert, TypeOK, CameraPc, DetectionPc, WorkerPc,
         Gray, Layout
<1>13. CASE Compare
  <2>1. report_motion' \in BOOLEAN
    BY <1>13 DEF Compare
  <2> QED
    BY <1>13, <2>1, QueueAssumption DEF Compare, TypeOK, CameraPc, DetectionPc,
           WorkerPc
<1>14. CASE Detect
  BY <1>14, QueueAssumption DEF Detect, TypeOK, CameraPc, DetectionPc, WorkerPc
<1>15. CASE Collect
  BY <1>15, QueueAssumption DEF Collect, TypeOK, CameraPc, DetectionPc, WorkerPc
<1>16. CASE Send
  BY <1>16, QueueAssumption DEF Send, TypeOK, CameraPc, DetectionPc, WorkerPc
<1>17. CASE GiveIdle
  BY <1>17, QueueAssumption DEF GiveIdle, TypeOK, CameraPc, DetectionPc, WorkerPc
<1>18. CASE Unlock
  <2>1. is_processing' \in BOOLEAN
    BY <1>18 DEF Unlock
  <2> QED
    BY <1>18, <2>1, QueueAssumption DEF Unlock, TypeOK, CameraPc, DetectionPc,
           WorkerPc
<1>19. CASE UploadReceive
  BY <1>19, QueueAssumption DEF UploadReceive, TypeOK, CameraPc, DetectionPc,
         WorkerPc
<1>20. CASE UploadDone
  <2>1. uploading' \in BOOLEAN
    BY <1>20 DEF UploadDone
  <2> QED
    BY <1>20, <2>1, QueueAssumption DEF UploadDone, TypeOK, CameraPc, DetectionPc,
           WorkerPc
<1>21. CASE UNCHANGED vars
  BY <1>21, QueueAssumption DEF vars, TypeOK, CameraPc, DetectionPc, WorkerPc
<1> QED
  BY <1>1, <1>2, <1>3, <1>4, <1>5, <1>6, <1>7, <1>8, <1>9, <1>10, <1>11, <1>12,
     <1>13, <1>14, <1>15, <1>16, <1>17, <1>18, <1>19, <1>20, <1>21
  DEF Next, CameraTask, DetectionTask, MotionWorker, MotionUpload

\* Every step moves the right to the buffer from one holder to the next.
LEMMA HolderStep == TypeOK /\ HolderInv /\ [Next]_vars => HolderInv'
<1> SUFFICES ASSUME TypeOK, HolderInv, [Next]_vars PROVE HolderInv'
  OBVIOUS
<1> USE DEF cameraVars, handoffVars, detectionVars, ppaVars, workerVars, grayVars,
            payloadVars
<1>1. CASE CameraCapture
  BY <1>1 DEF CameraCapture, TypeOK, HolderInv, OneHolder, ClaimSucceeds, Count,
         CopyHolds, DetectionHolds, WorkerHolds
<1>2. CASE OfferTaken
  BY <1>2 DEF OfferTaken, TypeOK, HolderInv, OneHolder, ClaimSucceeds, Count,
         CopyHolds, DetectionHolds, WorkerHolds
<1>3. CASE OfferSkipped
  BY <1>3 DEF OfferSkipped, TypeOK, HolderInv, OneHolder, ClaimSucceeds, Count,
         CopyHolds, DetectionHolds, WorkerHolds
<1>4. CASE CopyDone
  BY <1>4 DEF CopyDone, TypeOK, HolderInv, OneHolder, ClaimSucceeds, Count,
         CopyHolds, DetectionHolds, WorkerHolds
<1>5. CASE DetectionTake
  BY <1>5 DEF DetectionTake, TypeOK, HolderInv, OneHolder, ClaimSucceeds, Count,
         CopyHolds, DetectionHolds, WorkerHolds, DetectionMayRun, WorkerReady,
         DetectionPriority, WorkerPriority
<1>6. CASE Claim
  BY <1>6 DEF Claim, TypeOK, HolderInv, OneHolder, ClaimSucceeds, Count, CopyHolds,
         DetectionHolds, WorkerHolds
<1>7. CASE StartPpa
  BY <1>7 DEF StartPpa, TypeOK, HolderInv, OneHolder, ClaimSucceeds, Count,
         CopyHolds, DetectionHolds, WorkerHolds
<1>8. CASE SetFlag
  <2>1. CASE ppa_started
    BY <1>8, <2>1 DEF SetFlag, TypeOK, HolderInv, OneHolder, ClaimSucceeds, Count,
           CopyHolds, DetectionHolds, WorkerHolds
  <2>2. CASE ~ppa_started
    BY <1>8, <2>2 DEF SetFlag, TypeOK, HolderInv, OneHolder, ClaimSucceeds, Count,
           CopyHolds, DetectionHolds, WorkerHolds
  <2> QED
    BY <2>1, <2>2
<1>9. CASE NotifyWorker
  BY <1>9 DEF NotifyWorker, TypeOK, HolderInv, OneHolder, ClaimSucceeds, Count,
         CopyHolds, DetectionHolds, WorkerHolds
<1>10. CASE PpaDone
  BY <1>10 DEF PpaDone, TypeOK, HolderInv, OneHolder, ClaimSucceeds, Count,
         CopyHolds, DetectionHolds, WorkerHolds
<1>11. CASE WorkerWake
  BY <1>11 DEF WorkerWake, TypeOK, HolderInv, OneHolder, ClaimSucceeds, Count,
         CopyHolds, DetectionHolds, WorkerHolds
<1>12. CASE Convert
  BY <1>12 DEF Convert, TypeOK, HolderInv, OneHolder, ClaimSucceeds, Count,
         CopyHolds, DetectionHolds, WorkerHolds
<1>13. CASE Compare
  BY <1>13 DEF Compare, TypeOK, HolderInv, OneHolder, ClaimSucceeds, Count,
         CopyHolds, DetectionHolds, WorkerHolds
<1>14. CASE Detect
  BY <1>14 DEF Detect, TypeOK, HolderInv, OneHolder, ClaimSucceeds, Count,
         CopyHolds, DetectionHolds, WorkerHolds
<1>15. CASE Collect
  BY <1>15 DEF Collect, TypeOK, HolderInv, OneHolder, ClaimSucceeds, Count,
         CopyHolds, DetectionHolds, WorkerHolds
<1>16. CASE Send
  BY <1>16 DEF Send, TypeOK, HolderInv, OneHolder, ClaimSucceeds, Count, CopyHolds,
         DetectionHolds, WorkerHolds
<1>17. CASE GiveIdle
  BY <1>17 DEF GiveIdle, TypeOK, HolderInv, OneHolder, ClaimSucceeds, Count,
         CopyHolds, DetectionHolds, WorkerHolds
<1>18. CASE Unlock
  BY <1>18 DEF Unlock, TypeOK, HolderInv, OneHolder, ClaimSucceeds, Count,
         CopyHolds, DetectionHolds, WorkerHolds
<1>19. CASE UploadReceive
  BY <1>19 DEF UploadReceive, TypeOK, HolderInv, OneHolder, ClaimSucceeds, Count,
         CopyHolds, DetectionHolds, WorkerHolds
<1>20. CASE UploadDone
  BY <1>20 DEF UploadDone, TypeOK, HolderInv, OneHolder, ClaimSucceeds, Count,
         CopyHolds, DetectionHolds, WorkerHolds
<1>21. CASE UNCHANGED vars
  BY <1>21 DEF vars, TypeOK, HolderInv, OneHolder, ClaimSucceeds, Count, CopyHolds,
         DetectionHolds, WorkerHolds
<1> QED
  BY <1>1, <1>2, <1>3, <1>4, <1>5, <1>6, <1>7, <1>8, <1>9, <1>10, <1>11, <1>12,
     <1>13, <1>14, <1>15, <1>16, <1>17, <1>18, <1>19, <1>20, <1>21
  DEF Next, CameraTask, DetectionTask, MotionWorker, MotionUpload

\* Every step keeps the frame in analysis whole.
LEMMA FrameStep == TypeOK /\ HolderInv /\ FrameInv /\ [Next]_vars => FrameInv'
<1> SUFFICES ASSUME TypeOK, HolderInv, FrameInv, [Next]_vars PROVE FrameInv'
  OBVIOUS
<1> USE DEF cameraVars, handoffVars, detectionVars, ppaVars, workerVars, grayVars,
            payloadVars
<1>1. CASE CameraCapture
  BY <1>1, SceneAssumption DEF CameraCapture, TypeOK, HolderInv, OneHolder, Count,
         CopyHolds, DetectionHolds, WorkerHolds, FrameInv, FrameIntact, GrayFresh,
         EvidenceMatches
<1>2. CASE OfferTaken
  BY <1>2, SceneAssumption DEF OfferTaken, TypeOK, HolderInv, OneHolder, Count,
         CopyHolds, DetectionHolds, WorkerHolds, FrameInv, FrameIntact, GrayFresh,
         EvidenceMatches
<1>3. CASE OfferSkipped
  BY <1>3, SceneAssumption DEF OfferSkipped, TypeOK, HolderInv, OneHolder, Count,
         CopyHolds, DetectionHolds, WorkerHolds, FrameInv, FrameIntact, GrayFresh,
         EvidenceMatches
<1>4. CASE CopyDone
  BY <1>4, SceneAssumption DEF CopyDone, TypeOK, HolderInv, OneHolder, Count,
         CopyHolds, DetectionHolds, WorkerHolds, FrameInv, FrameIntact, GrayFresh,
         EvidenceMatches
<1>5. CASE DetectionTake
  BY <1>5, SceneAssumption DEF DetectionTake, TypeOK, HolderInv, OneHolder, Count,
         CopyHolds, DetectionHolds, WorkerHolds, FrameInv, FrameIntact, GrayFresh,
         EvidenceMatches
<1>6. CASE Claim
  BY <1>6, SceneAssumption DEF Claim, TypeOK, HolderInv, OneHolder, Count,
         CopyHolds, DetectionHolds, WorkerHolds, FrameInv, FrameIntact, GrayFresh,
         EvidenceMatches
<1>7. CASE StartPpa
  BY <1>7, SceneAssumption DEF StartPpa, TypeOK, HolderInv, OneHolder, Count,
         CopyHolds, DetectionHolds, WorkerHolds, FrameInv, FrameIntact, GrayFresh,
         EvidenceMatches
<1>8. CASE SetFlag
  BY <1>8, SceneAssumption DEF SetFlag, TypeOK, HolderInv, OneHolder, Count,
         CopyHolds, DetectionHolds, WorkerHolds, FrameInv, FrameIntact, GrayFresh,
         EvidenceMatches
<1>9. CASE NotifyWorker
  BY <1>9, SceneAssumption DEF NotifyWorker, TypeOK, HolderInv, OneHolder, Count,
         CopyHolds, DetectionHolds, WorkerHolds, FrameInv, FrameIntact, GrayFresh,
         EvidenceMatches
<1>10. CASE PpaDone
  BY <1>10, SceneAssumption DEF PpaDone, TypeOK, HolderInv, OneHolder, Count,
         CopyHolds, DetectionHolds, WorkerHolds, FrameInv, FrameIntact, GrayFresh,
         EvidenceMatches
<1>11. CASE WorkerWake
  BY <1>11, SceneAssumption DEF WorkerWake, TypeOK, HolderInv, OneHolder, Count,
         CopyHolds, DetectionHolds, WorkerHolds, FrameInv, FrameIntact, GrayFresh,
         EvidenceMatches
<1>12. CASE Convert
  BY <1>12, SceneAssumption DEF Convert, TypeOK, HolderInv, OneHolder, Count,
         CopyHolds, DetectionHolds, WorkerHolds, FrameInv, FrameIntact, GrayFresh,
         EvidenceMatches
<1>13. CASE Compare
  BY <1>13, SceneAssumption DEF Compare, TypeOK, HolderInv, OneHolder, Count,
         CopyHolds, DetectionHolds, WorkerHolds, FrameInv, FrameIntact, GrayFresh,
         EvidenceMatches
<1>14. CASE Detect
  BY <1>14, SceneAssumption DEF Detect, TypeOK, HolderInv, OneHolder, Count,
         CopyHolds, DetectionHolds, WorkerHolds, FrameInv, FrameIntact, GrayFresh,
         EvidenceMatches
<1>15. CASE Collect
  BY <1>15, SceneAssumption DEF Collect, TypeOK, HolderInv, OneHolder, Count,
         CopyHolds, DetectionHolds, WorkerHolds, FrameInv, FrameIntact, GrayFresh,
         EvidenceMatches
<1>16. CASE Send
  BY <1>16, SceneAssumption DEF Send, TypeOK, HolderInv, OneHolder, Count,
         CopyHolds, DetectionHolds, WorkerHolds, FrameInv, FrameIntact, GrayFresh,
         EvidenceMatches
<1>17. CASE GiveIdle
  BY <1>17, SceneAssumption DEF GiveIdle, TypeOK, HolderInv, OneHolder, Count,
         CopyHolds, DetectionHolds, WorkerHolds, FrameInv, FrameIntact, GrayFresh,
         EvidenceMatches
<1>18. CASE Unlock
  BY <1>18, SceneAssumption DEF Unlock, TypeOK, HolderInv, OneHolder, Count,
         CopyHolds, DetectionHolds, WorkerHolds, FrameInv, FrameIntact, GrayFresh,
         EvidenceMatches
<1>19. CASE UploadReceive
  BY <1>19, SceneAssumption DEF UploadReceive, TypeOK, HolderInv, OneHolder, Count,
         CopyHolds, DetectionHolds, WorkerHolds, FrameInv, FrameIntact, GrayFresh,
         EvidenceMatches
<1>20. CASE UploadDone
  BY <1>20, SceneAssumption DEF UploadDone, TypeOK, HolderInv, OneHolder, Count,
         CopyHolds, DetectionHolds, WorkerHolds, FrameInv, FrameIntact, GrayFresh,
         EvidenceMatches
<1>21. CASE UNCHANGED vars
  BY <1>21, SceneAssumption DEF vars, TypeOK, HolderInv, OneHolder, Count,
         CopyHolds, DetectionHolds, WorkerHolds, FrameInv, FrameIntact, GrayFresh,
         EvidenceMatches
<1> QED
  BY <1>1, <1>2, <1>3, <1>4, <1>5, <1>6, <1>7, <1>8, <1>9, <1>10, <1>11, <1>12,
     <1>13, <1>14, <1>15, <1>16, <1>17, <1>18, <1>19, <1>20, <1>21
  DEF Next, CameraTask, DetectionTask, MotionWorker, MotionUpload

\* Every step accounts for the payloads it allocates, moves and frees.
LEMMA PayloadStep == TypeOK /\ PayloadsOwned /\ [Next]_vars => PayloadsOwned'
<1> SUFFICES ASSUME TypeOK, PayloadsOwned, [Next]_vars PROVE PayloadsOwned'
  OBVIOUS
<1> USE DEF cameraVars, handoffVars, detectionVars, ppaVars, workerVars, grayVars,
            payloadVars
<1>1. CASE CameraCapture
  BY <1>1 DEF CameraCapture, TypeOK, PayloadsOwned, Count
<1>2. CASE OfferTaken
  BY <1>2 DEF OfferTaken, TypeOK, PayloadsOwned, Count
<1>3. CASE OfferSkipped
  BY <1>3 DEF OfferSkipped, TypeOK, PayloadsOwned, Count
<1>4. CASE CopyDone
  BY <1>4 DEF CopyDone, TypeOK, PayloadsOwned, Count
<1>5. CASE DetectionTake
  BY <1>5 DEF DetectionTake, TypeOK, PayloadsOwned, Count
<1>6. CASE Claim
  BY <1>6 DEF Claim, TypeOK, PayloadsOwned, Count
<1>7. CASE StartPpa
  BY <1>7 DEF StartPpa, TypeOK, PayloadsOwned, Count
<1>8. CASE SetFlag
  BY <1>8 DEF SetFlag, TypeOK, PayloadsOwned, Count
<1>9. CASE NotifyWorker
  BY <1>9 DEF NotifyWorker, TypeOK, PayloadsOwned, Count
<1>10. CASE PpaDone
  BY <1>10 DEF PpaDone, TypeOK, PayloadsOwned, Count
<1>11. CASE WorkerWake
  BY <1>11 DEF WorkerWake, TypeOK, PayloadsOwned, Count
<1>12. CASE Convert
  BY <1>12 DEF Convert, TypeOK, PayloadsOwned, Count
<1>13. CASE Compare
  BY <1>13 DEF Compare, TypeOK, PayloadsOwned, Count
<1>14. CASE Detect
  BY <1>14 DEF Detect, TypeOK, PayloadsOwned, Count
<1>15. CASE Collect
  BY <1>15 DEF Collect, TypeOK, PayloadsOwned, Count
<1>16. CASE Send
  BY <1>16 DEF Send, TypeOK, PayloadsOwned, Count
<1>17. CASE GiveIdle
  BY <1>17 DEF GiveIdle, TypeOK, PayloadsOwned, Count
<1>18. CASE Unlock
  BY <1>18 DEF Unlock, TypeOK, PayloadsOwned, Count
<1>19. CASE UploadReceive
  BY <1>19 DEF UploadReceive, TypeOK, PayloadsOwned, Count
<1>20. CASE UploadDone
  BY <1>20 DEF UploadDone, TypeOK, PayloadsOwned, Count
<1>21. CASE UNCHANGED vars
  BY <1>21 DEF vars, TypeOK, PayloadsOwned, Count
<1> QED
  BY <1>1, <1>2, <1>3, <1>4, <1>5, <1>6, <1>7, <1>8, <1>9, <1>10, <1>11, <1>12,
     <1>13, <1>14, <1>15, <1>16, <1>17, <1>18, <1>19, <1>20, <1>21
  DEF Next, CameraTask, DetectionTask, MotionWorker, MotionUpload

-----------------------------------------------------------------------------
\* The tasks, semaphores, buffers and counters of the pipeline keep their types; in
\* particular motion_queue_ never holds more than its length.
THEOREM TypeCorrect == Spec => []TypeOK
<1>1. Init => TypeOK
  <2> SUFFICES ASSUME Init PROVE TypeOK
    OBVIOUS
  <2>1. /\ ppa_started \in BOOLEAN /\ is_processing \in BOOLEAN
        /\ ppa_used_for_current_frame \in BOOLEAN /\ ppa_busy \in BOOLEAN
        /\ used_ppa \in BOOLEAN /\ report_motion \in BOOLEAN /\ uploading \in BOOLEAN
    BY DEF Init
  <2> QED
    BY <2>1, QueueAssumption
    DEF Init, TypeOK, CameraPc, DetectionPc, WorkerPc, Gray, Layout
<1> QED
  BY <1>1, TypeStep, PTL DEF Spec, SafeSpec

\* The invariant about holders, with what makes Claim succeed.
LEMMA HolderCorrect == Spec => []HolderInv
<1>1. Init => HolderInv
  BY DEF Init, HolderInv, OneHolder, ClaimSucceeds, Count, CopyHolds, DetectionHolds,
         WorkerHolds
<1> QED
  BY <1>1, HolderStep, TypeCorrect, PTL DEF Spec, SafeSpec

\* detection_buffer_ has exactly one holder in every reachable state, whatever the
\* pictures and however long the queue: the detection loop never wedges on a lost
\* detection_idle_sem_, and no frame is overwritten while it is analysed.
THEOREM OneHolderAlways == Spec => []OneHolder
<1>1. HolderInv => OneHolder
  BY DEF HolderInv
<1> QED
  BY <1>1, HolderCorrect, PTL

\* An event's snapshot and its pedestrian scan read the picture that triggered it.
THEOREM EvidenceAlwaysMatches == Spec => []EvidenceMatches
<1>1. Init => FrameInv
  BY DEF Init, FrameInv, FrameIntact, GrayFresh, EvidenceMatches
<1>2. FrameInv => EvidenceMatches
  BY DEF FrameInv
<1> QED
  BY <1>1, <1>2, FrameStep, TypeCorrect, HolderCorrect, PTL DEF Spec, SafeSpec

\* Every queued or in-flight MotionEventPayload is freed exactly once.
THEOREM PayloadsAlwaysOwned == Spec => []PayloadsOwned
<1>1. Init => PayloadsOwned
  BY DEF Init, PayloadsOwned, Count
<1> QED
  BY <1>1, PayloadStep, TypeCorrect, PTL DEF Spec, SafeSpec

-----------------------------------------------------------------------------
\* A step of the pipeline is a step of the abstract slot or leaves it unchanged.
LEMMA HandoffStep == TypeOK /\ HolderInv /\ FrameInv /\ [Next]_vars => [Handoff!Next]_(Handoff!vars)
<1> SUFFICES ASSUME TypeOK, HolderInv, FrameInv, [Next]_vars PROVE [Handoff!Next]_(Handoff!vars)
  OBVIOUS
<1> USE DEF cameraVars, handoffVars, detectionVars, ppaVars, workerVars, grayVars,
            payloadVars
<1>1. CASE CameraCapture
  BY <1>1 DEF CameraCapture, CopyHolds, Handoff!vars
<1>2. CASE OfferTaken
  BY <1>2 DEF OfferTaken, TypeOK, HolderInv, OneHolder, Count, CopyHolds,
         DetectionHolds, WorkerHolds, Handoff!Next, Handoff!vars, Handoff!BeginFill
<1>3. CASE OfferSkipped
  BY <1>3 DEF OfferSkipped, CopyHolds, Handoff!vars
<1>4. CASE CopyDone
  BY <1>4 DEF CopyDone, TypeOK, HolderInv, OneHolder, Count, CopyHolds,
         DetectionHolds, WorkerHolds, Handoff!Next, Handoff!vars, Handoff!EndFill,
         FrameInv, FrameIntact
<1>5. CASE DetectionTake
  BY <1>5 DEF DetectionTake, TypeOK, HolderInv, OneHolder, Count, CopyHolds,
         DetectionHolds, WorkerHolds, Handoff!Next, Handoff!vars, Handoff!Take
<1>6. CASE Claim
  BY <1>6 DEF Claim, CopyHolds, Handoff!vars
<1>7. CASE StartPpa
  BY <1>7 DEF StartPpa, CopyHolds, Handoff!vars
<1>8. CASE SetFlag
  BY <1>8 DEF SetFlag, CopyHolds, Handoff!vars
<1>9. CASE NotifyWorker
  BY <1>9 DEF NotifyWorker, CopyHolds, Handoff!vars
<1>10. CASE PpaDone
  BY <1>10 DEF PpaDone, CopyHolds, Handoff!vars
<1>11. CASE WorkerWake
  BY <1>11 DEF WorkerWake, CopyHolds, Handoff!vars
<1>12. CASE Convert
  BY <1>12 DEF Convert, CopyHolds, Handoff!vars
<1>13. CASE Compare
  BY <1>13 DEF Compare, CopyHolds, Handoff!vars
<1>14. CASE Detect
  BY <1>14 DEF Detect, CopyHolds, Handoff!vars
<1>15. CASE Collect
  BY <1>15 DEF Collect, CopyHolds, Handoff!vars
<1>16. CASE Send
  BY <1>16 DEF Send, CopyHolds, Handoff!vars
<1>17. CASE GiveIdle
  BY <1>17 DEF GiveIdle, TypeOK, HolderInv, OneHolder, Count, CopyHolds,
         DetectionHolds, WorkerHolds, Handoff!Next, Handoff!vars, Handoff!Release
<1>18. CASE Unlock
  BY <1>18 DEF Unlock, CopyHolds, Handoff!vars
<1>19. CASE UploadReceive
  BY <1>19 DEF UploadReceive, CopyHolds, Handoff!vars
<1>20. CASE UploadDone
  BY <1>20 DEF UploadDone, CopyHolds, Handoff!vars
<1>21. CASE UNCHANGED vars
  BY <1>21 DEF vars, CopyHolds, Handoff!vars
<1> QED
  BY <1>1, <1>2, <1>3, <1>4, <1>5, <1>6, <1>7, <1>8, <1>9, <1>10, <1>11, <1>12,
     <1>13, <1>14, <1>15, <1>16, <1>17, <1>18, <1>19, <1>20, <1>21
  DEF Next, CameraTask, DetectionTask, MotionWorker, MotionUpload

\* The pipeline implements FrameHandoff: through every interleaving of the tasks, the
\* PPA and the worker, the shared buffer behaves as one slot that is filled, taken and
\* released, and changes only while it is being filled.
THEOREM HandoffRefined == Spec => Handoff!SafeSpec
<1>1. Init => Handoff!Init
  BY DEF Init, Handoff!Init
<1>2. Spec => []FrameInv
  <2>1. Init => FrameInv
    BY DEF Init, FrameInv, FrameIntact, GrayFresh, EvidenceMatches
  <2> QED
    BY <2>1, FrameStep, TypeCorrect, HolderCorrect, PTL DEF Spec, SafeSpec
<1> QED
  BY <1>1, <1>2, HandoffStep, TypeCorrect, HolderCorrect, PTL
  DEF Spec, SafeSpec, Handoff!SafeSpec

-----------------------------------------------------------------------------
(***************************************************************************)
(* Why FrameFinishes holds, without its fairness: the way of a frame       *)
(* through the tasks is counted in steps, each of them brings it closer to *)
(* its end, and one of them can always be taken.                           *)
(***************************************************************************)
DetectionHops ==
  CASE detection_pc = "wait"      -> 0
    [] detection_pc = "claim"     -> 12
    [] detection_pc = "start_ppa" -> 11
    [] detection_pc = "set_flag"  -> IF ppa_started THEN 1 ELSE 10
    [] detection_pc = "notify"    -> 9

WorkerHops ==
  CASE worker_pc = "blocked" -> 0
    [] worker_pc = "unlock"  -> 1
    [] worker_pc = "give"    -> 2
    [] worker_pc = "send"    -> 3
    [] worker_pc = "collect" -> 4
    [] worker_pc = "detect"  -> 5
    [] worker_pc = "compare" -> 6
    [] worker_pc = "convert" -> 7

\* Steps that are left, at most, until the detector is idle and the worker asleep.
Hops == 14 * Count(CopyHolds) + 13 * detection_start_sem + DetectionHops
          + 9 * Count(ppa_busy) + 8 * notified + WorkerHops

\* Every step of the detection chain brings the frame on; no other step but the copy of
\* the next frame, which waits for the detector to be idle, sets it back.
FrameAdvances ==
  [][/\ CopyDone \/ DetectionTask \/ PpaDone \/ MotionWorker => Hops' < Hops
     /\ Hops' > Hops => OfferTaken /\ detection_idle_sem = 1]_vars

\* Until the detector is idle one of these steps can be taken: each disjunct is what
\* its actor waits for.  The worker never keeps detection_task from a frame without
\* being able to go on itself.
FrameMovable ==
  /\ Hops <= 16
  /\ detection_idle_sem = 0 =>
       \/ camera_pc = "copy"
       \/ DetectionMayRun /\ (detection_pc # "wait" \/ detection_start_sem = 1)
       \/ ppa_busy
       \/ worker_pc # "blocked" \/ notified > 0

\* The terms of Hops are small numbers.
LEMMA HopsCounted ==
  ASSUME TypeOK
  PROVE  /\ DetectionHops \in 0..12 /\ WorkerHops \in 0..7
         /\ Count(CopyHolds) \in {0, 1} /\ Count(ppa_busy) \in {0, 1}
<1> QED
  BY DEF TypeOK, DetectionPc, WorkerPc, DetectionHops, WorkerHops, Count

\* Each step of the chain moves the right to a place from which fewer steps are left.
LEMMA HopsFewer ==
  ASSUME TypeOK, HolderInv, TypeOK', CopyDone \/ DetectionTask \/ PpaDone \/ MotionWorker
  PROVE  Hops' \in Int /\ Hops' < Hops
<1> USE DEF cameraVars, handoffVars, detectionVars, ppaVars, workerVars, grayVars,
            payloadVars
<1>0. DetectionHops' \in Int /\ WorkerHops' \in Int /\ Count(ppa_busy)' \in {0, 1}
  BY DEF TypeOK, DetectionPc, WorkerPc, DetectionHops, WorkerHops, Count
<1>1. /\ detection_start_sem \in {0, 1} /\ notified \in {0, 1}
      /\ DetectionHops \in Int /\ WorkerHops \in Int
      /\ Count(CopyHolds) \in {0, 1} /\ Count(ppa_busy) \in {0, 1}
  BY HopsCounted DEF TypeOK, HolderInv, OneHolder, Count
<1>2. CASE CopyDone
  <2>1. /\ DetectionHops' = DetectionHops
        /\ WorkerHops' = WorkerHops
        /\ Count(ppa_busy)' = Count(ppa_busy)
        /\ notified' = notified
    BY <1>2 DEF CopyDone, CopyHolds, DetectionHops, WorkerHops
  <2>2. /\ Count(CopyHolds) = 1 /\ Count(CopyHolds)' = 0
        /\ detection_start_sem' = 1
    BY <1>2 DEF CopyDone, CopyHolds, Count
  <2> QED
    BY <1>1, <1>0, <2>1, <2>2 DEF Hops
<1>3. CASE DetectionTake
  <2>1. /\ Count(CopyHolds)' = Count(CopyHolds)
        /\ WorkerHops' = WorkerHops
        /\ Count(ppa_busy)' = Count(ppa_busy)
        /\ notified' = notified
    BY <1>3 DEF DetectionTake, CopyHolds, DetectionHops, WorkerHops
  <2>2. /\ detection_start_sem = 1 /\ detection_start_sem' = 0
        /\ DetectionHops = 0 /\ DetectionHops' = 12
    BY <1>3 DEF DetectionTake, DetectionHops
  <2> QED
    BY <1>1, <1>0, <2>1, <2>2 DEF Hops
<1>4. CASE Claim
  <2>1. /\ Count(CopyHolds)' = Count(CopyHolds)
        /\ WorkerHops' = WorkerHops
        /\ Count(ppa_busy)' = Count(ppa_busy)
        /\ detection_start_sem' = detection_start_sem
        /\ notified' = notified
    BY <1>4 DEF Claim, CopyHolds, DetectionHops, WorkerHops
  <2>2. DetectionHops = 12 /\ DetectionHops' = 11
    BY <1>4 DEF Claim, DetectionHops, HolderInv, ClaimSucceeds
  <2> QED
    BY <1>1, <1>0, <2>1, <2>2 DEF Hops
<1>5. CASE StartPpa
  <2>1. /\ Count(CopyHolds)' = Count(CopyHolds)
        /\ WorkerHops' = WorkerHops
        /\ detection_start_sem' = detection_start_sem
        /\ notified' = notified
    BY <1>5 DEF StartPpa, CopyHolds, DetectionHops, WorkerHops
  <2>2. /\ Count(ppa_busy) = 0 /\ DetectionHops = 11
        /\ 9 * Count(ppa_busy)' + DetectionHops' = 10
    <3>1. ~ppa_busy /\ DetectionHops = 11
      BY <1>5, <1>1 DEF StartPpa, DetectionHops, TypeOK, HolderInv, OneHolder, Count,
                       DetectionHolds
    <3>2. CASE ppa_started'
      BY <1>5, <3>1, <3>2 DEF StartPpa, DetectionHops, Count
    <3>3. CASE ~ppa_started'
      BY <1>5, <3>1, <3>3 DEF StartPpa, DetectionHops, Count
    <3> QED
      BY <3>1, <3>2, <3>3 DEF Count
  <2> QED
    BY <1>1, <1>0, <2>1, <2>2 DEF Hops
<1>6. CASE SetFlag
  <2>1. /\ Count(CopyHolds)' = Count(CopyHolds)
        /\ WorkerHops' = WorkerHops
        /\ Count(ppa_busy)' = Count(ppa_busy)
        /\ detection_start_sem' = detection_start_sem
        /\ notified' = notified
    BY <1>6 DEF SetFlag, CopyHolds, DetectionHops, WorkerHops
  <2>2. DetectionHops' < DetectionHops
    BY <1>6 DEF SetFlag, DetectionHops
  <2> QED
    BY <1>1, <1>0, <2>1, <2>2 DEF Hops
<1>7. CASE NotifyWorker
  <2>1. /\ Count(CopyHolds)' = Count(CopyHolds)
        /\ WorkerHops' = WorkerHops
        /\ Count(ppa_busy)' = Count(ppa_busy)
        /\ detection_start_sem' = detection_start_sem
    BY <1>7 DEF NotifyWorker, CopyHolds, DetectionHops, WorkerHops
  <2>2. notified' = notified + 1 /\ DetectionHops = 9 /\ DetectionHops' = 0
    BY <1>7 DEF NotifyWorker, DetectionHops
  <2> QED
    BY <1>1, <1>0, <2>1, <2>2 DEF Hops
<1>8. CASE PpaDone
  <2>1. /\ Count(CopyHolds)' = Count(CopyHolds)
        /\ DetectionHops' = DetectionHops
        /\ WorkerHops' = WorkerHops
        /\ detection_start_sem' = detection_start_sem
    BY <1>8 DEF PpaDone, CopyHolds, DetectionHops, WorkerHops
  <2>2. /\ Count(ppa_busy) = 1 /\ Count(ppa_busy)' = 0
        /\ notified' = notified + 1
    BY <1>8 DEF PpaDone, Count
  <2> QED
    BY <1>1, <1>0, <2>1, <2>2 DEF Hops
<1>9. CASE WorkerWake
  <2>1. /\ Count(CopyHolds)' = Count(CopyHolds)
        /\ DetectionHops' = DetectionHops
        /\ Count(ppa_busy)' = Count(ppa_busy)
        /\ detection_start_sem' = detection_start_sem
    BY <1>9 DEF WorkerWake, CopyHolds, DetectionHops, WorkerHops
  <2>2. notified = 1 /\ notified' = 0 /\ WorkerHops = 0 /\ WorkerHops' = 7
    BY <1>9, <1>1 DEF WorkerWake, WorkerHops
  <2> QED
    BY <1>1, <1>0, <2>1, <2>2 DEF Hops
<1>10. CASE Convert
  <2>1. /\ Count(CopyHolds)' = Count(CopyHolds)
        /\ DetectionHops' = DetectionHops
        /\ Count(ppa_busy)' = Count(ppa_busy)
        /\ detection_start_sem' = detection_start_sem
        /\ notified' = notified
    BY <1>10 DEF Convert, CopyHolds, DetectionHops, WorkerHops
  <2>2. WorkerHops' < WorkerHops
    BY <1>10 DEF Convert, WorkerHops
  <2> QED
    BY <1>1, <1>0, <2>1, <2>2 DEF Hops
<1>11. CASE Compare
  <2>1. /\ Count(CopyHolds)' = Count(CopyHolds)
        /\ DetectionHops' = DetectionHops
        /\ Count(ppa_busy)' = Count(ppa_busy)
        /\ detection_start_sem' = detection_start_sem
        /\ notified' = notified
    BY <1>11 DEF Compare, CopyHolds, DetectionHops, WorkerHops
  <2>2. WorkerHops' < WorkerHops
    BY <1>11 DEF Compare, WorkerHops
  <2> QED
    BY <1>1, <1>0, <2>1, <2>2 DEF Hops
<1>12. CASE Detect
  <2>1. /\ Count(CopyHolds)' = Count(CopyHolds)
        /\ DetectionHops' = DetectionHops
        /\ Count(ppa_busy)' = Count(ppa_busy)
        /\ detection_start_sem' = detection_start_sem
        /\ notified' = notified
    BY <1>12 DEF Detect, CopyHolds, DetectionHops, WorkerHops
  <2>2. WorkerHops' < WorkerHops
    BY <1>12 DEF Detect, WorkerHops
  <2> QED
    BY <1>1, <1>0, <2>1, <2>2 DEF Hops
<1>13. CASE Collect
  <2>1. /\ Count(CopyHolds)' = Count(CopyHolds)
        /\ DetectionHops' = DetectionHops
        /\ Count(ppa_busy)' = Count(ppa_busy)
        /\ detection_start_sem' = detection_start_sem
        /\ notified' = notified
    BY <1>13 DEF Collect, CopyHolds, DetectionHops, WorkerHops
  <2>2. WorkerHops' < WorkerHops
    BY <1>13 DEF Collect, WorkerHops
  <2> QED
    BY <1>1, <1>0, <2>1, <2>2 DEF Hops
<1>14. CASE Send
  <2>1. /\ Count(CopyHolds)' = Count(CopyHolds)
        /\ DetectionHops' = DetectionHops
        /\ Count(ppa_busy)' = Count(ppa_busy)
        /\ detection_start_sem' = detection_start_sem
        /\ notified' = notified
    BY <1>14 DEF Send, CopyHolds, DetectionHops, WorkerHops
  <2>2. WorkerHops' < WorkerHops
    BY <1>14 DEF Send, WorkerHops
  <2> QED
    BY <1>1, <1>0, <2>1, <2>2 DEF Hops
<1>15. CASE GiveIdle
  <2>1. /\ Count(CopyHolds)' = Count(CopyHolds)
        /\ DetectionHops' = DetectionHops
        /\ Count(ppa_busy)' = Count(ppa_busy)
        /\ detection_start_sem' = detection_start_sem
        /\ notified' = notified
    BY <1>15 DEF GiveIdle, CopyHolds, DetectionHops, WorkerHops
  <2>2. WorkerHops' < WorkerHops
    BY <1>15 DEF GiveIdle, WorkerHops
  <2> QED
    BY <1>1, <1>0, <2>1, <2>2 DEF Hops
<1>16. CASE Unlock
  <2>1. /\ Count(CopyHolds)' = Count(CopyHolds)
        /\ DetectionHops' = DetectionHops
        /\ Count(ppa_busy)' = Count(ppa_busy)
        /\ detection_start_sem' = detection_start_sem
        /\ notified' = notified
    BY <1>16 DEF Unlock, CopyHolds, DetectionHops, WorkerHops
  <2>2. WorkerHops' < WorkerHops
    BY <1>16 DEF Unlock, WorkerHops
  <2> QED
    BY <1>1, <1>0, <2>1, <2>2 DEF Hops
<1> QED
  BY <1>2, <1>3, <1>4, <1>5, <1>6, <1>7, <1>8, <1>9, <1>10, <1>11, <1>12, <1>13,
     <1>14, <1>15, <1>16 DEF DetectionTask, MotionWorker

\* Of the other steps only the copy of the next frame changes a term.
LEMMA HopsStep ==
  ASSUME TypeOK, HolderInv, TypeOK', [Next]_vars
  PROVE  /\ CopyDone \/ DetectionTask \/ PpaDone \/ MotionWorker => Hops' < Hops
         /\ Hops' > Hops => OfferTaken /\ detection_idle_sem = 1
<1> USE DEF cameraVars, handoffVars, detectionVars, ppaVars, workerVars, grayVars,
            payloadVars
<1>1. Hops \in Int
  BY HopsCounted DEF TypeOK, Hops
<1>2. ASSUME CopyDone \/ DetectionTask \/ PpaDone \/ MotionWorker
      PROVE  Hops' < Hops /\ ~(Hops' > Hops)
  BY <1>1, <1>2, HopsFewer
<1>3. ASSUME CameraCapture \/ OfferSkipped \/ MotionUpload \/ UNCHANGED vars
      PROVE  ~(Hops' > Hops)
  <2>1. /\ CopyHolds' <=> CopyHolds
        /\ UNCHANGED <<detection_start_sem, detectionVars, ppaVars, workerVars>>
    BY <1>3
    DEF CameraCapture, OfferSkipped, MotionUpload, UploadReceive, UploadDone, vars,
        CopyHolds
  <2>2. DetectionHops' = DetectionHops /\ WorkerHops' = WorkerHops
    BY <2>1 DEF DetectionHops, WorkerHops
  <2>3. Hops' = Hops
    BY <2>1, <2>2 DEF Hops, Count
  <2> QED
    BY <1>1, <2>3
<1>4. ASSUME OfferTaken
      PROVE  detection_idle_sem = 1
  BY <1>4 DEF OfferTaken
<1> QED
  BY <1>2, <1>3, <1>4 DEF Next, CameraTask

\* Through every interleaving a frame takes at most sixteen steps from its copy to the
\* end of its analysis, and none is ever taken back.
THEOREM FrameAlwaysAdvances == Spec => FrameAdvances
<1>1. ASSUME TypeOK, HolderInv, TypeOK', [Next]_vars
      PROVE  [/\ CopyDone \/ DetectionTask \/ PpaDone \/ MotionWorker => Hops' < Hops
              /\ Hops' > Hops => OfferTaken /\ detection_idle_sem = 1]_vars
  BY <1>1, HopsStep
<1> QED
  BY <1>1, TypeCorrect, HolderCorrect, PTL DEF Spec, SafeSpec, FrameAdvances

\* Neither a lost notification nor the priorities of core 0 ever leave a frame with
\* nobody to go on with it.
THEOREM FrameAlwaysMovable == Spec => []FrameMovable
<1>1. TypeOK /\ HolderInv => FrameMovable
  <2> SUFFICES ASSUME TypeOK, HolderInv
               PROVE  FrameMovable
    OBVIOUS
  <2>1. Hops <= 16
    <3>1. /\ detection_start_sem \in {0, 1} /\ notified \in {0, 1}
          /\ detection_start_sem + Count(CopyHolds) + Count(DetectionHolds)
               + Count(ppa_busy) + notified + Count(WorkerHolds) <= 1
      BY DEF TypeOK, HolderInv, OneHolder, Count
    <3>2. DetectionHops <= 1 + 11 * Count(DetectionHolds)
      BY DEF TypeOK, DetectionPc, DetectionHops, DetectionHolds, Count, HolderInv,
             ClaimSucceeds
    <3>3. WorkerHops <= 1 + 6 * Count(WorkerHolds)
      BY DEF TypeOK, WorkerPc, WorkerHops, WorkerHolds, Count
    <3>4. DetectionHops \in Int /\ WorkerHops \in Int
      BY HopsCounted
    <3>5. /\ Count(CopyHolds) \in {0, 1} /\ Count(ppa_busy) \in {0, 1}
          /\ Count(DetectionHolds) \in {0, 1} /\ Count(WorkerHolds) \in {0, 1}
      BY DEF Count
    <3> QED
      BY <3>1, <3>2, <3>3, <3>4, <3>5 DEF Hops
  <2>2. ASSUME detection_idle_sem = 0
        PROVE  \/ camera_pc = "copy"
               \/ DetectionMayRun /\ (detection_pc # "wait" \/ detection_start_sem = 1)
               \/ ppa_busy
               \/ worker_pc # "blocked" \/ notified > 0
    <3>1. \/ CopyHolds \/ ppa_busy \/ worker_pc # "blocked" \/ notified > 0
          \/ detection_start_sem = 1 \/ DetectionHolds
      BY <2>2 DEF TypeOK, HolderInv, OneHolder, Count, WorkerHolds
    <3>2. ASSUME worker_pc = "blocked", ~(notified > 0)
          PROVE  DetectionMayRun
      BY <3>2 DEF DetectionMayRun, WorkerReady
    <3>3. DetectionHolds => detection_pc # "wait"
      BY DEF DetectionHolds
    <3> QED
      BY <3>1, <3>2, <3>3 DEF CopyHolds
  <2> QED
    BY <2>1, <2>2 DEF FrameMovable
<1> QED
  BY <1>1, TypeCorrect, HolderCorrect, PTL

=============================================================================
