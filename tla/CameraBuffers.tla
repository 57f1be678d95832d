--------------------------- MODULE CameraBuffers ---------------------------
(***************************************************************************)
(* HardwareCamera of components/vigo_camera/camera.cpp: the DMA buffers    *)
(* that travel between the CSI controller, the frame-ready queue and the   *)
(* tasks that call capture().  A frame is the DMA buffer itself, wrapped   *)
(* without a copy, so a buffer must not reach the controller again while a *)
(* task still reads it.                                                    *)
(*                                                                         *)
(* capture() is not protected by a lock; its steps are the accesses to the *)
(* members it shares with other callers.  init() has succeeded: the        *)
(* controller runs and all buffers are queued on it.  The controller       *)
(* itself is a driver outside this repository: when it has no buffer it    *)
(* captures into a private one and reports nothing.                        *)
(***************************************************************************)
EXTENDS Naturals, Sequences, FiniteSets, SequencesExt

CONSTANTS Buffer,     \* csi_buffers, N_BUFFERS of them
          NoBuffer,   \* no buffer; for the DMA, its private backup buffer
          CsiItems,   \* csi_config.queue_items
          Task        \* tasks that call capture()

ASSUME BufferAssumption == IsFiniteSet(Buffer) /\ NoBuffer \notin Buffer
ASSUME CsiAssumption    == CsiItems \in Nat /\ CsiItems >= Cardinality(Buffer)

VARIABLES
  csi_queue,             \* buffers handed to esp_cam_ctlr_receive
  dma,                   \* buffer the controller is writing
  frame_ready_que,       \* finished transactions
  has_last_transaction, last_trans,
  capture_pc,            \* per task: where it is inside capture()
  frame,                 \* per task: the buffer its current frame wraps
  overlapped             \* history: two tasks have been inside capture() at once

bufferVars == <<csi_queue, dma, frame_ready_que, has_last_transaction, last_trans,
                capture_pc, frame, overlapped>>

CapturePc == {"out", "recycle", "clear", "receive", "save"}

BufferTypeOK ==
  /\ csi_queue \in BoundedSeq(Buffer, CsiItems)
  /\ dma \in Buffer \cup {NoBuffer}
  /\ frame_ready_que \in BoundedSeq(Buffer, Cardinality(Buffer))
  /\ has_last_transaction \in BOOLEAN
  /\ last_trans \in Buffer \cup {NoBuffer}
  /\ capture_pc \in [Task -> CapturePc]
  /\ frame \in [Task -> Buffer \cup {NoBuffer}]
  /\ overlapped \in BOOLEAN

BufferInit ==
  /\ csi_queue = SetToSeq(Buffer)
  /\ dma = NoBuffer
  /\ frame_ready_que = <<>>
  /\ has_last_transaction = FALSE
  /\ last_trans = NoBuffer
  /\ capture_pc = [t \in Task |-> "out"]
  /\ frame = [t \in Task |-> NoBuffer]
  /\ overlapped = FALSE

\* The CPU cannot read a frame and be inside capture() at once: the call that returns
\* the next frame ends the use of the previous one.
CallCapture(t) ==
  /\ capture_pc[t] = "out"
  /\ capture_pc' = [capture_pc EXCEPT ![t] = "recycle"]
  /\ frame' = [frame EXCEPT ![t] = NoBuffer]
  /\ overlapped' = (overlapped \/ \E u \in Task : capture_pc[u] # "out")
  /\ UNCHANGED <<csi_queue, dma, frame_ready_que, has_last_transaction, last_trans>>

\* Slip: the controller's queue is taken for unbounded.
RecycleUnbounded(t) ==
  /\ capture_pc[t] = "recycle"
  /\ csi_queue' = IF has_last_transaction
                  THEN Append(csi_queue, last_trans) ELSE csi_queue
  /\ capture_pc' = [capture_pc EXCEPT
                      ![t] = IF has_last_transaction THEN "clear" ELSE "receive"]
  /\ UNCHANGED <<dma, frame_ready_que, has_last_transaction, last_trans, frame,
                 overlapped>>

\* Give the previous transaction back to the controller, whose queue refuses it
\* silently when it is full.
Recycle(t) ==
  /\ capture_pc[t] = "recycle"
  /\ csi_queue' = IF has_last_transaction /\ Len(csi_queue) < CsiItems
                  THEN Append(csi_queue, last_trans) ELSE csi_queue
  /\ capture_pc' = [capture_pc EXCEPT
                      ![t] = IF has_last_transaction THEN "clear" ELSE "receive"]
  /\ UNCHANGED <<dma, frame_ready_que, has_last_transaction, last_trans, frame,
                 overlapped>>

ClearLast(t) ==
  /\ capture_pc[t] = "clear"
  /\ has_last_transaction' = FALSE
  /\ capture_pc' = [capture_pc EXCEPT ![t] = "receive"]
  /\ UNCHANGED <<csi_queue, dma, frame_ready_que, last_trans, frame, overlapped>>

ReceiveFrame(t) ==
  /\ capture_pc[t] = "receive"
  /\ frame_ready_que # <<>>
  /\ frame' = [frame EXCEPT ![t] = Head(frame_ready_que)]
  /\ frame_ready_que' = Tail(frame_ready_que)
  /\ capture_pc' = [capture_pc EXCEPT ![t] = "save"]
  /\ UNCHANGED <<csi_queue, dma, has_last_transaction, last_trans, overlapped>>

\* Five seconds without a frame: capture() fails.
ReceiveTimeout(t) ==
  /\ capture_pc[t] = "receive"
  /\ frame_ready_que = <<>>
  /\ capture_pc' = [capture_pc EXCEPT ![t] = "out"]
  /\ UNCHANGED <<csi_queue, dma, frame_ready_que, has_last_transaction, last_trans,
                 frame, overlapped>>

\* Slip: the transaction is not remembered for recycling.
SaveForgets(t) ==
  /\ capture_pc[t] = "save"
  /\ last_trans' = frame[t]
  /\ capture_pc' = [capture_pc EXCEPT ![t] = "out"]
  /\ UNCHANGED <<csi_queue, dma, frame_ready_que, has_last_transaction, frame,
                 overlapped>>

\* Remember the transaction for the next call and return the frame.
Save(t) ==
  /\ capture_pc[t] = "save"
  /\ last_trans' = frame[t]
  /\ has_last_transaction' = TRUE
  /\ capture_pc' = [capture_pc EXCEPT ![t] = "out"]
  /\ UNCHANGED <<csi_queue, dma, frame_ready_que, frame, overlapped>>

CaptureStep(t) == \/ Recycle(t) \/ ClearLast(t) \/ ReceiveFrame(t)
                  \/ ReceiveTimeout(t) \/ Save(t)

\* End of a frame: camera_trans_finished_cb queues the finished buffer unless the
\* queue is full, and the controller goes on with its next buffer or its private one.
FrameEnd ==
  /\ frame_ready_que' =
       IF dma # NoBuffer /\ Len(frame_ready_que) < Cardinality(Buffer)
       THEN Append(frame_ready_que, dma) ELSE frame_ready_que
  /\ dma' = IF csi_queue = <<>> THEN NoBuffer ELSE Head(csi_queue)
  /\ csi_queue' = IF csi_queue = <<>> THEN <<>> ELSE Tail(csi_queue)
  /\ UNCHANGED <<has_last_transaction, last_trans, capture_pc, frame, overlapped>>

-----------------------------------------------------------------------------
Occurrences(b, q) == Cardinality({i \in DOMAIN q : q[i] = b})

Here(p) == IF p THEN 1 ELSE 0

\* The places a buffer can be in: queued on the controller, being written, finished,
\* received by a task that has not saved it yet, or saved for recycling.
Places(b) ==
  Occurrences(b, csi_queue) + Here(dma = b) + Occurrences(b, frame_ready_que)
    + Cardinality({t \in Task : capture_pc[t] = "save" /\ frame[t] = b})
    + Here(/\ has_last_transaction /\ last_trans = b
           /\ \A t \in Task : capture_pc[t] # "clear")

Conserved == \A b \in Buffer : Places(b) = 1

\* The controller may write b now or later without another call to capture().
WithController(b) == dma = b \/ \E i \in DOMAIN csi_queue : csi_queue[i] = b

NoFrameOverwritten == \A t \in Task : frame[t] # NoBuffer => ~WithController(frame[t])

=============================================================================
