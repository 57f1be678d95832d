---------------------- MODULE TelemetrySnapshotProofs ----------------------
(***************************************************************************)
(* For any number of buffers and any queue that holds them all: requests   *)
(* that are answered have a frame, no snapshot is older than a cycle, and  *)
(* as long as calls of capture() do not overlap every buffer is in one     *)
(* place; none is with the controller while camera_task reads it, as long  *)
(* as only camera_task calls capture().                                    *)
(***************************************************************************)
EXTENDS TelemetrySnapshot, FiniteSetTheorems, SequenceTheorems, TLAPS

\* A task has a frame when it is about to save it, and no frame is recycled that was
\* never saved.
PcInv ==
  /\ telemetry_pc # "capturing" => capture_pc[telemetryTask] = "out"
  /\ \A t \in Task : capture_pc[t] = "save" => frame[t] # NoBuffer
  /\ has_last_transaction => last_trans # NoBuffer

\* latest_frame_ is written and the request reset under one lock, so telemetry_task
\* cannot take the frame away in between.
RequestInv ==
  /\ latest_frame_mutex <=> camera_pc = "clear_request"
  /\ camera_pc = "clear_request" => has_latest_frame

\* The copy is of this cycle, but for the one that is found by the next request.
AgeInv ==
  has_latest_frame => latest_age <= IF telemetry_pc \in {"wait", "take"} THEN 1 ELSE 0

\* Where a buffer can be, one predicate for each term of Places.
Queued(b)   == b \in Range(csi_queue)
Written(b)  == dma = b
Finished(b) == b \in Range(frame_ready_que)
Received(b) == \E t \in Task : capture_pc[t] = "save" /\ frame[t] = b
Saved(b)    == /\ has_last_transaction /\ last_trans = b
               /\ \A t \in Task : capture_pc[t] # "clear"

OnePlace(b) ==
  /\ Queued(b) \/ Written(b) \/ Finished(b) \/ Received(b) \/ Saved(b)
  /\ Queued(b) => ~(Written(b) \/ Finished(b) \/ Received(b) \/ Saved(b))
  /\ Written(b) => ~(Finished(b) \/ Received(b) \/ Saved(b))
  /\ Finished(b) => ~(Received(b) \/ Saved(b))
  /\ Received(b) => ~Saved(b)

\* What holds as long as calls do not overlap: whoever is inside capture() is alone
\* there, and has given the last buffer back before it waits for the next one.
ApartInv ==
  /\ \A t, u \in Task : capture_pc[t] # "out" /\ capture_pc[u] # "out" => t = u
  /\ IsInjective(csi_queue) /\ IsInjective(frame_ready_que)
  /\ \A t \in Task : capture_pc[t] \in {"receive", "save"} => ~has_last_transaction
  /\ \A b \in Buffer : OnePlace(b)

\* What holds in addition while telemetry_task stays away from capture(): the frame
\* camera_task reads is the one that is saved for the next call.
AloneInv ==
  /\ ~overlapped
  /\ capture_pc[telemetryTask] = "out" /\ frame[telemetryTask] = NoBuffer
  /\ frame[cameraTask] # NoBuffer =>
       \/ capture_pc[cameraTask] = "save"
       \/ /\ capture_pc[cameraTask] = "out"
          /\ has_last_transaction /\ last_trans = frame[cameraTask]

SnapshotInv ==
  /\ TypeOK /\ PcInv /\ RequestInv /\ ServedMeansFrame /\ AgeInv
  /\ ~overlapped => ApartInv
  /\ ~telemetry_captured => AloneInv

-----------------------------------------------------------------------------
\* The bounded sequences are the sequences that are short enough.
LEMMA Bounded ==
  ASSUME NEW S, NEW n \in Nat, NEW q
  PROVE  q \in BoundedSeq(S, n) <=> q \in Seq(S) /\ Len(q) <= n
<1>1. ASSUME q \in BoundedSeq(S, n)
      PROVE  q \in Seq(S) /\ Len(q) <= n
  <2>1. PICK m \in 0..n : q \in [1..m -> S]
    BY <1>1 DEF BoundedSeq, SeqOf
  <2> QED
    BY <2>1
<1>2. ASSUME q \in Seq(S), Len(q) <= n
      PROVE  q \in BoundedSeq(S, n)
  <2>1. Len(q) \in 0..n /\ q \in [1..Len(q) -> S]
    BY <1>2
  <2> QED
    BY <2>1 DEF BoundedSeq, SeqOf
<1> QED
  BY <1>1, <1>2

\* A buffer put into a queue: it is in it once if it was not there.
LEMMA Appended ==
  ASSUME NEW S, NEW q \in Seq(S), NEW b \in S
  PROVE  /\ Append(q, b) \in Seq(S) /\ Len(Append(q, b)) = Len(q) + 1
         /\ Range(Append(q, b)) = Range(q) \cup {b}
         /\ IsInjective(q) /\ b \notin Range(q) => IsInjective(Append(q, b))
<1>1. /\ Append(q, b) \in Seq(S) /\ Len(Append(q, b)) = Len(q) + 1
      /\ DOMAIN Append(q, b) = 1..(Len(q) + 1)
      /\ \A i \in 1..Len(q) : Append(q, b)[i] = q[i]
      /\ Append(q, b)[Len(q) + 1] = b
  OBVIOUS
<1>2. DOMAIN q = 1..Len(q) /\ Len(q) \in Nat
  OBVIOUS
<1>3. \A i : i \in 1..(Len(q) + 1) <=> i \in 1..Len(q) \/ i = Len(q) + 1
  BY <1>2
<1>4. Range(Append(q, b)) = Range(q) \cup {b}
  BY <1>1, <1>2, <1>3 DEF Range
<1>5. ASSUME IsInjective(q), b \notin Range(q)
      PROVE  IsInjective(Append(q, b))
  BY <1>1, <1>2, <1>3, <1>5 DEF IsInjective, Range
<1> QED
  BY <1>1, <1>4, <1>5

\* A buffer taken out of a queue, where it was once.
LEMMA Taken ==
  ASSUME NEW S, NEW q \in Seq(S), q # <<>>, IsInjective(q)
  PROVE  /\ Head(q) \in S /\ Head(q) \in Range(q)
         /\ Tail(q) \in Seq(S) /\ Len(Tail(q)) = Len(q) - 1
         /\ Range(Tail(q)) = Range(q) \ {Head(q)}
         /\ IsInjective(Tail(q))
<1>1. DOMAIN q = 1..Len(q) /\ Len(q) \in Nat /\ Len(q) >= 1
  OBVIOUS
<1>2. Head(q) = q[1] /\ Head(q) \in S
  BY <1>1
<1>3. /\ Tail(q) \in Seq(S) /\ Len(Tail(q)) = Len(q) - 1
      /\ DOMAIN Tail(q) = 1..(Len(q) - 1)
      /\ \A i \in 1..(Len(q) - 1) : Tail(q)[i] = q[i + 1]
  BY <1>1
<1>4. \A i \in 1..(Len(q) - 1) : i + 1 \in 1..Len(q) /\ i + 1 # 1
  BY <1>1
<1>5. \A i \in 1..Len(q) : i # 1 => i - 1 \in 1..(Len(q) - 1) /\ i = (i - 1) + 1
  BY <1>1
<1>6. IsInjective(Tail(q))
  <2> SUFFICES ASSUME NEW i \in 1..(Len(q) - 1), NEW j \in 1..(Len(q) - 1),
                      Tail(q)[i] = Tail(q)[j]
               PROVE  i = j
    BY <1>3 DEF IsInjective
  <2>1. q[i + 1] = q[j + 1]
    BY <1>3
  <2>2. i + 1 = j + 1
    BY <1>1, <1>4, <2>1 DEF IsInjective
  <2> QED
    BY <2>2
<1>7. Range(Tail(q)) \subseteq Range(q) \ {Head(q)}
  <2> SUFFICES ASSUME NEW i \in 1..(Len(q) - 1)
               PROVE  q[i + 1] \in Range(q) /\ q[i + 1] # Head(q)
    BY <1>3 DEF Range
  <2>1. 1 \in DOMAIN q /\ i + 1 \in DOMAIN q /\ i + 1 # 1
    BY <1>1, <1>4
  <2> QED
    BY <1>2, <2>1 DEF Range, IsInjective
<1>8. Range(q) \ {Head(q)} \subseteq Range(Tail(q))
  <2> SUFFICES ASSUME NEW i \in 1..Len(q), q[i] # Head(q)
               PROVE  q[i] \in Range(Tail(q))
    BY <1>1 DEF Range
  <2>1. i - 1 \in 1..(Len(q) - 1) /\ q[i] = q[(i - 1) + 1]
    BY <1>2, <1>5
  <2> QED
    BY <1>3, <2>1 DEF Range
<1>9. Head(q) \in Range(q)
  BY <1>1, <1>2 DEF Range
<1> QED
  BY <1>2, <1>3, <1>6, <1>7, <1>8, <1>9

\* A queue without repetitions that lacks a buffer has room for it.
LEMMA RoomForOne ==
  ASSUME NEW q \in Seq(Buffer), IsInjective(q), NEW b \in Buffer, b \notin Range(q)
  PROVE  Len(q) < Cardinality(Buffer)
<1>1. DOMAIN q = 1..Len(q) /\ Len(q) \in Nat
  OBVIOUS
<1>2. q \in [1..Len(q) -> Buffer \ {b}]
  BY <1>1 DEF Range
<1>3. q \in Injection(1..Len(q), Buffer \ {b})
  BY <1>2 DEF Injection
<1>4. /\ IsFiniteSet(Buffer \ {b})
      /\ Cardinality(Buffer \ {b}) = Cardinality(Buffer) - 1
      /\ Cardinality(Buffer) \in Nat
  BY BufferAssumption, FS_RemoveElement, FS_CardinalityType
<1>5. Cardinality(1..Len(q)) <= Cardinality(Buffer \ {b})
  BY <1>3, <1>4, FS_Injection
<1>6. Cardinality(1..Len(q)) = Len(q)
  BY <1>1, FS_Interval
<1> QED
  BY <1>1, <1>4, <1>5, <1>6

\* In a queue without repetitions a buffer occurs once or not at all.
LEMMA OccursOnce ==
  ASSUME NEW q, IsInjective(q), NEW b
  PROVE  Occurrences(b, q) = Here(b \in Range(q))
<1>1. CASE b \in Range(q)
  <2>1. PICK i \in DOMAIN q : q[i] = b
    BY <1>1 DEF Range
  <2>2. {j \in DOMAIN q : q[j] = b} = {i}
    BY <2>1 DEF IsInjective
  <2> QED
    BY <1>1, <2>2, FS_Singleton DEF Occurrences, Here
<1>2. CASE b \notin Range(q)
  <2>1. {j \in DOMAIN q : q[j] = b} = {}
    BY <1>2 DEF Range
  <2> QED
    BY <1>2, <2>1, FS_EmptySet DEF Occurrences, Here
<1> QED
  BY <1>1, <1>2

-----------------------------------------------------------------------------
\* The controller begins with each buffer once.
LEMMA AllQueued ==
  LET q == SetToSeq(Buffer)
  IN  /\ q \in Seq(Buffer) /\ Len(q) = Cardinality(Buffer)
      /\ IsInjective(q) /\ Range(q) = Buffer
<1> DEFINE q == SetToSeq(Buffer)
           n == Cardinality(Buffer)
<1>1. n \in Nat /\ ExistsBijection(1..n, Buffer)
  BY BufferAssumption, FS_CardinalityType
<1>2. \E f \in [1..n -> Buffer] : IsInjective(f)
  BY <1>1 DEF ExistsBijection, Bijection, Injection
<1>3. q \in [1..n -> Buffer] /\ IsInjective(q)
  BY <1>2 DEF SetToSeq
<1>4. q \in Seq(Buffer) /\ Len(q) = n
  BY <1>1, <1>3
<1>5. q \in Injection(1..n, Buffer)
  BY <1>3 DEF Injection
<1>6. Cardinality(1..n) = n
  BY <1>1, FS_Interval
<1>7. q \in Surjection(1..n, Buffer)
  BY <1>5, <1>6, BufferAssumption, FS_Injection
<1>8. Range(q) = Buffer
  BY <1>3, <1>7 DEF Surjection, Range
<1> QED
  BY <1>3, <1>4, <1>8

LEMMA SnapshotInit == Init => SnapshotInv
<1> SUFFICES ASSUME Init PROVE SnapshotInv
  OBVIOUS
<1>1. /\ csi_queue \in Seq(Buffer) /\ Len(csi_queue) = Cardinality(Buffer)
      /\ IsInjective(csi_queue) /\ Range(csi_queue) = Buffer
  BY AllQueued DEF Init, BufferInit
<1>2. frame_ready_que = <<>> /\ Len(frame_ready_que) = 0 /\ frame_ready_que \in Seq(Buffer)
  BY DEF Init, BufferInit
<1>3. Cardinality(Buffer) \in Nat /\ CsiItems \in Nat /\ Cardinality(Buffer) <= CsiItems
  BY BufferAssumption, CsiAssumption, FS_CardinalityType
<1>4. /\ csi_queue \in BoundedSeq(Buffer, CsiItems)
      /\ frame_ready_que \in BoundedSeq(Buffer, Cardinality(Buffer))
  <2>1. Len(csi_queue) <= CsiItems /\ Len(frame_ready_que) <= Cardinality(Buffer)
    BY <1>1, <1>2, <1>3
  <2>2. csi_queue \in BoundedSeq(Buffer, CsiItems)
    BY <1>1, <1>3, <2>1, Bounded
  <2>3. frame_ready_que \in BoundedSeq(Buffer, Cardinality(Buffer))
    BY <1>2, <1>3, <2>1, Bounded
  <2> QED
    BY <2>2, <2>3
<1>5. TypeOK
  <2>1. BufferTypeOK
    BY <1>4 DEF BufferTypeOK, Init, BufferInit, CapturePc
  <2>2. latest_age \in 0..MaxAge
    BY DEF Init, MaxAge
  <2> QED
    BY <2>1, <2>2 DEF TypeOK, Init, CameraPc, TelemetryPc
<1>6. PcInv /\ RequestInv /\ ServedMeansFrame /\ AgeInv
  BY TaskAssumption DEF PcInv, RequestInv, ServedMeansFrame, AgeInv, Init, BufferInit
<1>7. ApartInv
  <2>1. IsInjective(frame_ready_que) /\ Range(frame_ready_que) = {}
    BY <1>2 DEF IsInjective, Range
  <2>2. \A b \in Buffer : OnePlace(b)
    BY <1>1, <2>1, BufferAssumption, TaskAssumption
    DEF OnePlace, Queued, Written, Finished, Received, Saved, Init, BufferInit
  <2> QED
    BY <1>1, <2>1, <2>2 DEF ApartInv, Init, BufferInit
<1>8. AloneInv
  BY TaskAssumption DEF AloneInv, Init, BufferInit
<1> QED
  BY <1>5, <1>6, <1>7, <1>8 DEF SnapshotInv

-----------------------------------------------------------------------------
\* The types of the camera's members, the queues as sequences.
LEMMA BufferTypes ==
  BufferTypeOK <=>
    /\ csi_queue \in Seq(Buffer) /\ Len(csi_queue) <= CsiItems
    /\ dma \in Buffer \cup {NoBuffer}
    /\ frame_ready_que \in Seq(Buffer) /\ Len(frame_ready_que) <= Cardinality(Buffer)
    /\ has_last_transaction \in BOOLEAN
    /\ last_trans \in Buffer \cup {NoBuffer}
    /\ capture_pc \in [Task -> CapturePc]
    /\ frame \in [Task -> Buffer \cup {NoBuffer}]
    /\ overlapped \in BOOLEAN
<1>1. Cardinality(Buffer) \in Nat /\ CsiItems \in Nat
  BY BufferAssumption, CsiAssumption, FS_CardinalityType
<1>2. csi_queue \in BoundedSeq(Buffer, CsiItems)
        <=> csi_queue \in Seq(Buffer) /\ Len(csi_queue) <= CsiItems
  BY <1>1, Bounded
<1>3. frame_ready_que \in BoundedSeq(Buffer, Cardinality(Buffer))
        <=> frame_ready_que \in Seq(Buffer) /\ Len(frame_ready_que) <= Cardinality(Buffer)
  BY <1>1, Bounded
<1> QED
  BY <1>2, <1>3 DEF BufferTypeOK

\* Every step keeps the members of the camera well-typed.
LEMMA BufferTypeStep ==
  ASSUME TypeOK, PcInv, Next
  PROVE  BufferTypeOK'
<1>1. Cardinality(Buffer) \in Nat /\ CsiItems \in Nat
  BY BufferAssumption, CsiAssumption, FS_CardinalityType
<1>2. /\ csi_queue \in Seq(Buffer) /\ Len(csi_queue) <= CsiItems
      /\ dma \in Buffer \cup {NoBuffer}
      /\ frame_ready_que \in Seq(Buffer) /\ Len(frame_ready_que) <= Cardinality(Buffer)
      /\ has_last_transaction \in BOOLEAN
      /\ last_trans \in Buffer \cup {NoBuffer}
      /\ capture_pc \in [Task -> CapturePc]
      /\ frame \in [Task -> Buffer \cup {NoBuffer}]
      /\ overlapped \in BOOLEAN
  BY BufferTypes DEF TypeOK
<1>3. ASSUME NEW t \in Task, CallCapture(t) PROVE BufferTypeOK'
  <2>1. overlapped' \in BOOLEAN
    BY <1>2, <1>3 DEF CallCapture
  <2> QED
    BY <1>2, <1>3, <2>1 DEF BufferTypeOK, CallCapture, CapturePc, TypeOK
<1>4. ASSUME NEW t \in Task, Recycle(t) PROVE BufferTypeOK'
  <2>1. csi_queue' \in BoundedSeq(Buffer, CsiItems)
    <3>1. CASE csi_queue' = csi_queue
      BY <3>1 DEF TypeOK, BufferTypeOK
    <3>2. CASE csi_queue' # csi_queue
      <4>1. /\ has_last_transaction /\ Len(csi_queue) < CsiItems
            /\ csi_queue' = Append(csi_queue, last_trans)
        BY <1>4, <3>2 DEF Recycle
      <4>2. last_trans \in Buffer
        BY <1>2, <4>1 DEF PcInv
      <4>3. csi_queue' \in Seq(Buffer) /\ Len(csi_queue') = Len(csi_queue) + 1
        BY <1>2, <4>1, <4>2, Appended
      <4>4. Len(csi_queue) \in Nat
        BY <1>2
      <4>5. Len(csi_queue') <= CsiItems
        BY <1>1, <4>1, <4>3, <4>4
      <4> QED
        BY <1>1, <4>3, <4>5, Bounded
    <3> QED
      BY <3>1, <3>2
  <2>2. capture_pc' \in [Task -> CapturePc]
    BY <1>2, <1>4 DEF Recycle, CapturePc
  <2> QED
    BY <1>4, <2>1, <2>2 DEF BufferTypeOK, Recycle, TypeOK
<1>5. ASSUME NEW t \in Task, ClearLast(t) PROVE BufferTypeOK'
  BY <1>2, <1>5 DEF BufferTypeOK, ClearLast, CapturePc, TypeOK
<1>6. ASSUME NEW t \in Task, ReceiveFrame(t) PROVE BufferTypeOK'
  <2>1. frame_ready_que # <<>> /\ frame_ready_que' = Tail(frame_ready_que)
    BY <1>6 DEF ReceiveFrame
  <2>2. /\ Head(frame_ready_que) \in Buffer
        /\ Tail(frame_ready_que) \in Seq(Buffer)
        /\ Len(Tail(frame_ready_que)) = Len(frame_ready_que) - 1
        /\ Len(frame_ready_que) \in Nat
    BY <1>2, <2>1
  <2>3. Len(frame_ready_que') <= Cardinality(Buffer)
    BY <1>1, <1>2, <2>1, <2>2
  <2>4. frame_ready_que' \in BoundedSeq(Buffer, Cardinality(Buffer))
    BY <1>1, <2>1, <2>2, <2>3, Bounded
  <2>5. /\ capture_pc' \in [Task -> CapturePc]
        /\ frame' \in [Task -> Buffer \cup {NoBuffer}]
    BY <1>2, <1>6, <2>2 DEF ReceiveFrame, CapturePc
  <2> QED
    BY <1>6, <2>4, <2>5 DEF BufferTypeOK, ReceiveFrame, TypeOK
<1>7. ASSUME NEW t \in Task, ReceiveTimeout(t) PROVE BufferTypeOK'
  BY <1>2, <1>7 DEF BufferTypeOK, ReceiveTimeout, CapturePc, TypeOK
<1>8. ASSUME NEW t \in Task, Save(t) PROVE BufferTypeOK'
  BY <1>2, <1>8 DEF BufferTypeOK, Save, CapturePc, TypeOK
<1>9. ASSUME FrameEnd PROVE BufferTypeOK'
  <2>1. csi_queue' \in BoundedSeq(Buffer, CsiItems) /\ dma' \in Buffer \cup {NoBuffer}
    <3>1. CASE csi_queue = <<>>
      BY <1>9, <3>1 DEF FrameEnd, TypeOK, BufferTypeOK
    <3>2. CASE csi_queue # <<>>
      <4>1. /\ Head(csi_queue) \in Buffer /\ Tail(csi_queue) \in Seq(Buffer)
            /\ Len(Tail(csi_queue)) = Len(csi_queue) - 1 /\ Len(csi_queue) \in Nat
        BY <1>2, <3>2
      <4>2. Len(Tail(csi_queue)) <= CsiItems
        BY <1>1, <1>2, <4>1
      <4>3. Tail(csi_queue) \in BoundedSeq(Buffer, CsiItems)
        BY <1>1, <4>1, <4>2, Bounded
      <4> QED
        BY <1>9, <3>2, <4>1, <4>3 DEF FrameEnd
    <3> QED
      BY <3>1, <3>2
  <2>2. frame_ready_que' \in BoundedSeq(Buffer, Cardinality(Buffer))
    <3>1. CASE frame_ready_que' = frame_ready_que
      BY <3>1 DEF TypeOK, BufferTypeOK
    <3>2. CASE frame_ready_que' # frame_ready_que
      <4>1. /\ dma # NoBuffer /\ Len(frame_ready_que) < Cardinality(Buffer)
            /\ frame_ready_que' = Append(frame_ready_que, dma)
        BY <1>9, <3>2 DEF FrameEnd
      <4>2. /\ frame_ready_que' \in Seq(Buffer)
            /\ Len(frame_ready_que') = Len(frame_ready_que) + 1
        BY <1>2, <4>1, Appended
      <4>3. Len(frame_ready_que) \in Nat
        BY <1>2
      <4>4. Len(frame_ready_que') <= Cardinality(Buffer)
        BY <1>1, <4>1, <4>2, <4>3
      <4> QED
        BY <1>1, <4>2, <4>4, Bounded
    <3> QED
      BY <3>1, <3>2
  <2> QED
    BY <1>9, <2>1, <2>2 DEF BufferTypeOK, FrameEnd, TypeOK
<1>10. ASSUME HeartbeatSent PROVE BufferTypeOK'
  BY <1>2, <1>10 DEF BufferTypeOK, HeartbeatSent, TypeOK
<1>11. ASSUME UNCHANGED bufferVars PROVE BufferTypeOK'
  BY <1>11 DEF bufferVars, BufferTypeOK, TypeOK
<1>12. cameraTask \in Task /\ telemetryTask \in Task
  BY TaskAssumption
<1>13. CASE CameraTask
  BY <1>3, <1>11, <1>12, <1>13
  DEF CameraTask, CameraLoop, CameraCaptured, Encode, CheckRequest, CopyLatest,
      ClearRequest
<1>14. CASE TelemetryTask
  BY <1>3, <1>10, <1>11, <1>12, <1>14
  DEF TelemetryTask, RequestSnapshot, SnapshotServed, SnapshotTimeout, TakeLatest,
      CollectCaptures, CollectDone
<1>15. CASE Driver
  BY <1>4, <1>5, <1>6, <1>7, <1>8, <1>9, <1>15 DEF Driver, CaptureStep
<1> QED
  BY <1>13, <1>14, <1>15 DEF Next

\* The rest of the types, and what the two tasks know of the request and the copy.
LEMMA RequestStep ==
  ASSUME TypeOK, PcInv, RequestInv, ServedMeansFrame, AgeInv, Next
  PROVE  /\ (camera_pc \in CameraPc)'
         /\ (telemetry_pc \in TelemetryPc)'
         /\ (/\ request_telemetry_snapshot \in BOOLEAN
             /\ has_latest_frame \in BOOLEAN
             /\ latest_frame_mutex \in BOOLEAN
             /\ latest_age \in 0..MaxAge
             /\ telemetry_captured \in BOOLEAN)'
         /\ RequestInv' /\ ServedMeansFrame' /\ AgeInv'
<1> USE DEF snapshotVars
<1>1. ASSUME CameraTask
      PROVE  /\ camera_pc' \in CameraPc /\ telemetry_pc' = telemetry_pc
             /\ request_telemetry_snapshot' \in BOOLEAN
             /\ has_latest_frame' \in BOOLEAN /\ latest_frame_mutex' \in BOOLEAN
             /\ latest_age' \in 0..MaxAge /\ telemetry_captured' = telemetry_captured
             /\ RequestInv' /\ ServedMeansFrame' /\ AgeInv'
  <2> USE DEF TypeOK, RequestInv, ServedMeansFrame, AgeInv, CameraPc, MaxAge
  <2>1. CASE CameraLoop \/ CameraCaptured \/ Encode \/ CheckRequest
    BY <2>1 DEF CameraLoop, CameraCaptured, Encode, CheckRequest
  <2>2. CASE CopyLatest
    BY <2>2 DEF CopyLatest
  <2>3. CASE ClearRequest
    BY <2>3 DEF ClearRequest
  <2> QED
    BY <1>1, <2>1, <2>2, <2>3 DEF CameraTask
<1>2. ASSUME TelemetryTask
      PROVE  /\ telemetry_pc' \in TelemetryPc /\ camera_pc' = camera_pc
             /\ request_telemetry_snapshot' \in BOOLEAN
             /\ has_latest_frame' \in BOOLEAN /\ latest_frame_mutex' \in BOOLEAN
             /\ latest_age' \in 0..MaxAge /\ telemetry_captured' \in BOOLEAN
             /\ RequestInv' /\ ServedMeansFrame' /\ AgeInv'
  <2> USE DEF TypeOK, RequestInv, ServedMeansFrame, AgeInv, TelemetryPc, MaxAge
  <2>1. CASE RequestSnapshot
    BY <2>1 DEF RequestSnapshot
  <2>2. CASE SnapshotServed \/ SnapshotTimeout
    BY <2>2 DEF SnapshotServed, SnapshotTimeout
  <2>3. CASE TakeLatest
    BY <2>3 DEF TakeLatest
  <2>4. CASE CollectCaptures
    BY <2>4 DEF CollectCaptures
  <2>5. CASE CollectDone
    BY <2>5 DEF CollectDone
  <2>6. CASE HeartbeatSent
    BY <2>6 DEF HeartbeatSent
  <2> QED
    BY <1>2, <2>1, <2>2, <2>3, <2>4, <2>5, <2>6 DEF TelemetryTask
<1>3. CASE Driver
  BY <1>3 DEF Driver, TypeOK, RequestInv, ServedMeansFrame, AgeInv
<1> QED
  BY <1>1, <1>2, <1>3 DEF Next, TypeOK

LEMMA PcStep ==
  ASSUME TypeOK, PcInv, Next
  PROVE  PcInv'
<1>1. /\ capture_pc \in [Task -> CapturePc]
      /\ frame \in [Task -> Buffer \cup {NoBuffer}]
      /\ cameraTask \in Task /\ telemetryTask \in Task /\ cameraTask # telemetryTask
  BY TaskAssumption DEF TypeOK, BufferTypeOK
<1>2. frame_ready_que # <<>> => Head(frame_ready_que) # NoBuffer
  <2>1. frame_ready_que \in Seq(Buffer)
    BY BufferTypes DEF TypeOK
  <2> QED
    BY <2>1, BufferAssumption
<1>3. CASE CameraTask
  <2>1. CASE CameraLoop
    BY <1>1, <2>1 DEF CameraLoop, CallCapture, PcInv
  <2>2. CASE UNCHANGED <<bufferVars, telemetry_pc>>
    BY <2>2 DEF bufferVars, PcInv
  <2> QED
    BY <1>3, <2>1, <2>2 DEF CameraTask, CameraCaptured, Encode, CheckRequest, CopyLatest,
                            ClearRequest
<1>4. CASE TelemetryTask
  <2>1. CASE CollectCaptures
    BY <1>1, <2>1 DEF CollectCaptures, CallCapture, PcInv
  <2>2. CASE CollectDone
    BY <1>1, <2>2 DEF CollectDone, bufferVars, PcInv
  <2>3. CASE HeartbeatSent
    BY <1>1, <2>3 DEF HeartbeatSent, PcInv
  <2>4. CASE RequestSnapshot \/ SnapshotServed \/ SnapshotTimeout \/ TakeLatest
    BY <2>4 DEF RequestSnapshot, SnapshotServed, SnapshotTimeout, TakeLatest, bufferVars,
                PcInv
  <2> QED
    BY <1>4, <2>1, <2>2, <2>3, <2>4 DEF TelemetryTask
<1>5. CASE Driver
  <2>1. CASE FrameEnd
    BY <1>5, <2>1 DEF Driver, FrameEnd, PcInv
  <2>2. ASSUME NEW t \in Task, CaptureStep(t)
        PROVE  PcInv'
    <3>0. telemetry_pc' = telemetry_pc
      BY <1>5 DEF Driver
    <3>1. CASE Recycle(t)
      BY <1>1, <3>0, <3>1 DEF Recycle, PcInv
    <3>2. CASE ClearLast(t)
      BY <1>1, <3>0, <3>2 DEF ClearLast, PcInv
    <3>3. CASE ReceiveFrame(t)
      BY <1>1, <1>2, <3>0, <3>3 DEF ReceiveFrame, PcInv
    <3>4. CASE ReceiveTimeout(t)
      BY <1>1, <3>0, <3>4 DEF ReceiveTimeout, PcInv
    <3>5. CASE Save(t)
      BY <1>1, <3>0, <3>5 DEF Save, PcInv
    <3> QED
      BY <2>2, <3>1, <3>2, <3>3, <3>4, <3>5 DEF CaptureStep
  <2> QED
    BY <1>5, <2>1, <2>2 DEF Driver
<1> QED
  BY <1>3, <1>4, <1>5 DEF Next

-----------------------------------------------------------------------------
\* With one task inside capture() at most, its place decides for all.
LEMMA InsideAlone ==
  ASSUME NEW t \in Task, \A u \in Task \ {t} : capture_pc[u] = "out"
  PROVE  \A b : /\ Received(b) <=> capture_pc[t] = "save" /\ frame[t] = b
                /\ Saved(b) <=> /\ has_last_transaction /\ last_trans = b
                                /\ capture_pc[t] # "clear"
<1> QED
  BY DEF Received, Saved

\* While calls do not overlap, every buffer moves from one place to the next.
LEMMA ApartCapture ==
  ASSUME TypeOK, PcInv, ApartInv, NEW t \in Task,
         CallCapture(t) \/ CaptureStep(t), ~overlapped'
  PROVE  ApartInv'
<1>1. /\ csi_queue \in Seq(Buffer) /\ Len(csi_queue) <= CsiItems
      /\ frame_ready_que \in Seq(Buffer)
      /\ has_last_transaction \in BOOLEAN
      /\ last_trans \in Buffer \cup {NoBuffer}
      /\ capture_pc \in [Task -> CapturePc]
      /\ frame \in [Task -> Buffer \cup {NoBuffer}]
      /\ NoBuffer \notin Buffer
  BY BufferTypes, BufferAssumption DEF TypeOK
<1>2. \A u \in Task \ {t} : capture_pc[u] = "out" /\ capture_pc'[u] = "out"
  <2>1. CASE CallCapture(t)
    BY <1>1, <2>1 DEF CallCapture
  <2>2. CASE CaptureStep(t)
    <3>1. capture_pc[t] # "out"
      BY <2>2
      DEF CaptureStep, Recycle, ClearLast, ReceiveFrame, ReceiveTimeout, Save
    <3>2. \A u \in Task \ {t} : capture_pc[u] = "out"
      BY <3>1 DEF ApartInv
    <3>3. \A u \in Task \ {t} : capture_pc'[u] = capture_pc[u]
      BY <1>1, <2>2
      DEF CaptureStep, Recycle, ClearLast, ReceiveFrame, ReceiveTimeout, Save
    <3> QED
      BY <3>2, <3>3
  <2> QED
    BY <2>1, <2>2
<1>3. \A b : /\ Received(b) <=> capture_pc[t] = "save" /\ frame[t] = b
             /\ Saved(b) <=> /\ has_last_transaction /\ last_trans = b
                             /\ capture_pc[t] # "clear"
  BY <1>2, InsideAlone
<1>4. \A b : /\ Received(b)' <=> capture_pc'[t] = "save" /\ frame'[t] = b
             /\ Saved(b)' <=> /\ has_last_transaction' /\ last_trans' = b
                              /\ capture_pc'[t] # "clear"
  BY <1>2 DEF Received, Saved
<1>5. \A u, v \in Task : capture_pc'[u] # "out" /\ capture_pc'[v] # "out" => u = v
  BY <1>2
<1>6. ASSUME capture_pc'[t] \in {"receive", "save"} => ~has_last_transaction'
      PROVE  \A u \in Task : capture_pc'[u] \in {"receive", "save"} => ~has_last_transaction'
  BY <1>2, <1>6
<1> USE DEF OnePlace, Queued, Written, Finished
\* The call ends the use of the frame; its buffer stays saved until it is recycled.
<1>7. CASE CallCapture(t)
  BY <1>1, <1>3, <1>4, <1>5, <1>6, <1>7 DEF CallCapture, ApartInv
\* There is room for the last buffer in the controller's queue.
<1>8. CASE Recycle(t)
  <2>1. CASE ~has_last_transaction
    BY <1>1, <1>3, <1>4, <1>5, <1>6, <1>8, <2>1 DEF Recycle, ApartInv
  <2>2. CASE has_last_transaction
    <3>1. last_trans \in Buffer
      BY <1>1, <2>2 DEF PcInv
    <3>2. IsInjective(csi_queue) /\ last_trans \notin Range(csi_queue)
      BY <1>3, <1>8, <2>2, <3>1 DEF ApartInv, Recycle
    <3>3. Len(csi_queue) < CsiItems
      <4>1. Len(csi_queue) < Cardinality(Buffer)
        BY <1>1, <3>1, <3>2, RoomForOne
      <4>2. Cardinality(Buffer) \in Nat
        BY BufferAssumption, FS_CardinalityType
      <4>3. Len(csi_queue) \in Nat
        BY <1>1
      <4> QED
        BY <4>1, <4>2, <4>3, CsiAssumption
    <3>4. csi_queue' = Append(csi_queue, last_trans) /\ capture_pc'[t] = "clear"
      BY <1>1, <1>8, <2>2, <3>3 DEF Recycle
    <3>5. /\ Range(csi_queue') = Range(csi_queue) \cup {last_trans}
          /\ IsInjective(csi_queue')
      BY <1>1, <3>1, <3>2, <3>4, Appended
    <3>6. capture_pc[t] = "recycle"
      BY <1>8 DEF Recycle
    <3> QED
      BY <1>1, <1>3, <1>4, <1>5, <1>6, <1>8, <2>2, <3>1, <3>4, <3>5, <3>6
      DEF Recycle, ApartInv
  <2> QED
    BY <1>1, <2>1, <2>2
<1>9. CASE ClearLast(t)
  BY <1>1, <1>3, <1>4, <1>5, <1>6, <1>9 DEF ClearLast, ApartInv
<1>10. CASE ReceiveFrame(t)
  <2> DEFINE b == Head(frame_ready_que)
  <2>1. frame_ready_que # <<>> /\ frame_ready_que' = Tail(frame_ready_que)
    BY <1>10 DEF ReceiveFrame
  <2>2. IsInjective(frame_ready_que)
    BY DEF ApartInv
  <2>3. /\ b \in Buffer /\ b \in Range(frame_ready_que)
        /\ Range(frame_ready_que') = Range(frame_ready_que) \ {b}
        /\ IsInjective(frame_ready_que')
    BY <1>1, <2>1, <2>2, Taken
  <2>4. capture_pc[t] = "receive" /\ capture_pc'[t] = "save" /\ frame'[t] = b
    BY <1>1, <1>10 DEF ReceiveFrame
  <2>5. ~has_last_transaction
    BY <2>4 DEF ApartInv
  <2> HIDE DEF b
  <2> QED
    BY <1>1, <1>3, <1>4, <1>5, <1>6, <1>10, <2>3, <2>4, <2>5 DEF ReceiveFrame, ApartInv
<1>11. CASE ReceiveTimeout(t)
  BY <1>1, <1>3, <1>4, <1>5, <1>6, <1>11 DEF ReceiveTimeout, ApartInv
<1>12. CASE Save(t)
  BY <1>1, <1>3, <1>4, <1>5, <1>6, <1>12 DEF Save, ApartInv
<1> QED
  BY <1>7, <1>8, <1>9, <1>10, <1>11, <1>12 DEF CaptureStep

\* There is room for the finished buffer in the interrupt's queue.
LEMMA ApartFrameEnd ==
  ASSUME TypeOK, ApartInv, FrameEnd
  PROVE  ApartInv'
<1>1. /\ csi_queue \in Seq(Buffer)
      /\ dma \in Buffer \cup {NoBuffer}
      /\ frame_ready_que \in Seq(Buffer)
      /\ NoBuffer \notin Buffer
  BY BufferTypes, BufferAssumption DEF TypeOK
<1>2. /\ UNCHANGED <<has_last_transaction, last_trans, capture_pc, frame>>
      /\ \A b : (Received(b)' <=> Received(b)) /\ (Saved(b)' <=> Saved(b))
  BY DEF FrameEnd, Received, Saved
<1> USE DEF OnePlace, Queued, Written, Finished
<1>3. /\ Range(frame_ready_que') =
            IF dma = NoBuffer THEN Range(frame_ready_que)
                              ELSE Range(frame_ready_que) \cup {dma}
      /\ IsInjective(frame_ready_que')
  <2>1. CASE dma = NoBuffer
    BY <2>1 DEF FrameEnd, ApartInv
  <2>2. CASE dma # NoBuffer
    <3>1. dma \in Buffer
      BY <1>1, <2>2
    <3>2. IsInjective(frame_ready_que) /\ dma \notin Range(frame_ready_que)
      BY <3>1 DEF ApartInv
    <3>3. Len(frame_ready_que) < Cardinality(Buffer)
      BY <1>1, <3>1, <3>2, RoomForOne
    <3>4. frame_ready_que' = Append(frame_ready_que, dma)
      BY <2>2, <3>3 DEF FrameEnd
    <3> QED
      BY <1>1, <2>2, <3>1, <3>2, <3>4, Appended
  <2> QED
    BY <2>1, <2>2
<1>4. /\ \A t, u \in Task : capture_pc'[t] # "out" /\ capture_pc'[u] # "out" => t = u
      /\ \A t \in Task : capture_pc'[t] \in {"receive", "save"} => ~has_last_transaction'
  BY <1>2 DEF ApartInv
<1>5. CASE csi_queue = <<>>
  <2>1. csi_queue' = csi_queue /\ dma' = NoBuffer
    BY <1>5 DEF FrameEnd
  <2> QED
    BY <1>1, <1>2, <1>3, <1>4, <2>1 DEF ApartInv
<1>6. CASE csi_queue # <<>>
  <2>1. csi_queue' = Tail(csi_queue) /\ dma' = Head(csi_queue)
    BY <1>6 DEF FrameEnd
  <2>2. IsInjective(csi_queue)
    BY DEF ApartInv
  <2>3. /\ dma' \in Buffer /\ dma' \in Range(csi_queue)
        /\ Range(csi_queue') = Range(csi_queue) \ {dma'}
        /\ IsInjective(csi_queue')
    BY <1>1, <1>6, <2>1, <2>2, Taken
  <2> QED
    BY <1>1, <1>2, <1>3, <1>4, <2>3 DEF ApartInv
<1> QED
  BY <1>5, <1>6

LEMMA ApartStep ==
  ASSUME SnapshotInv, Next, ~overlapped'
  PROVE  ApartInv'
<1>1. TypeOK /\ PcInv
  BY DEF SnapshotInv
<1>2. ASSUME overlapped' = overlapped
      PROVE  ApartInv
  BY <1>2 DEF SnapshotInv
<1>3. ASSUME NEW t \in Task, CallCapture(t)
      PROVE  ApartInv'
  <2>1. ~overlapped
    BY <1>3 DEF CallCapture
  <2>2. ApartInv
    BY <2>1 DEF SnapshotInv
  <2> QED
    BY <1>1, <1>3, <2>2, ApartCapture
<1>4. ASSUME UNCHANGED bufferVars
      PROVE  ApartInv'
  BY <1>2, <1>4
  DEF bufferVars, ApartInv, OnePlace, Queued, Written, Finished, Received, Saved
<1>5. CASE CameraTask
  BY <1>3, <1>4, <1>5, TaskAssumption
  DEF CameraTask, CameraLoop, CameraCaptured, Encode, CheckRequest, CopyLatest,
      ClearRequest
<1>6. CASE TelemetryTask
  \* The frame that is let go has been saved.
  <2>1. CASE HeartbeatSent
    <3>1. /\ UNCHANGED <<csi_queue, dma, frame_ready_que, has_last_transaction,
                         last_trans, capture_pc, overlapped>>
          /\ \A t \in Task : frame'[t] = frame[t] \/ t = telemetryTask
      BY <1>1, <2>1 DEF HeartbeatSent, TypeOK, BufferTypeOK
    <3>2. capture_pc[telemetryTask] = "out"
      BY <1>1, <2>1 DEF HeartbeatSent, PcInv
    <3>3. \A b : (Received(b)' <=> Received(b)) /\ (Saved(b)' <=> Saved(b))
      BY <3>1, <3>2 DEF Received, Saved
    <3> QED
      BY <1>2, <3>1, <3>3 DEF ApartInv, OnePlace, Queued, Written, Finished
  <2> QED
    BY <1>3, <1>4, <1>6, <2>1, TaskAssumption
    DEF TelemetryTask, RequestSnapshot, SnapshotServed, SnapshotTimeout, TakeLatest,
        CollectCaptures, CollectDone
<1>7. CASE Driver
  <2>1. CASE FrameEnd
    BY <1>1, <1>2, <2>1, ApartFrameEnd DEF FrameEnd
  <2>2. ASSUME NEW t \in Task, CaptureStep(t)
        PROVE  ApartInv'
    <3>1. overlapped' = overlapped
      BY <2>2 DEF CaptureStep, Recycle, ClearLast, ReceiveFrame, ReceiveTimeout, Save
    <3> QED
      BY <1>1, <1>2, <2>2, <3>1, ApartCapture
  <2> QED
    BY <1>7, <2>1, <2>2 DEF Driver
<1> QED
  BY <1>5, <1>6, <1>7 DEF Next

\* While telemetry_task has not called capture(), camera_task's frame is the saved one.
LEMMA AloneStep ==
  ASSUME SnapshotInv, Next, ~telemetry_captured'
  PROVE  AloneInv'
<1>1. ~telemetry_captured
  BY DEF Next, CameraTask, TelemetryTask, Driver, CameraLoop, CameraCaptured, Encode,
         CheckRequest, CopyLatest, ClearRequest, RequestSnapshot, SnapshotServed,
         SnapshotTimeout, TakeLatest, CollectCaptures, CollectDone, HeartbeatSent
<1>2. AloneInv /\ ApartInv
  BY <1>1 DEF SnapshotInv, AloneInv
<1>3. /\ has_last_transaction \in BOOLEAN
      /\ capture_pc \in [Task -> CapturePc]
      /\ frame \in [Task -> Buffer \cup {NoBuffer}]
      /\ cameraTask \in Task /\ telemetryTask \in Task /\ cameraTask # telemetryTask
      /\ Task = {cameraTask, telemetryTask}
  BY BufferTypes, TaskAssumption DEF SnapshotInv, TypeOK
<1>4. ASSUME CallCapture(cameraTask) PROVE AloneInv'
  BY <1>2, <1>3, <1>4 DEF CallCapture, AloneInv
<1>5. ASSUME Recycle(cameraTask) PROVE AloneInv'
  BY <1>2, <1>3, <1>5 DEF Recycle, AloneInv
<1>6. ASSUME ClearLast(cameraTask) PROVE AloneInv'
  BY <1>2, <1>3, <1>6 DEF ClearLast, AloneInv
<1>7. ASSUME ReceiveFrame(cameraTask) PROVE AloneInv'
  BY <1>2, <1>3, <1>7 DEF ReceiveFrame, AloneInv
<1>8. ASSUME ReceiveTimeout(cameraTask) PROVE AloneInv'
  BY <1>2, <1>3, <1>8 DEF ReceiveTimeout, AloneInv
<1>9. ASSUME Save(cameraTask) PROVE AloneInv'
  BY <1>2, <1>3, <1>9 DEF Save, AloneInv
<1>10. ASSUME HeartbeatSent \/ FrameEnd PROVE AloneInv'
  BY <1>2, <1>3, <1>10 DEF HeartbeatSent, FrameEnd, AloneInv
<1>11. ASSUME UNCHANGED bufferVars PROVE AloneInv'
  BY <1>2, <1>11 DEF bufferVars, AloneInv
<1>12. CASE CameraTask
  BY <1>4, <1>11, <1>12
  DEF CameraTask, CameraLoop, CameraCaptured, Encode, CheckRequest, CopyLatest,
      ClearRequest
<1>13. CASE TelemetryTask
  <2>1. ~CollectCaptures
    BY DEF CollectCaptures
  <2> QED
    BY <1>10, <1>11, <1>13, <2>1
    DEF TelemetryTask, RequestSnapshot, SnapshotServed, SnapshotTimeout, TakeLatest,
        CollectDone
<1>14. CASE Driver
  <2>1. ASSUME NEW t \in Task, CaptureStep(t)
        PROVE  AloneInv'
    <3>1. t = cameraTask
      BY <1>2, <1>3, <2>1
      DEF CaptureStep, Recycle, ClearLast, ReceiveFrame, ReceiveTimeout, Save, AloneInv
    <3> QED
      BY <1>5, <1>6, <1>7, <1>8, <1>9, <2>1, <3>1 DEF CaptureStep
  <2> QED
    BY <1>10, <1>14, <2>1 DEF Driver
<1> QED
  BY <1>12, <1>13, <1>14 DEF Next

LEMMA SnapshotStep == SnapshotInv /\ [Next]_vars => SnapshotInv'
<1> SUFFICES ASSUME SnapshotInv, [Next]_vars PROVE SnapshotInv'
  OBVIOUS
<1>1. TypeOK /\ PcInv /\ RequestInv /\ ServedMeansFrame /\ AgeInv
  BY DEF SnapshotInv
<1>2. CASE Next
  <2>1. TypeOK'
    BY <1>1, <1>2, BufferTypeStep, RequestStep DEF TypeOK
  <2>2. PcInv' /\ RequestInv' /\ ServedMeansFrame' /\ AgeInv'
    BY <1>1, <1>2, PcStep, RequestStep
  <2>3. /\ ~overlapped' => ApartInv'
        /\ ~telemetry_captured' => AloneInv'
    BY <1>2, ApartStep, AloneStep
  <2> QED
    BY <2>1, <2>2, <2>3 DEF SnapshotInv
<1>3. CASE UNCHANGED vars
  BY <1>3 DEF vars, bufferVars, snapshotVars, SnapshotInv, TypeOK, BufferTypeOK, PcInv,
              RequestInv, ServedMeansFrame, AgeInv, ApartInv, AloneInv, OnePlace, Queued,
              Written, Finished, Received, Saved
<1> QED
  BY <1>2, <1>3

LEMMA SnapshotInvariant == Spec => []SnapshotInv
<1> QED
  BY SnapshotInit, SnapshotStep, PTL DEF Spec

-----------------------------------------------------------------------------
\* The types of the camera and of the two tasks that use it.
THEOREM SnapshotTypeCorrect == Spec => []TypeOK
<1>1. SnapshotInv => TypeOK
  BY DEF SnapshotInv
<1> QED
  BY <1>1, SnapshotInvariant, PTL

\* telemetry_task finds a frame in latest_frame_ whenever camera_task has reset the
\* request, so it falls back to capture() after a timeout only.
THEOREM ServedAlwaysFrame == Spec => []ServedMeansFrame
<1>1. SnapshotInv => ServedMeansFrame
  BY DEF SnapshotInv
<1> QED
  BY <1>1, SnapshotInvariant, PTL

\* A late copy is used by the following heartbeat, whatever number of cycles the device
\* has run.
THEOREM SnapshotAlwaysRecent == Spec => []SnapshotAgeBounded
<1>1. SnapshotInv => SnapshotAgeBounded
  BY DEF SnapshotInv, AgeInv, SnapshotAgeBounded, TypeOK, MaxAge
<1> QED
  BY <1>1, SnapshotInvariant, PTL

\* The five terms of Places are 1 or 0, and one of them is 1.
LEMMA PlacesCounted ==
  ASSUME SnapshotInv, ~overlapped
  PROVE  Conserved
<1>1. ApartInv
  BY DEF SnapshotInv
<1> SUFFICES ASSUME NEW b \in Buffer
             PROVE  Places(b) = 1
  BY DEF Conserved
<1>2. /\ Occurrences(b, csi_queue) = Here(Queued(b))
      /\ Occurrences(b, frame_ready_que) = Here(Finished(b))
  BY <1>1, OccursOnce DEF ApartInv, Queued, Finished
<1>3. Cardinality({t \in Task : capture_pc[t] = "save" /\ frame[t] = b})
        = Here(Received(b))
  <2>1. CASE Received(b)
    <3>1. PICK t \in Task : capture_pc[t] = "save" /\ frame[t] = b
      BY <2>1 DEF Received
    <3>2. {u \in Task : capture_pc[u] = "save" /\ frame[u] = b} = {t}
      BY <1>1, <3>1 DEF ApartInv
    <3> QED
      BY <2>1, <3>2, FS_Singleton DEF Here
  <2>2. CASE ~Received(b)
    <3>1. {t \in Task : capture_pc[t] = "save" /\ frame[t] = b} = {}
      BY <2>2 DEF Received
    <3> QED
      BY <2>2, <3>1, FS_EmptySet DEF Here
  <2> QED
    BY <2>1, <2>2
<1>4. Places(b) = Here(Queued(b)) + Here(Written(b)) + Here(Finished(b))
                    + Here(Received(b)) + Here(Saved(b))
  BY <1>2, <1>3 DEF Places, Here, Written, Saved
<1>5. OnePlace(b)
  BY <1>1 DEF ApartInv
<1> QED
  BY <1>4, <1>5 DEF OnePlace, Here

\* For any number of buffers: no buffer is lost or queued twice until two calls of
\* capture() overlap, and none is overwritten while it is read until telemetry_task
\* calls capture().
THEOREM BuffersAlwaysConserved == Spec => []BuffersConservedApart
<1>1. SnapshotInv => BuffersConservedApart
  <2> SUFFICES ASSUME SnapshotInv, ~telemetry_captured
               PROVE  NoFrameOverwritten
    BY PlacesCounted DEF BuffersConservedApart
  <2>1. /\ AloneInv /\ ApartInv
        /\ frame[cameraTask] \in Buffer \cup {NoBuffer}
        /\ cameraTask \in Task /\ telemetryTask \in Task
        /\ Task = {cameraTask, telemetryTask}
    BY TaskAssumption DEF SnapshotInv, AloneInv, TypeOK, BufferTypeOK
  <2>2. \A b : WithController(b) <=> Written(b) \/ Queued(b)
    BY DEF WithController, Written, Queued, Range
  <2>3. ASSUME frame[cameraTask] # NoBuffer
        PROVE  ~WithController(frame[cameraTask])
    <3>1. Received(frame[cameraTask]) \/ Saved(frame[cameraTask])
      BY <2>1, <2>3 DEF AloneInv, Received, Saved
    <3> QED
      BY <2>1, <2>2, <2>3, <3>1 DEF ApartInv, OnePlace
  <2> QED
    BY <2>1, <2>3 DEF NoFrameOverwritten, AloneInv
<1> QED
  BY <1>1, SnapshotInvariant, PTL

-----------------------------------------------------------------------------
(***************************************************************************)
(* What overlapping calls may end in.  Two tasks that receive a frame each *)
(* save one after the other, and the first one's buffer is forgotten.      *)
(* When that has happened to all of them, the controller has nothing but   *)
(* its private buffer, and nobody holds one that could be given back.      *)
(***************************************************************************)
Starved ==
  /\ csi_queue = <<>> /\ dma = NoBuffer /\ frame_ready_que = <<>>
  /\ ~has_last_transaction
  /\ \A t \in Task : capture_pc[t] # "save"

StarvedForGood == [][Starved => Starved']_vars

\* The camera never recovers from that: from then on every capture() waits its five
\* seconds and fails, whatever the tasks do.
THEOREM StarvationIsFinal == Spec => StarvedForGood
<1>1. ASSUME TypeOK, Starved, [Next]_vars
      PROVE  Starved'
  <2>1. capture_pc \in [Task -> CapturePc] /\ cameraTask \in Task /\ telemetryTask \in Task
    BY <1>1, TaskAssumption DEF TypeOK, BufferTypeOK
  <2>2. ASSUME NEW t \in Task, CallCapture(t)
        PROVE  Starved'
    BY <1>1, <2>1, <2>2 DEF CallCapture, Starved
  <2>3. ASSUME UNCHANGED <<csi_queue, dma, frame_ready_que, has_last_transaction,
                           capture_pc>>
        PROVE  Starved'
    BY <1>1, <2>3 DEF Starved
  <2>4. ASSUME NEW t \in Task, CaptureStep(t)
        PROVE  Starved'
    <3>1. ~ReceiveFrame(t) /\ ~Save(t)
      BY <1>1 DEF ReceiveFrame, Save, Starved
    <3>2. CASE Recycle(t)
      BY <1>1, <2>1, <3>2 DEF Recycle, Starved
    <3>3. CASE ClearLast(t)
      BY <1>1, <2>1, <3>3 DEF ClearLast, Starved
    <3>4. CASE ReceiveTimeout(t)
      BY <1>1, <2>1, <3>4 DEF ReceiveTimeout, Starved
    <3> QED
      BY <2>4, <3>1, <3>2, <3>3, <3>4 DEF CaptureStep
  <2>5. CASE FrameEnd
    BY <1>1, <2>5 DEF FrameEnd, Starved
  <2>6. CASE CameraTask
    BY <2>1, <2>2, <2>3, <2>6
    DEF CameraTask, CameraLoop, CameraCaptured, Encode, CheckRequest, CopyLatest,
        ClearRequest, bufferVars
  <2>7. CASE TelemetryTask
    BY <2>1, <2>2, <2>3, <2>7
    DEF TelemetryTask, RequestSnapshot, SnapshotServed, SnapshotTimeout, TakeLatest,
        CollectCaptures, CollectDone, HeartbeatSent, bufferVars
  <2>8. CASE UNCHANGED vars
    BY <2>3, <2>8 DEF vars, bufferVars
  <2> QED
    BY <1>1, <2>4, <2>5, <2>6, <2>7, <2>8 DEF Next, Driver
<1>2. ASSUME TypeOK, [Next]_vars
      PROVE  [Starved => Starved']_vars
  BY <1>1, <1>2
<1> QED
  BY <1>2, SnapshotTypeCorrect, PTL DEF Spec, StarvedForGood

StarvedByOverlap == Starved /\ Buffer # {} => overlapped

\* Only overlapping calls lead there: with calls one after the other, of whichever task,
\* some buffer can always come back to the controller or to a task.
THEOREM StarvationNeedsOverlap == Spec => []StarvedByOverlap
<1>1. SnapshotInv => StarvedByOverlap
  <2> SUFFICES ASSUME SnapshotInv, Starved, NEW b \in Buffer, ~overlapped
               PROVE  FALSE
    BY DEF StarvedByOverlap
  <2>1. OnePlace(b)
    BY DEF SnapshotInv, ApartInv
  <2>2. ~Written(b) /\ ~Received(b) /\ ~Saved(b)
    BY BufferAssumption DEF Starved, Written, Received, Saved
  <2>3. ~Queued(b) /\ ~Finished(b)
    BY DEF Starved, Queued, Finished, Range
  <2> QED
    BY <2>1, <2>2, <2>3 DEF OnePlace
<1> QED
  BY <1>1, SnapshotInvariant, PTL

=============================================================================
