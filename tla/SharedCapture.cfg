SPECIFICATION Spec
CONSTANTS
  Buffer = {buf1, buf2, buf3}
  NoBuffer = noBuffer
  CsiItems = 5
  cameraTask = cameraTask
  telemetryTask = telemetryTask
  Task = {cameraTask, telemetryTask}
INVARIANTS
  EncodedFrameIntact
