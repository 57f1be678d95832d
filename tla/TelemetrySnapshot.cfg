SPECIFICATION Spec
CONSTANTS
  Buffer = {buf1, buf2}
  NoBuffer = noBuffer
  CsiItems = 3
  cameraTask = cameraTask
  telemetryTask = telemetryTask
  Task = {cameraTask, telemetryTask}
INVARIANTS
  TypeOK
  BuffersConservedApart
  ServedMeansFrame
  SnapshotAgeBounded
