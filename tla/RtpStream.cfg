SPECIFICATION Spec
CONSTANTS
  SeqModulus = 8
  MaxPayload = 4
  FrameSize = {3, 4, 5, 8}
  MaxPackets = 18
INVARIANTS
  TypeOK
  IndexIsCount
  ServerAgrees
  FragmentsFit
  DeliveredIntact
CHECK_DEADLOCK FALSE
