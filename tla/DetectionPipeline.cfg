SPECIFICATION Spec
CONSTANTS
  Scene = {sceneA, sceneB}
  NoScene = noScene
  MotionQueueLen = 2
INVARIANTS
  TypeOK
  OneHolder
  EvidenceMatches
  PayloadsOwned
PROPERTIES
  FrameFinishes
  HandoffSpec
