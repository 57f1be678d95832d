SPECIFICATION Spec
CONSTANTS
  Scene = {sceneA, sceneB}
  NoScene = noScene
INVARIANTS
  TypeOK
  SeesItsFrame
  LeavesQuiet
PROPERTIES
  DetectReturns
