SPECIFICATION Spec
CONSTANTS
  Scene = {sceneA, sceneB}
  NoScene = noScene
  MotionQueueLen = 2
PROPERTIES
  IdenticalFramesQuiet
