SPECIFICATION Spec
PROPERTIES
  VerdictIsReached
