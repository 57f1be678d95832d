SPECIFICATION ViewerSpec
CONSTANTS
  Fd = {fd1, fd2, fd3}
  NoFd = noFd
  Page = {page1, page2}
  Other = other
  Nobody = nobody
INVARIANTS
  ViewerTypeOK
  EntriesUnique
  KeyframeFirst
  NobodySkipped
  LiveIsServed
SYMMETRY Symmetry
CHECK_DEADLOCK FALSE
