SPECIFICATION Spec
CONSTANTS
  Fd = {fd1, fd2, fd3}
  NoFd = noFd
INVARIANTS
  NoCircularWait
