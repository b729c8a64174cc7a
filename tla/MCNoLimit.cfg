SPECIFICATION Spec
CONSTANTS
  p1 = p1
  p2 = p2
  NoFd = NoFd
  Procs <- TwoProcs
  Capacity = 2
  Backlog = 2
  Faults <- Timeouts
  MaxTime = 0
  MaxClock = 1
  MaxRuns = 2
  HeaderSize = 1
  ByteBase = 4
  SizeMax = 3
  SocketBuffer = 2
  Data <- TwoBytes
  MethodResults <- Answer
PROPERTIES
  LateRunNeverSucceeds
\* A master without a limit waits for ever for a worker that never comes.
CHECK_DEADLOCK FALSE
