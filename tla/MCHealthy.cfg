SPECIFICATION FairSpec
CONSTANTS
  p1 = p1
  p2 = p2
  NoFd = NoFd
  Procs <- TwoProcs
  Capacity = 2
  Backlog = 2
  Faults <- NoFaults
  MaxTime = 1
  MaxClock = 0
  MaxRuns = 1
  HeaderSize = 2
  ByteBase = 4
  SizeMax = 3
  SocketBuffer = 2
  Data <- ThreeBytes
  MethodResults <- Answer
INVARIANTS
  TaskIsItsShare
  ResultIsComputed
  SuccessCoversData
  NobodyFails
PROPERTIES
  JobSucceeds
