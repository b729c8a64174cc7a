SPECIFICATION Spec
CONSTANTS
  p1 = p1
  p2 = p2
  NoFd = NoFd
  Procs <- TwoProcs
  Capacity = 2
  Backlog = 2
  Faults <- Killed
  MaxTime = 1
  MaxClock = 2
  MaxRuns = 2
  HeaderSize = 1
  ByteBase = 4
  SizeMax = 3
  SocketBuffer = 2
  Data <- TwoBytes
  MethodResults <- FullAnswer
INVARIANTS
  DoneIsCounted
  UsedMasterNeverSucceeds
SYMMETRY Symmetry
PROPERTIES
  JobSpec
