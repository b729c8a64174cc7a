SPECIFICATION FairSpec
CONSTANTS
  p1 = p1
  p2 = p2
  NoFd = NoFd
  Procs <- TwoProcs
  Capacity = 1
  Backlog = 1
  Faults <- Departures
  MaxTime = 1
  MaxClock = 2
  MaxRuns = 1
  HeaderSize = 2
  ByteBase = 4
  SizeMax = 3
  SocketBuffer = 2
  Data <- TwoBytes
  MethodResults <- FullAnswer
INVARIANTS
  IInv
  StreamInv
PROPERTIES
  EverybodyEnds
