SPECIFICATION Spec
CONSTANTS
  p1 = p1
  p2 = p2
  NoFd = NoFd
  Procs <- TwoProcs
  Capacity = 2
  Backlog = 2
  Faults <- AllFaults
  MaxTime = 1
  MaxClock = 2
  MaxRuns = 1
  HeaderSize = 1
  ByteBase = 4
  SizeMax = 3
  SocketBuffer = 2
  Data <- TwoBytes
  MethodResults <- FullAnswer
INVARIANTS
  SuccessIsAgreed
  FailureReleasesAll
PROPERTIES
  JobSpec
SYMMETRY Symmetry
