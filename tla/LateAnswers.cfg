CONSTANTS
  n1 = n1 n2 = n2 n3 = n3 c1 = c1 c2 = c2 c3 = c3
  NoNode = NoNode
  Nodes = {n1, n2}
  CmdArray <- TwoBuffers
  Callers = {c1}
  Program <- ProgramOne
  Signals = {}
  Workers = {}
  SeqSize = 16
  Results = {"ok"}
  Faults = {"late"}
  Hotplug = FALSE
  FwDepth = 2
  FwEvents = {"OTHER"}
  MaxEvents = 0
  FifoSize = 2
  MaxTx = 0
  StartConnected = TRUE
  StartPsmode = "CAM"
SPECIFICATION Spec
INVARIANTS ResponseBufferFree
CHECK_DEADLOCK FALSE
