CONSTANTS
  n1 = n1 n2 = n2 n3 = n3 c1 = c1 c2 = c2 c3 = c3
  NoNode = NoNode
  Nodes = {n1, n2}
  CmdArray <- TwoBuffers
  Callers = {c1}
  Program <- ProgramIwconfig
  Signals = {}
  Workers = {}
  SeqSize = 2
  Results = {"ok", "error"}
  Faults = {"memory"}
  Hotplug = FALSE
  FwDepth = 1
  FwEvents = {"PS_SLEEP", "DEAUTHENTICATED"}
  MaxEvents = 2
  FifoSize = 2
  MaxTx = 0
  StartConnected = TRUE
  StartPsmode = "CAM"
SPECIFICATION Spec
INVARIANTS PsAgreement
PROPERTIES SilentInSleep
CHECK_DEADLOCK FALSE
