CONSTANTS
  n1 = n1 n2 = n2 n3 = n3 c1 = c1 c2 = c2 c3 = c3
  NoNode = NoNode
  Nodes = {n1, n2}
  CmdArray <- TwoBuffers
  Callers = {c1}
  Program <- ProgramLink
  Signals = {}
  Workers = {}
  SeqSize = 16
  Results = {"ok"}
  Faults = {}
  Hotplug = FALSE
  FwDepth = 1
  FwEvents = {"DEAUTHENTICATED", "HOST_AWAKE"}
  MaxEvents = 1
  FifoSize = 2
  MaxTx = 2
  StartConnected = TRUE
  StartPsmode = "CAM"
SPECIFICATION FairSpec
PROPERTIES EveryCallReturns QueueRestarted
