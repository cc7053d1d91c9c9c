CONSTANTS
  na = na nb = nb nc = nc s1 = s1 s2 = s2 w1 = w1 w2 = w2 u1 = u1 u2 = u2 mesh = mesh
  Parts = {"scan", "table", "assoc", "mesh", "events", "registers", "firmware", "probe", "receive", "items", "rates"}
  NrChannels = 3
  ChansPerCmd = 2
  InReach = {na, nb, nc}
  ChannelOf <- ThreeChannels
  Slots = {s1, s2}
  Names = {}
  MaxScanAge = 2
  MaxNow = 3
  MaxScans = 2
  ScanFaults = {"command", "memory", "preempt"}
  Nets <- TwoNets
  Ssids = {"x"}
  Bssids = {"b1"}
  Channels = {1, 2}
  KeyIdx = {1, 2}
  WepKeys = {"k"}
  MaxCalls = 2
  AssocFaults = {"command"}
  Writers = {w1, w2}
  Attrs = {"mesh_id", "metric_id", "boottime", "channel"}
  Datums = {7, 30}
  MeshIds = {mesh}
  InitialId = InitialId
  Uninitialized = Uninitialized
  MeshFaults = {"set"}
  Users = {u1, u2}
  Tlvs = {"low_rssi", "beacon_missed"}
  Levels = {1}
  Regs = {"mac"}
  Offsets = {1, 2}
  Words = {0, 1}
  DebugFaults = {"get", "set", "reg"}
  HelperSize = 130
  RealSize = 1300
  Requests = {0, 1, 100, 600, 2048}
  FirmwareFaults = {"file", "memory", "bus", "boot"}
  ProbeFaults = {"model", "func", "irq", "ioport", "program", "adapter", "fifo", "thread", "intmask", "setup", "register", "register_mesh"}
  RingSize = 3
  Snrs = {1, 7}
  Thresholds = {500}
  Retries = {14}
  Powers = {10}
  NewRates = {0, 2, 96}
  RxIndexes = {0, 11}
  SettingsFaults = {"error", "lost", "shared", "signal"}
SPECIFICATION Spec
INVARIANTS TableWellFormed AgainOnlyWhileScanning InterfaceRestored LastSettingWins WepKeyedUnlessSpoilt AssociatesDisconnected NeverBeyondTheImage ProbeUndone AverageOfLast SettingsKept
PROPERTIES OldestMakesRoom ScanEnds PartialScanVisitsAll RequestTaken IeIsReadModifyWrite MaskIsReadModifyWrite RegisterShown
CHECK_DEADLOCK FALSE
