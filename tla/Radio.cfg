CONSTANTS
  m1 = m1 m2 = m2 g1 = g1 g2 = g2
  RadioParts = {"region", "country", "channel", "keys", "wake", "netdev", "monitor"}
  ReportedCodes <- Codes
  Heard = {1, 6, 12, 14, 36}
  Asked <- Requests
  Macs = {m1, m2}
  OwnMac = own
  RegionFaults = {"refused", "lost"}
  RadioChannels = {6, 11}
  ErrorCodes = {1}
  RadioFaults = {"refused", "lost"}
  Slots4 = {1, 2}
  Wep = {"k"}
  Wpa = {"tkip"}
  KeyFaults = {"refused", "lost"}
  Elements <- CountryElements
  OwnRegions = {16, 32, 48, 49, 50, 64}
  Options <- WakeOptions
  WakeFaults = {"refused", "lost"}
  Groups = {g1, g2}
  MaxList = 1
  NetFlags = {"promisc"}
  LinkStates <- TwoLinks
  MaxChanges = 3
  NetFaults = {"memory", "dropped", "refused"}
SPECIFICATION Spec
INVARIANTS CountryKept RadioShared AddressesAgree KeysReach ShownIsReal GroupsLetThrough MonitorOrOpen
CHECK_DEADLOCK FALSE
