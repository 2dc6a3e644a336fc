SPECIFICATION Spec
CONSTANTS
  Dms = {d1}
  GroupMsgs = {g1}
  QueueMax = 1
  MaxAttempts = 3
  LanHosts = 2
  SeenMax = 2
  MaxRestarts = 1
  Communities = {home, work}
  MaxRegTries = 2
  Threshold = 2
  Contacts = {alice, bob}
  Fetches = {f1, f2}
  MdnsPeers = {p1}
  OtherPeers = {p2}
  MaxFlaps = 3
  Fleet = {"a", "b", "c"}
  Names = {"a", "b", "c", "a comms"}
  GivenNames = {"a", "a comms"}
  Canon <- MCCanon
  Callers = {"a", "b"}
  PeerList <- MCPeerList
  Contents = {"c1", "c2"}
  Topic <- MCTopic
  TriggerOf <- MCTriggerOf
  Unset = "unset"
  MaxStores = 2
  MaxResends = 1
  MaxClock = 1
INVARIANTS  CacheSound
PROPERTIES  RelayIsServed DownNeedsEveryProbe SharingIsFair
CHECK_DEADLOCK FALSE
