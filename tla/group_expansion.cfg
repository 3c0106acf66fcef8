SPECIFICATION MCSpec
CONSTANTS
  MSG_RX_STATE_BITMAP_LEN = 3
  HALF = 16
  Starts <- MCStarts
  LastCtr = 9
  s1 = s1
  s2 = s2
  s3 = s3
  Senders <- MCSenders
  Counters <- MCCounters
  MAX_GROUP_CTR_ENTRIES = 2
  MaxClock = 5
  MAX_RX_PACKET_SIZE = 60
  SEQ_NUMS = 4
  MIN_MTU = 23
  MAX_MTU = 33
  GATT_HEADER_SIZE = 3
  relaxed_mtu_nego = FALSE
  Requests <- MCRequests
  Lengths = {10, 60}
  MaxMessages = 3
  Endpoints = {e1, e2}
  Clusters = {c1, c2}
  Attrs = {a1, a2}
  Wild = Wild
  MAX_CHANGED_ATTRS = 2
  MaxChanges = 4
  N = 2
  EVENT_NUMBER_EPOCH_SIZE = 3
  MaxPushes = 4
  MaxNumber = 9
  Room = 11
  ReplyHead = 1
  ReadRequests <- MCReadRequests
  Wanted = {2}
  ListIB = 3
  ItemLen = 1
  InitialList <- MCList
  MaxReported = 2
  MAX_ACL_ENTRIES_PER_FABRIC = 3
  MaxGroups = 1
  MaxGroupEndpoints = 2
  KeyedGroups = {g1}
  DeviceTypes <- MCDeviceTypes
  Every = Every
  g1 = g1
  MaxEndpoints = 3
  Shape <- MCShape
  None = None
  RequestsMade <- MCRequestsMade
  Edits <- MCEdits
  MaxElsewhere = 2
INVARIANT EveryMemberIsReached
CHECK_DEADLOCK FALSE
