SPECIFICATION MCSpec
CONSTANTS
  MAX_FABRICS = 2
  MAX_FAB_IDX = 3
  Identities = {f1, f2}
  Exchanges = {x1, x2}
  x1 = x1
  MAX_PAKE_FAILURES = 2
  NoExch = NoExch
  Slots = {n1, n2}
  MAX_SESSIONS = 3
  MAX_EXCHANGES = 2
  SESS_IDS = 4
  Peers = {p1}
  FabricIdx = {1}
  GroupSessId = 4
  None = None
  MaxTasks = 2
  MaxOpen = 2
  MaxSessions = 4
SYMMETRY Symmetry
PROPERTY ExpiryDisarms
