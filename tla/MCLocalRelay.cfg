SPECIFICATION Spec
CONSTANTS
  Actors = {h, v}
  h = h
  Steady = {}
  Rooms = {r1}
  Sockets = {s1, s2}
  None = None
  MaxRooms = 1
  MaxHosted = 1
  MaxGrants = 2
  MaxConnections = 2
  MaxPeers = 2
  MaxStoredBytes = 2
  Sizes = {1, 2}
  IdleTimeout = 1
  HostDeadline = 1
  TokenTTL = 1
  MaxRevision = 2
SYMMETRY Symmetry
CONSTRAINTS OneHost Running
INVARIANTS BytesAreStored HostKeepsSession EndNeverBlocks ViewersConverge
PROPERTY ExpiredStaysExpired
