SPECIFICATION Spec
CONSTANTS
  Actors = {h}
  h = h
  Steady = {}
  Rooms = {r1}
  Sockets = {s1}
  None = None
  MaxRooms = 1
  MaxHosted = 1
  MaxGrants = 2
  MaxConnections = 1
  MaxPeers = 2
  MaxStoredBytes = 1
  Sizes = {1}
  IdleTimeout = 1
  HostDeadline = 1
  TokenTTL = 1
  MaxRevision = 1
INVARIANT ReliableTermination
