SPECIFICATION FairSpec
CONSTANTS
  Actors = {h, v}
  h = h
  Steady = {s2}
  Rooms = {r1}
  Sockets = {s1, s2}
  None = None
  MaxRooms = 1
  MaxHosted = 1
  MaxGrants = 2
  MaxConnections = 2
  MaxPeers = 2
  MaxStoredBytes = 1
  Sizes = {1}
  IdleTimeout = 1
  HostDeadline = 1
  TokenTTL = 1
  MaxRevision = 0
CONSTRAINTS OneHost Seated Undisturbed
PROPERTIES IdleSessionEnds EndedSocketLeaves CloseTerminates
