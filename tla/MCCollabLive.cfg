SPECIFICATION LiveSpec
CONSTANTS
  Peers = {p1, p2}
  Updates = {u1}
  Rooms = {r1}
  MaxConnections = 2
  MaxPeers = 2
  None = None
PROPERTIES FailedRoomReopens CloseDrains RevokedPeerLeaves
CHECK_DEADLOCK FALSE
