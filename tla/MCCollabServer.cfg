SPECIFICATION Spec
CONSTANTS
  Peers = {p1, p2, p3}
  Updates = {u1, u2}
  Rooms = {r1}
  MaxConnections = 3
  MaxPeers = 3
  None = None
SYMMETRY Symmetry
CONSTRAINT Stories
INVARIANTS Inv OneSerialRoom RoomIsCommitted AcknowledgedIsDurable ReadsOwnSavedChanges SynchronizedPeersConverge NoContentAfterRevocation
PROPERTIES CommitsAreAuthorized ImplementsDurableBoard
