SPECIFICATION Spec
CONSTANTS
  Users = {o, a}
  Owner = o
  Emails = {e1, e2}
  Requests = {c1, c2}
  None = None
  Kind = "team"
  MaxInvitations = 2
  MaxSeats = 2
  MaxRevision = 1
SYMMETRY Symmetry
CONSTRAINTS Addressed Overlap Serving
INVARIANTS DecisionsStand PoliciesAgree
PROPERTIES SeatsFit AccessRevisionMoves
