SPECIFICATION BoundedSpec
CONSTANTS
  Users = {o, m}
  Owner = o
  Boards = {1, 2}
  Projects = {p1}
  Workspaces = {w1}
  Keys = {k1}
  Names = {n1, n2}
  Threads = {t1}
  Comments = {1, 2}
  Requests = {r1, r2}
  None = None
  Gone = Gone
  Seats = 2
  Limit = 1
  MaxAttempts = 2
  MaxRevision = 3
SYMMETRY Symmetry
INVARIANTS RetriesAgree AllRowsAgree TraversalComplete
PROPERTY ChangesAreCurrent
CHECK_DEADLOCK FALSE
