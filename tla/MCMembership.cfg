CONSTANTS
  None = None
  Owner = owner
  Users = {owner, u1, u2}
  Roles = {r1, r2}
  Invitations = {i1, i2}
  Handlers = {h1, h2}
  MaxUsers = 2
SPECIFICATION Spec
SYMMETRY Symmetry
INVARIANTS TypeOK AcceptedBroughtSomeone
PROPERTIES RemovedStaysOut ClosedStaysClosed
