CONSTANTS
  None = None
  Users = {u1, u2, u3}
  Emails = {e1, e2, e3}
  Tries = 2
  Statements = 2
SPECIFICATION Spec
SYMMETRY Symmetry
CHECK_DEADLOCK FALSE
INVARIANTS
  TypeOK
  HoldersAreServed
  WholeOrNothingUnlessBroken
