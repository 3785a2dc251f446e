CONSTANTS
  NoUser = NoUser
  NoToken = NoToken
  Users = {u1}
  Handlers = {h1, h2}
  Tokens = {t1, t2, t3}
  MaxResets = 1
SPECIFICATION Spec
SYMMETRY Symmetry
INVARIANTS
  TypeOK
  RotationConsumesParent
  FamilyLineage
  BranchingBound
PROPERTIES
  DeadFamilyStaysDead
  SuspendedObtainsNothing
  OldPasswordStaysOut
