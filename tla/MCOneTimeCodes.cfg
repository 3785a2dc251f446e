CONSTANTS
  NoCode = NoCode
  NoType = NoType
  Handlers = {h1, h2}
  Codes = {c1, c2, c3}
  MaxOTPPerHour = 2
  MaxSlips = 1
SPECIFICATION Spec
SYMMETRY Symmetry
INVARIANTS
  TypeOK
  RedeemBound
  EffectsAreEarned
  HourlyOverrun
  ValidOverrun
PROPERTY SpentStaysSpent
