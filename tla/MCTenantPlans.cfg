CONSTANTS
  None = None
  Main = main
  Ids = {main, o1, o2, o3}
  Codes = {c1, c2, c3, c4}
  Names = {n1, n2}
  Handlers = {h1, h2}
  MaxOutlets = 2
  Starter = "starter"
  Plans <- MCPlans
  Limit <- MCLimit
SPECIFICATION PlanSpec
SYMMETRY Symmetry
INVARIANTS PlanTypeOK LimitOverrun
PROPERTIES GoneStaysGone FullStaysFull UntouchedIsKept
