CONSTANTS
  Empty = Empty
  Handlers = {h1, h2}
  Names = {n1, n2}
  MaxPasswords = 2
SPECIFICATION AccountSpec
SYMMETRY Symmetry
INVARIANT AccountTypeOK
PROPERTY KeepsPromiseUnlessStale
