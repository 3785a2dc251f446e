CONSTANTS
  NoUser = NoUser
  NoToken = NoToken
  Users = {u1, u2}
  Handlers = {h1}
  Tokens = {t1, t2, t3}
  MaxResets = 1
SPECIFICATION Spec
SYMMETRY Symmetry
PROPERTY ImplementsChain
