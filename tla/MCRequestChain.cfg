CONSTANTS
  Requests = {r1, r2}
  MaxTokens = 2
  MaxAttempts = 3
  MaxRequests = 2
  Window = 2
  MaxErrors = 1
SPECIFICATION FairSpec
INVARIANTS
  TypeOK
  TwoWindows
  ReplayIsEarned
  EffectBound
PROPERTY Recovers
