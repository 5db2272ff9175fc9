SPECIFICATION Spec
CONSTANTS
  c1 = c1
  c2 = c2
  NoGuard = NoGuard
  Callers = {c1, c2}
  Limit = 1
  MaxCost = 1
  MaxAttempts = 2
  MaxCalls = 4
SYMMETRY CallerSymmetry
PROPERTY NextCallFailsFast
\* every caller may be idle with MaxCalls calls made
CHECK_DEADLOCK FALSE
