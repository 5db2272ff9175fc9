SPECIFICATION FairSpec
CONSTANTS
  c1 = c1
  c2 = c2
  NoGuard = NoGuard
  Callers = {c1, c2}
  Limit = 2
  MaxCost = 2
  MaxAttempts = 2
  MaxCalls = 3
INVARIANTS TypeOK NothingLost BillBounded
PROPERTIES ImplementsLedger EveryCallEnds
\* every caller may be idle with MaxCalls calls made
CHECK_DEADLOCK FALSE
