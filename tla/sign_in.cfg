\* One browser with two handlers at work, sessions that outnumber usedStates.
SPECIFICATION Spec
CONSTANTS
  Device = {d1}
  Email = {e1}
  Request = {q1, q2}
  Slot = {x1}
  MaxStates = 2
  MaxUsed = 1
  SessionTTL = 1
  ProceedTTL = 0
  Short <- MCShort
  Long <- MCLong
  Setup <- MCSetup
  MaxReloads = 1
  MaxTime = 3
  None = None
SYMMETRY Symmetry
INVARIANTS TypeOK EmailBudget
PROPERTY StateUsedOnce
CHECK_DEADLOCK FALSE
