\* A reload between the client and the configuration of one callback.
SPECIFICATION Spec
CONSTANTS
  Device = {d1}
  Email = {e1}
  Request = {q1, q2}
  Slot = {x1}
  MaxStates = 2
  MaxUsed = 1
  SessionTTL = 1
  ProceedTTL = 0
  Short <- MCShort
  Long <- MCLong
  Setup <- MCSetup
  MaxReloads = 1
  MaxTime = 2
  None = None
SYMMETRY Symmetry
PROPERTY OneWorld
CHECK_DEADLOCK FALSE
