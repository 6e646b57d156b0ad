\* One address, two instances, two requests in flight, and a clock that
\* outlasts Lag.
SPECIFICATION Spec
CONSTANTS
  Node = {n1, n2}
  Job = {j1, j2}
  Nowhere = Nowhere
  EscalateAt = 2
  BanTime = 2
  TTL = 1
  Delay = 0
  MaxTime = 3
SYMMETRY Symmetry
INVARIANT TypeOK
PROPERTIES CooldownOnlyExtends AnswersAreCurrent
