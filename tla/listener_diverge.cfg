\* Two saves whose reloads finish in the other order.
SPECIFICATION Spec
CONSTANTS
  a1 = a1
  a2 = a2
  Addr = {a1, a2}
  DefaultAddr = a1
  Standard = {a1}
  Request = {r1, r2}
  Form <- MCForm
  Timer = {c1, c2}
  Faults = {}
  MaxArmed = 2
  Unset = Unset
  None = None
SYMMETRY Symmetry
INVARIANT RestartChangesNothing
