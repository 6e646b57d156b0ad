\* HTTPS is moved to a port of its own and the redirect is switched on.
SPECIFICATION Spec
CONSTANTS
  a1 = a1
  a2 = a2
  Addr = {a1, a2}
  DefaultAddr = a1
  Standard = {a1}
  Request = {r1}
  Form <- MCForm
  Timer = {c1, c2}
  Faults = {}
  MaxArmed = 2
  Unset = Unset
  None = None
INVARIANT RedirectReachesListener
