\* Two logins beside the command line, with failed statements and restarts.
SPECIFICATION Spec
CONSTANTS
  Login = {a1, a2}
  Password = {p1, p2}
  MaxFail = 3
  Lockout = 2
  Faults = {"database", "crash"}
  None = None
INVARIANTS LockoutIsReached RevokedOnlyByRevival
PROPERTIES LockStands LockEnds
