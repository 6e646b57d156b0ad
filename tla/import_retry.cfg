\* One instance, failed statements: the next start skips the files that are left.
SPECIFICATION Spec
CONSTANTS
  Node = {n1}
  Section = {s1, s2}
  Env = {s1}
  Order <- MCOrder
  Codes = "codes"
  Events = "events"
  Parts = 2
  Corrupt = {"denylist"}
  Faults = {"database", "crash"}
PROPERTY NextStartRetries
