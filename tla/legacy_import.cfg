\* Two instances, two sections, three files of two parts, every fault.
SPECIFICATION Spec
CONSTANTS
  Node = {n1, n2}
  Section = {s1, s2}
  Env = {s1}
  Order <- MCOrder
  Codes = "codes"
  Events = "events"
  Parts = 2
  Corrupt = {"denylist"}
  Faults = {"database", "disk", "crash"}
INVARIANTS TypeOK RenamedIsStored ImportedOnce ImportIsComplete
PROPERTY OperatorDecides
