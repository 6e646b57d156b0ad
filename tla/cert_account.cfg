\* An account is registered although a certificate was ordered before; nothing fails.
SPECIFICATION Spec
CONSTANTS
  Loop = loop
  Request = {r1}
  Pair <- MCPair
  Faults = {}
  MaxRestarts = 0
  None = None
PROPERTY AccountIsReused
