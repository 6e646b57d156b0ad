\* The loop cannot read the row, or is overtaken, and replaces an uploaded certificate.
SPECIFICATION Spec
CONSTANTS
  Loop = loop
  Request = {r1}
  Pair <- MCPair
  Faults = {"database"}
  MaxRestarts = 0
  None = None
PROPERTY UploadIsKept
