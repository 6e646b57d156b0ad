\* The loop and one request, with every fault and a crash.
SPECIFICATION Spec
CONSTANTS
  Loop = loop
  Request = {r1}
  Pair <- MCPair
  Faults = {"ca", "database"}
  MaxRestarts = 1
  None = None
INVARIANT ServesStored
PROPERTIES CertificateIsKept LoopSparesUpload RenewalArrives
