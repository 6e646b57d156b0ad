\* Two instances prune a backlog while events arrive and the retention changes.
SPECIFICATION Spec
CONSTANTS
  Node = {n1, n2}
  Writer = {w1}
  Retention = {0, 1}
  Backlog = 3
  Batch = 1
  MaxBatches = 2
  MaxId = 4
  MaxTime = 2
  MaxStops = 1
  None = None
PROPERTIES OnlyOverdueGo OverdueGoes
