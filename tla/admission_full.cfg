\* One browser guesses for four devices, with room for three in the counter.
SPECIFICATION Spec
CONSTANTS
  m1 = m1
  m2 = m2
  Mac = {m1, m2, m3, m4}
  File <- MCFile
  Upload = {}
  None = None
  Session = {s1}
  Window = {2, 3}
  Limit = 1
  MaxKeys = 3
  MaxTime = 2
SYMMETRY Symmetry
INVARIANTS MacBudget
