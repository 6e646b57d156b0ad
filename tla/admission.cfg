\* Bans, uploads and restarts while browsers sign in and guess codes.
SPECIFICATION Spec
CONSTANTS
  m1 = m1
  m2 = m2
  Mac = {m1, m2}
  File <- MCFile
  Upload = {u1}
  None = None
  Session = {s1, s2}
  Window = {1, 2}
  Limit = 1
  MaxKeys = 1
  MaxTime = 1
SYMMETRY Symmetry
INVARIANTS TypeOK DeniedStaysOut MacBudget UploadReportsTruth
