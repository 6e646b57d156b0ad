\* Overlapping saves on two instances that start, seed and crash.
SPECIFICATION Spec
CONSTANTS
  Node = {n1, n2}
  Save = {s1, s2}
  Profile = {sso, guest}
  Policy = {a, b}
  Default = {a, b}
  None = None
SYMMETRY Symmetry
INVARIANTS EditSurvives QuietIsFresh
