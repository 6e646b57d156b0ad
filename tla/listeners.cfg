\* One save at a time against the rollbacks of earlier ones, with every fault.
SPECIFICATION FairSpec
CONSTANTS
  a1 = a1
  a2 = a2
  Addr = {a1, a2}
  DefaultAddr = a1
  Standard = {a1}
  Request = {r1}
  Form <- MCForm
  Timer = {c1, c2}
  Faults = {"bind", "database", "crash"}
  MaxArmed = 2
  Unset = Unset
  None = None
INVARIANTS TypeOK RedirectEndsWithListener
PROPERTIES BindFailureKeepsListener RollbackOnlyWhenOpen RollbackIsExact PendingIsSettled
