SPECIFICATION FairSpec
CONSTANTS
  Code = {k1, k2}
  Request = {r1, r2}
  MaxTime = 1
  Expiry <- MCExpiry
  MaxLimit = 2
  SingleConnection = FALSE
  Absent = Absent
  Never = Never
INVARIANTS NeverOverspent GrantsAreRecorded CountersAgree
PROPERTIES NoUseAfterForcedExpiry SweepSparesActive EveryAskIsDecided ImplementsLedger
