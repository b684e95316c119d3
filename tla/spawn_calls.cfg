SPECIFICATION Spec
CONSTANTS
  Limits <- MCLimits
  Need <- MCNeed
  MaxCalls = 2
INVARIANTS
  TypeOK
  NothingCarriesOver
  KillsAreTimely
  ZeroIsEarned
  RefusalHasAReason
PROPERTIES
  LimitedCallsReturn
