SPECIFICATION Spec
CONSTANTS
  Limits <- MCLimits
  Need <- MCNeed
  MaxCalls = 2
INVARIANTS
  LoadIsNoTimeout
