SPECIFICATION Spec
CONSTANTS
  Tests = 3
  Faults <- MCFaults
INVARIANTS
  SubmissionIsHeld
  LogLeadsPipe
  ZeroMeansWhole
PROPERTIES
  KeepsPromise
