SPECIFICATION Spec
CONSTANTS
  UsersCount = 2
  ProblemsCount = 2
  Tests <- MCTests
  Points <- MCPoints
  Verdict <- MCVerdict
  Faults = {"start", "wait"}
  Workers = 3
  Pid = {a, b, c, z}
  Inherited = {z}
  PipeRoom = 3
  a = a
  b = b
  c = c
  z = z
SYMMETRY MCSymmetry
INVARIANTS
  TypeOK
  SlotsHoldChildren
  JobsAccountedFor
  WaitsForSomebody
  KeepsWorkersBusy
  CellsAreTheVerdicts
  CleanExit
  OwnMarks
