SPECIFICATION Spec
CONSTANTS
  UsersCount = 2
  ProblemsCount = 2
  Tests <- MCTests
  Points <- MCPoints
  Verdict <- MCVerdict
  Faults = {"start", "wait", "runner"}
  Workers = 2
  Pid = {a, b, z}
  Inherited = {z}
  PipeRoom = 3
  a = a
  b = b
  z = z
PROPERTIES
  KeepsPromise
  Termination
