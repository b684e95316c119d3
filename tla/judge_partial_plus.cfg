SPECIFICATION Spec
CONSTANTS
  UsersCount = 1
  ProblemsCount = 3
  Tests <- MCRowTests
  Points <- MCRowPoints
  Verdict <- MCRowVerdict
  Faults = {"runner"}
  Workers = 2
  Pid = {a, b}
  Inherited = {}
  PipeRoom = 3
  a = a
  b = b
INVARIANT PlusMeansAllPassed
