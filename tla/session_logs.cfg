SPECIFICATION Spec
CONSTANTS
  UsersCount = 2
  ProblemsCount = 1
  Tests <- MCTests
  Points <- MCPoints
  Verdict <- MCVerdict
  Faults = {"wait", "runner"}
  Namings <- MCNamings
  Sandboxes <- MCSandboxes
  Spoiled = {"x"}
  Workers = 2
  MaxRuns = 2
  MaxOrphans = 1
INVARIANTS
  TypeOK
  LogsTellTheSame
  WholeScoreboard
  LogsAreTheMarks
PROPERTIES
  RefusalSparesTheLogs
  NobodyStays
