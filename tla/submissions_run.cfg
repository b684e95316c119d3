SPECIFICATION Spec
CONSTANTS
  MaxLine = 4
  IntBits = 8
  Number <- MCNumber
INVARIANTS
  WordsAreTurned
  LinesAreCompared
  FractionsAreReduced
