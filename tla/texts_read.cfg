SPECIFICATION Spec
CONSTANTS
  CfgText <- MCCfgText
  Quoted <- MCQuoted
  CommandLine <- MCCommandLine
  Path <- MCPath
  Str = {"s"}
  Scalar = {"1"}
  MaxLength = 9
  MaxBlanks = 1
  Text <- MCText
  Atoi <- MCAtoi
  MaxArguments = 3
INVARIANTS
  LinesAreRows
  NothingLeaks
  TakesTheGrammar
  SaysWhatItMeans
  ArgumentsAreMeant
  OptionsAreMeant
PROPERTIES
  FileIsRead
