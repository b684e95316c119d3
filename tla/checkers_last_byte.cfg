SPECIFICATION Spec
CONSTANTS
  a = a
  b = b
  Letter <- MCLetter
  MaxOutput = 3
  MaxAnswer = 3
INVARIANTS
  BlanksDoNotMatter
