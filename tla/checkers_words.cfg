SPECIFICATION Spec
CONSTANTS
  a = a
  b = b
  Letter <- MCLetter
  MaxOutput = 4
  MaxAnswer = 4
INVARIANTS
  WordsDecide
  BytesDecide
SYMMETRY MCSymmetry
