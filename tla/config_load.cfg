SPECIFICATION Spec
CONSTANTS
  Description <- MCDescription
  Name <- MCName
  Program <- MCProgram
  Directory <- MCDirectory
  Dotted <- MCDotted
INVARIANTS
  UsableOrToldWhy
  SameEitherWay
