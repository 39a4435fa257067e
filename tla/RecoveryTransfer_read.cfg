SPECIFICATION Spec
CONSTANTS
  RecoveryMode = FALSE
  RxDepth = 3
  Plans <- ModePlans
  Habits = {}
  ShortGap = 5
  LongGap = 14
INVARIANTS
  ResponseWhole
  ReadAnswered
  WritesJustified
  NormalBypass
