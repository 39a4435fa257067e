SPECIFICATION FairSpec
CONSTANTS
  RecoveryMode = TRUE
  RxDepth = 3
  Plans <- WritePlans
  Habits = {}
  ShortGap = 5
  LongGap = 14
INVARIANTS
  ExactlyTheCommands
  PayloadIsOwn
  NoStrayDescriptor
PROPERTIES
  CommandEnds
