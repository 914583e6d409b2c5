SPECIFICATION FairSpec
CONSTANTS
  Block = {b1, b2}
  Val = {0, 1}
  Proc = {p1, p2, p3}
  MAXOPBLOCKS = 4
  LOGSIZE = 9
  NLOG = 9
  OpBlocks = 2
INVARIANTS DurableAtReturn SleeperHasWaker
PROPERTIES CrashAtomicity SleeperWoken CommittedIsInstalled
