SPECIFICATION Spec
CONSTANTS
  NPROC = 3
  CPU = {c0, c1}
  BootCpu = c0
  MaxPid = 3
  MaxSleep = 1
  None = None
INVARIANTS StackHasOneCpu ParentCanReap SleeperHasReason
