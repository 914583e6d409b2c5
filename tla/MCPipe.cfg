SPECIFICATION Spec
CHECK_DEADLOCK FALSE
CONSTANTS
  Proc = {p1, p2}
  First = p1
  NOFILE = 2
  NFILE = 2
  PIPESIZE = 2
  UINT = 4
  Byte = {0, 1}
  MaxCount = 3
INVARIANTS RefsAreDescriptors NoUseAfterFree SleepersWaitForCause
PROPERTIES PipeIsByteQueue
