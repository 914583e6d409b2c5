SPECIFICATION Spec
CONSTANTS
  Proc = {p1, p2}
  Block = {k1, k2, k3, k4}
  Val = {v1, v2}
  NBUF = 3
  MaxPinned = 1
  MaxErrors = 1
  None = None
SYMMETRY Symmetry
INVARIANTS OneBufferPerBlock ReadsLastWrite CleanIsOnDisk QueueMatchesDisk SleeperHasHolder 
