SPECIFICATION Spec
CHECK_DEADLOCK FALSE
CONSTANTS
  Proc = {p1, p2}
  NInode = 3
  MaxCalls = 5
  Name = {"x", "y"}
  Path <- Absolute
INVARIANTS RefsArePointers EntriesAreLinks 
SYMMETRY Symmetry
