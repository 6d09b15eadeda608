CONSTANTS
  p1 = p1
  p2 = p2
  p3 = p3
  Pmc = {p1, p2, p3}
  Str = {}
  Temporary = {}
  CloneTarget = {}
  MaxGenerations = 4
  RunBase = 2
  MaxRefs = 1
  MaxStack = 2
  MaxRoots = 1
  MaxPending = 1
  MaxBlock = 0
SPECIFICATION Spec
SYMMETRY Symmetry
INVARIANTS
  ReachableAllocated
