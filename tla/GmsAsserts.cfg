CONSTANTS
  p1 = p1
  c1 = c1
  t1 = t1
  Pmc = {p1, c1, t1}
  Str = {}
  Temporary = {t1}
  CloneTarget = {c1}
  MaxGenerations = 4
  RunBase = 2
  MaxRefs = 1
  MaxStack = 2
  MaxRoots = 1
  MaxPending = 1
  MaxBlock = 1
SPECIFICATION Spec
INVARIANTS
  ArraysInv
CHECK_DEADLOCK FALSE
