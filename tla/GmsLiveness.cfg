CONSTANTS
  p1 = p1
  p2 = p2
  s1 = s1
  Pmc = {p1, p2}
  Str = {s1}
  Temporary = {}
  CloneTarget = {}
  MaxGenerations = 3
  RunBase = 2
  MaxRefs = 1
  MaxStack = 2
  MaxRoots = 1
  MaxPending = 1
  MaxBlock = 0
SPECIFICATION FairSpec
PROPERTIES
  GarbageReclaimed
