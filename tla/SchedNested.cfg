CONSTANTS
  m = m
  a = a
  b = b
  Task = {m, a, b}
  Main = m
  Quantum = 1
  Sleeps = {}
  MaxMail = 1
  MaxLevel = 2
  MaxReady = 2
  Habits = {"pass", "mail"}
  SignalInWindow = FALSE
SPECIFICATION Spec
SYMMETRY Symmetry
INVARIANTS
  ActivePlaced
  NoMessageMissed
