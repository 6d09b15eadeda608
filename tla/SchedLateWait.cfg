CONSTANTS
  m = m
  a = a
  b = b
  Task = {m, a, b}
  Main = m
  Quantum = 1
  Sleeps = {}
  MaxMail = 1
  MaxLevel = 1
  MaxReady = 2
  Habits = {"wait", "late wait"}
  SignalInWindow = FALSE
SPECIFICATION Spec
SYMMETRY Symmetry
INVARIANTS
  NoWaitForDone
