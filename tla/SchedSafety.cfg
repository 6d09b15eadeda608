CONSTANTS
  m = m
  a = a
  b = b
  Task = {m, a, b}
  Main = m
  Quantum = 1
  Sleeps = {0, 1}
  MaxMail = 1
  MaxLevel = 1
  MaxReady = 2
  Habits = {"sleep", "mail", "wait"}
  SignalInWindow = FALSE
SPECIFICATION Spec
SYMMETRY Symmetry
INVARIANTS
  TypeOK
  AlarmsOrdered
  OnePlace
  PreemptionArmed
  AlarmArmed
