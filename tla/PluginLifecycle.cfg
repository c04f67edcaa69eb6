SPECIFICATION Spec
CONSTANTS
  e1 = e1  e2 = e2  s1 = s1  s2 = s2  t1 = t1  c1 = c1
  Free = Free
  Exports = {e1, e2}
  Stops = {s1, s2}
  Starts = {t1}
  Configures = {c1}
  Timeouts <- MCTimeouts
  DefaultTimeout = 30
SYMMETRY Symmetry
INVARIANTS NoPanic StopIsQuiescent BudgetPositive
PROPERTIES WaitGroupRule GateSpec
