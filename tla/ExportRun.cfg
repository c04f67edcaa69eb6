SPECIFICATION RunSpec
CONSTANTS
  e1 = e1  e2 = e2  s1 = s1  s2 = s2  t1 = t1  c1 = c1
  Free = Free
  Exports = {e1, e2}
  Stops = {s1}
  Starts = {}
  Configures = {}
  Timeouts <- NoTimeouts
  DefaultTimeout = 30
  MaxCommands = 2
INVARIANT StopLeavesNoCommand
PROPERTIES ImplementsPlugin StopCompletes ExportsReturnInTime WatchersExit
