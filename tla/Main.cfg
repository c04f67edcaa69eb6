SPECIFICATION MainSpec
CONSTANTS
  e1 = e1  e2 = e2
  Terminate = Terminate  Shutdown = Shutdown  Deferred = Deferred
  Free = Free
  Exports = {e1, e2}
  Stops = {Terminate, Shutdown, Deferred}
  Starts = {}
  Configures = {}
  Timeouts <- NoTimeouts
  DefaultTimeout = 30
INVARIANTS ExitOnlyWhenDrained TestIsHonest
PROPERTIES SignalEndsProcess HandlerEndsProcess TestEnds
