SPECIFICATION FairSpec
CONSTANTS
  child = child  daemon = daemon
  InGroup = {child}
  Detached = {daemon}
  Limit <- MCLimit
  ExitCodes = {0, 100}
  Accepted = {}
  Capacity = 2
  MaxWritten = 3
  lang = lang  lcAll = lcAll  path = path
  Entries <- MCEntries  Environments <- MCEnvironments  Overrides <- MCOverrides
  MaxEntries = 4
INVARIANTS CappedBufferExact SuccessIsComplete KilledIsContextError EnvironmentIsMerged
PROPERTIES PipesAreDrained ImplementsContract
