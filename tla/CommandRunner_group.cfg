SPECIFICATION Spec
CONSTANTS
  child = child  daemon = daemon
  InGroup = {child}
  Detached = {daemon}
  Limit <- MCLimit
  ExitCodes = {0, 100}
  Accepted = {}
  Capacity = 1
  MaxWritten = 1
  lang = lang  lcAll = lcAll  path = path
  Entries <- MCEntries  Environments <- MCEnvironments  Overrides <- MCOverrides
  MaxEntries = 1
INVARIANT CancellationKillsGroup
