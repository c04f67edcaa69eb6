SPECIFICATION Spec
CONSTANTS
  r1 = r1  r2 = r2  u1 = u1  u2 = u2
  Repos = {r1, r2}
  Updates = {u1, u2}
  RepoOf <- MCRepoOf
  Name <- MCName
  Hosts <- RefreshHosts
  MaxChanges = 1
INVARIANT SecurityIsNeverHidden
