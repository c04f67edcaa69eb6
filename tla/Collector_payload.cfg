SPECIFICATION Spec
CONSTANTS
  r1 = r1  r2 = r2  u1 = u1  u2 = u2
  Repos = {r1, r2}
  Updates = {u1, u2}
  RepoOf <- MCRepoOf
  Name <- MCName
  Hosts <- MCHosts
  MaxChanges = 2
INVARIANTS TypeOK AllOrNothing CountsAddUp StableUpdatesAreExact QuietHostIsExact
