SPECIFICATION Spec
CONSTANTS
  glibc = glibc
  Sensitive = {glibc}
  KernelPackages <- MCKernels
  Suffix <- MCSuffix
  MaxTime = 2
  Releases <- MCReleases
INVARIANTS TypeOK PendingIsReal LastingIsPending ComparesSegments
