SPECIFICATION Spec
CONSTANTS
  glibc = glibc
  Sensitive = {glibc}
  KernelPackages <- TwoKernels
  Suffix <- MCSuffix
  MaxTime = 2
  Releases <- MCReleases
INVARIANT NewerKernelIsPending
