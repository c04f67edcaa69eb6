SPECIFICATION Spec
CONSTANTS
  Versions <- MCVersions
  Works <- MCWorks
  AgentVersions <- MCAgentVersions
  Majors <- MCMajors
  MaxRuns = 2
INVARIANTS OnlyVerifiedPlugins ChecksComeFirst SuccessIsWhole RerunRepairs
