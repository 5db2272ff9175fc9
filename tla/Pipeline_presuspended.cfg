SPECIFICATION Spec
CONSTANTS
  Worker = worker
  r1 = r1
  Resumers = {r1}
  Durable = TRUE
  MaxArtifacts = 1
  MaxRuns = 1
  MaxResumes = 1
  MaxCrashes = 0
INVARIANT OnlySuspendedReleased
\* the incident may be done with every bounded action used up
CHECK_DEADLOCK FALSE
