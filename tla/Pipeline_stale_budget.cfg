SPECIFICATION Spec
CONSTANTS
  Worker = worker
  r1 = r1
  Resumers = {r1}
  Durable = TRUE
  MaxArtifacts = 1
  MaxRuns = 2
  MaxResumes = 0
  MaxCrashes = 1
INVARIANT AbortedOnlyByOwnTrip
\* the incident may be done with every bounded action used up
CHECK_DEADLOCK FALSE
