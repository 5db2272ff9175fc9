SPECIFICATION Spec
CONSTANTS
  NoJob = NoJob
  Worker = worker
  j1 = j1
  r1 = r1
  Jobs = {j1}
  Resumers = {r1}
  MaxSubmits = 1
  MaxResumes = 1
  MaxRestarts = 0
INVARIANT SidecarsWellFormedAtRest
\* the model stops when every bounded action is used up
CHECK_DEADLOCK FALSE
