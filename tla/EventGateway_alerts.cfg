SPECIFICATION FairSpec
CONSTANTS
  NoJob = NoJob
  Worker = worker
  j1 = j1
  j2 = j2
  r1 = r1
  Jobs = {j1, j2}
  Resumers = {r1}
  MaxSubmits = 2
  MaxResumes = 2
  MaxRestarts = 1
INVARIANTS TypeOK NoAlertForgotten LastWriteWins SearchAnswers
PROPERTIES NoReturnToProcessing RunsFollowGraph QueueDrains
\* the model stops when every bounded action is used up
CHECK_DEADLOCK FALSE
