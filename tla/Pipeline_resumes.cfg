SPECIFICATION FairSpec
CONSTANTS
  Worker = worker
  r1 = r1
  Resumers = {r1}
  Durable = TRUE
  MaxArtifacts = 2
  MaxRuns = 2
  MaxResumes = 1
  MaxCrashes = 1
INVARIANTS TypeOK VerdictBelongsToArtifact UnsafeNeedsResume ReportIsBacked SpentBudgetStopsTheFix ExecutionsCounted NeverStuck
PROPERTIES ImplementsApprovalGate ImplementsGraphRuns InvocationEnds AnsweredGateCompletes
\* the incident may be done with every bounded action used up
CHECK_DEADLOCK FALSE
