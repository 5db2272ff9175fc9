SPECIFICATION FairSpec
CONSTANTS
  v1 = v1
  v2 = v2
  Runs = {v1, v2}
  MaxCrashes = 1
INVARIANTS TypeOK ResultIsTrue NoDanglingContainer StrayScriptIsReported NeverStuck
PROPERTY ScriptIsStopped
\* every run may be done
CHECK_DEADLOCK FALSE
