\* A confirmed report waits in the queue while the cleanup of every ten minutes runs.
SPECIFICATION Spec
CONSTANTS
  f1 = f1
  Flows = {f1}
  MaxPolls = 2
  TTL = 2
  MaxCrashes = 1
  MaxClicks = 3
INVARIANTS
  UploadUntilRead
\* The user may stop.
CHECK_DEADLOCK FALSE
