\* One submission, two polls, records that live two ticks, one process that dies, two clicks.
SPECIFICATION FairSpec
CONSTANTS
  f1 = f1
  Flows = {f1}
  MaxPolls = 2
  TTL = 2
  MaxCrashes = 1
  MaxClicks = 2
INVARIANTS
  TypeOK
  SpinnerIsWork
  LivePreviewHasUpload
  ProcessingIsTrue
PROPERTIES
  OrdersKept
  FlowEnds
\* The user may stop.
CHECK_DEADLOCK FALSE
