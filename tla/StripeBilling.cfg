\* A subscription and a one-time payment of one user: renewed, unpaid, cancelled,
\* refunded, with one fault.
SPECIFICATION FairSpec
CONSTANTS
  u1 = u1
  s1 = s1
  s2 = s2
  Users = {u1}
  Contracts = {s1, s2}
  Owner <- MCOwner
  PlanOf <- MCPlanOf
  OneTime = {s2}
  Limit <- MCLimit
  Duration <- MCDuration
  MonthLen = 2
  MaxTime = 2
  MaxBatches = 3
  MaxOthers = 0
  MaxFaults = 1
INVARIANTS
  TypeOK
  RowFollowsStripe
  ChargesFollowStripe
PROPERTIES
  EventsTakenOnce
  RaisedIsRetried
\* Contracts are finitely many and the clock is bounded: the system may stop.
CHECK_DEADLOCK FALSE
