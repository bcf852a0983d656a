\* A report asked for with a generated key fails.
SPECIFICATION Spec
CONSTANTS
  u1 = u1
  u2 = u2
  a = a
  b = b
  c = c
  Users = {u1}
  Tasks = {b}
  Owner <- OwnerOne
  Channel <- Reports
  PrimaryKey <- NonePrimaryButA
  External <- NoExternal
  Limit <- MCLimit
  Duration <- MCDuration
  MonthLen = 1
  PlanEvents = {"buy", "cancel", "end"}
  MaxTime = 0
  MaxPlanChanges = 0
  MaxRedeliver = 0
INVARIANTS
  FailedReportRefunded
\* Requests are finitely many and the clock is bounded: the system may stop.
CHECK_DEADLOCK FALSE
