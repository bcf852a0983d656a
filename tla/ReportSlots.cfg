\* A report and a preview of one user, YooKassa payments and cancellations, two
\* months, one worker death per task.
SPECIFICATION Spec
CONSTANTS
  u1 = u1
  u2 = u2
  a = a
  b = b
  c = c
  Users = {u1}
  Tasks = {a, b}
  Owner <- OwnerOne
  Channel <- Mixed
  PrimaryKey <- NonePrimaryButA
  External <- OneExternal
  Limit <- MCLimit
  Duration <- MCDuration
  MonthLen = 2
  PlanEvents = {"buy", "cancel"}
  MaxTime = 2
  MaxPlanChanges = 2
  MaxRedeliver = 1
INVARIANTS
  TypeOK
  OnlyPaysForUnfailed
  WithinLimit
  ReservationHonoured
\* Requests are finitely many and the clock is bounded: the system may stop.
CHECK_DEADLOCK FALSE
