\* Stripe's events, which move the period and keep the counter; a worker death
\* per task; every queued task settles.
SPECIFICATION FairSpec
CONSTANTS
  u1 = u1
  u2 = u2
  a = a
  b = b
  c = c
  Users = {u1}
  Tasks = {a, b}
  Owner <- OwnerOne
  Channel <- Schedules
  PrimaryKey <- AllPrimary
  External <- NoExternal
  Limit <- MCLimit
  Duration <- MCDuration
  MonthLen = 1
  PlanEvents = {"cancel", "sync", "end"}
  MaxTime = 1
  MaxPlanChanges = 1
  MaxRedeliver = 1
INVARIANTS
  NoFreeReport
PROPERTIES
  LedgerKept
  QueuedSettles
\* Requests are finitely many and the clock is bounded: the system may stop.
CHECK_DEADLOCK FALSE
