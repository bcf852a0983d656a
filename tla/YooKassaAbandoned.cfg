\* The browser polls an abandoned checkout of a paid user.
SPECIFICATION Spec
CONSTANTS
  u1 = u1
  p1 = p1
  p2 = p2
  Users = {u1}
  Payments = {p1, p2}
  Owner <- OwnerOne
  PlanOf <- MCPlanOf
  Churn = {}
  Polled = {p1, p2}
  Limit <- MCLimit
  Duration <- MCDuration
  MonthLen = 2
  MaxTime = 1
  MaxFaults = 1
INVARIANTS
  KeepsPlan
\* Payments are finitely many and the clock is bounded: the system may stop.
CHECK_DEADLOCK FALSE
