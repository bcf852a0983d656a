\* The payment pages of one tab: two payments of one user, one of them marked as
\* churn, one fault, and a page the user opens besides where he is sent.
SPECIFICATION PagesSpec
CONSTANTS
  u1 = u1
  p1 = p1
  p2 = p2
  Users = {u1}
  Payments = {p1, p2}
  Owner <- OwnerOne
  PlanOf <- MCPlanOf
  Churn = {p2}
  Polled = {p1, p2}
  Limit <- MCLimit
  Duration <- MCDuration
  MonthLen = 2
  MaxTime = 0
  MaxFaults = 1
  MaxViews = 1
INVARIANTS
  ActivatedIsTrue
\* Payments are finitely many and the clock is bounded: the system may stop.
CHECK_DEADLOCK FALSE
