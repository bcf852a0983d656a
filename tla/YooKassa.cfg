\* Two payments of one user, one of them marked as churn: webhooks, polls, refunds
\* and cancellations, one fault.
SPECIFICATION FairSpec
CONSTANTS
  u1 = u1
  p1 = p1
  p2 = p2
  Users = {u1}
  Payments = {p1, p2}
  Owner <- OwnerOne
  PlanOf <- MCPlanOf
  Churn = {p2}
  Polled = {p1}
  Limit <- MCLimit
  Duration <- MCDuration
  MonthLen = 2
  MaxTime = 1
  MaxFaults = 1
INVARIANTS
  TypeOK
  PlanBacked
  WebhookKeepsPlan
PROPERTIES
  PurchasesHonoured
\* Payments are finitely many and the clock is bounded: the system may stop.
CHECK_DEADLOCK FALSE
