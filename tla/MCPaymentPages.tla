--------------------------- MODULE MCPaymentPages ---------------------------
(* Two payments for two plans of one user, in one tab. *)
EXTENDS PaymentPages, TLC

CONSTANTS u1, p1, p2

MCLimit    == [p \in Plans |-> 1]
MCDuration == [p \in Paid |-> IF p = "premium_yearly" THEN 2 ELSE 1]
OwnerOne   == [p \in Payments |-> u1]
MCPlanOf   == [p \in Payments |-> IF p = p1 THEN "premium_monthly" ELSE "enterprise"]
===========================================================================
