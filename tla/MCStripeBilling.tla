-------------------------- MODULE MCStripeBilling --------------------------
(* One user and two contracts: a subscription and a second one, or a        *)
(* payment.                                                                 *)
EXTENDS StripeBilling, TLC

CONSTANTS u1, s1, s2

MCLimit    == [p \in Plans |-> 1]
MCDuration == [p \in Paid |-> 1]
MCOwner    == [s \in Contracts |-> u1]
MCPlanOf   == [s \in Contracts |-> IF s = s1 THEN "premium_monthly" ELSE "enterprise"]
===========================================================================
