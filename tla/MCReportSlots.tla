--------------------------- MODULE MCReportSlots ---------------------------
(* Small instances of ReportSlots: one user, up to three reports, a clock of *)
(* two months.                                                               *)
EXTENDS ReportSlots, TLC

CONSTANTS u1, u2, a, b, c

\* Limits small enough for two reports to hit them, the enterprise plan's, which
\* alone admits an external report, and another plan's that is higher.
MCLimit    == [p \in Plans |-> IF p \in {Free, "enterprise"} THEN 1 ELSE 2]
TwoEach    == [p \in Plans |-> 2]
MCDuration == [p \in Paid |-> IF p = "premium_yearly" THEN 2 ELSE 1]

\* One user, every channel family: a key of users.api_key, a generated key, a
\* schedule.
OwnerOne   == [t \in Tasks |-> u1]
Mixed      == [t \in Tasks |-> IF t = c THEN "schedule" ELSE IF t = b THEN "preview" ELSE "report"]
Reports    == [t \in Tasks |-> "report"]
Schedules  == [t \in Tasks |-> "schedule"]
AllPrimary == [t \in Tasks |-> TRUE]
NonePrimaryButA == [t \in Tasks |-> t = a]
NoExternal == [t \in Tasks |-> FALSE]
OneExternal == [t \in Tasks |-> t = b]

===========================================================================
