---------------------------- MODULE QuotaLedger ----------------------------
(***************************************************************************)
(* What a user is promised of the counter of his reports, whatever the     *)
(* endpoints, the workers, payments and the calendar do: a report is       *)
(* counted once, when it is asked for; an attempt at it that fails takes   *)
(* at most one off, once; and whoever starts the count anew forgets all    *)
(* that was on it.                                                         *)
(***************************************************************************)
EXTENDS Integers, FiniteSets

CONSTANTS Users, Reports, Owner

VARIABLES
  used,    \* user -> his counter
  open,    \* user -> reports counted since it was started anew
  ever,    \* reports that were counted once
  running  \* reports a worker attempts

vars == <<used, open, ever, running>>

Init ==
  /\ used = [u \in Users |-> 0]
  /\ open = [u \in Users |-> {}]
  /\ ever = {} /\ running = {}

\* A report is counted on top of those that are open ...
Charge(r) ==
  /\ r \notin ever
  /\ ever' = ever \cup {r}
  /\ used' = [used EXCEPT ![Owner[r]] = @ + 1]
  /\ open' = [open EXCEPT ![Owner[r]] = @ \cup {r}]
  /\ UNCHANGED running

\* ... or as the first of a new count.
ChargeAfresh(r) ==
  /\ r \notin ever
  /\ ever' = ever \cup {r}
  /\ used' = [used EXCEPT ![Owner[r]] = 1]
  /\ open' = [open EXCEPT ![Owner[r]] = {r}]
  /\ UNCHANGED running

Begin(r) ==
  /\ r \in ever \ running
  /\ running' = running \cup {r}
  /\ UNCHANGED <<used, open, ever>>

\* An attempt is over; one that failed takes one off the counter as it stands.
End(r) ==
  /\ r \in running
  /\ running' = running \ {r}
  /\ \/ UNCHANGED used
     \/ used[Owner[r]] > 0 /\ used' = [used EXCEPT ![Owner[r]] = @ - 1]
  /\ UNCHANGED <<open, ever>>

Reset(u) ==
  /\ used' = [used EXCEPT ![u] = 0]
  /\ open' = [open EXCEPT ![u] = {}]
  /\ UNCHANGED <<ever, running>>

Next ==
  \/ \E r \in Reports : Charge(r) \/ ChargeAfresh(r) \/ Begin(r) \/ End(r)
  \/ \E u \in Users : Reset(u)

Spec == Init /\ [][Next]_vars

\* Nobody pays for more reports than were counted.
Covered == \A u \in Users : used[u] <= Cardinality(open[u])
=============================================================================
