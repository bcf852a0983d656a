----------------------------- MODULE Purchases -----------------------------
(***************************************************************************)
(* What a payer is promised, whatever the webhook, the polls, refunds and  *)
(* crashes do: he holds a plan only on a payment of his own that went      *)
(* through, and every payment that went through is granted.                *)
(***************************************************************************)
CONSTANTS Users, Payments, Owner, None

VARIABLES
  paid,     \* payments that went through
  granted,  \* payments that have been turned into a plan
  holds     \* user -> payment his plan rests on

Init ==
  /\ paid = {}
  /\ granted = {}
  /\ holds = [u \in Users |-> None]

Pay(p) ==
  /\ paid' = paid \cup {p}
  /\ UNCHANGED <<granted, holds>>

\* Granting again, or after another payment was granted, is allowed.
Grant(p) ==
  /\ p \in paid
  /\ granted' = granted \cup {p}
  /\ holds' = [holds EXCEPT ![Owner[p]] = p]
  /\ UNCHANGED paid

\* A cancellation or a refund.
Revoke(u) ==
  /\ holds' = [holds EXCEPT ![u] = None]
  /\ UNCHANGED <<paid, granted>>

Next ==
  \/ \E p \in Payments : Pay(p) \/ Grant(p)
  \/ \E u \in Users : Revoke(u)

Spec == Init /\ [][Next]_<<paid, granted, holds>>

\* A plan rests on a payment of that user that was granted, and nothing is granted
\* that was not paid.
Backed ==
  /\ granted \subseteq paid
  /\ \A u \in Users : holds[u] # None => holds[u] \in granted /\ Owner[holds[u]] = u

FirstGrant(p) == p \notin granted /\ Grant(p)

FairSpec ==
  /\ Spec
  /\ \A p \in Payments : WF_<<paid, granted, holds>>(FirstGrant(p))
=============================================================================
