------------------------ MODULE SubscriptionsProofs ------------------------
(***************************************************************************)
(* What each operator of Subscriptions makes of a row: the lemmas the      *)
(* proofs about its users share.                                           *)
(***************************************************************************)
EXTENDS Subscriptions, TLAPS

\* A tick falls into some month.
LEMMA MonthType == ASSUME NEW t \in Nat PROVE Month(t) \in Nat
  BY SubscriptionsAssumption DEF Month

\* The calendar does not run backwards.
LEMMA MonthMonotone == ASSUME NEW t \in Nat PROVE Month(t) <= Month(t + 1)
  BY SubscriptionsAssumption DEF Month

\* The absent row has the shape of a row.
LEMMA NoRowType == NoRow \in Row
  BY DEF NoRow, Row, Plans, Statuses, Never

\* consume_report_slot's first half leaves a row that is active this month.
LEMMA RenewedType ==
  ASSUME NEW r \in Row, NEW t \in Nat
  PROVE  Renewed(r, t) \in Row /\ Renewed(r, t).period = Month(t)
  BY MonthType, SubscriptionsAssumption
  DEF Renewed, NewMonth, FreshFree, Row, Plans, Statuses, StripeLive, Never

\* consume_report_slot keeps the shape and counts one report.
LEMMA ConsumedType ==
  ASSUME NEW r \in Row, NEW t \in Nat
  PROVE  /\ Consumed(r, t) \in Row
         /\ Consumed(r, t).period = Month(t)
         /\ Consumed(r, t).used = Renewed(r, t).used + 1
  BY RenewedType DEF Consumed, Row

\* refund_report_slot never makes the counter negative.
LEMMA RefundedType ==
  ASSUME NEW r \in Row, NEW t \in Nat, CanRefund(r, t)
  PROVE  Refunded(r) \in Row /\ Refunded(r).used = r.used - 1
  BY DEF CanRefund, Refunded, Row

\* A YooKassa payment writes a row with an unused counter.
LEMMA ActivatedType ==
  ASSUME NEW p \in Paid, NEW t \in Nat
  PROVE  Activated(p, t) \in Row
  <1>1. Duration[p] \in Nat /\ Limit[p] \in Nat /\ p \in Plans
    BY SubscriptionsAssumption DEF Plans
  <1> QED  BY <1>1, MonthType DEF Activated, Row, Statuses, StripeLive

\* A cancellation writes a row with an unused counter.
LEMMA CanceledType ==
  ASSUME NEW r \in Row, NEW t \in Nat
  PROVE  Canceled(r, t) \in Row
  BY NoRowType, MonthType, SubscriptionsAssumption
  DEF Canceled, Row, Plans, Statuses

\* A Stripe event keeps the counter and the shape.
LEMMA SyncedType ==
  ASSUME NEW r \in Row, NEW p \in Paid, NEW s \in Statuses,
         NEW start \in Nat, NEW end \in Nat \cup {Never}
  PROVE  Synced(r, p, s, start, end) \in Row
  <1>1. Limit[p] \in Nat /\ p \in Plans
    BY SubscriptionsAssumption DEF Plans
  <1> QED  BY <1>1, MonthType DEF Synced, Row

\* So does the cancel endpoint.
LEMMA EndedType ==
  ASSUME NEW r \in Row, NEW end \in Nat \cup {Never}
  PROVE  Ended(r, end) \in Row
  BY DEF Ended, Row, Statuses

\* The row of a new customer.
LEMMA FreshFreeType == ASSUME NEW t \in Nat PROVE FreshFree(t) \in Row
  BY MonthType, SubscriptionsAssumption
  DEF FreshFree, Row, Plans, Statuses, StripeLive, Never

=============================================================================
