--------------------------- MODULE Subscriptions ---------------------------
(***************************************************************************)
(* The row a user has in the SQLite table `subscriptions`, and what each   *)
(* function of app/payments/usage_tracker.py does to it.  Every operator   *)
(* here is one SQLite transaction (or one read) of that file: the modules  *)
(* that interleave them, ReportSlots, StripeBilling and YooKassaPayments,  *)
(* use them as the bodies of their actions.                                *)
(*                                                                         *)
(* Time is a count of ticks; MonthLen ticks make a calendar month, so the  *)
(* code's comparison of the first seven characters of two ISO timestamps   *)
(* is a comparison of two Month(t).                                        *)
(***************************************************************************)
EXTENDS Integers

CONSTANTS
  Limit,     \* reports per month a plan allows
  Duration,  \* ticks of access one YooKassa payment buys
  MonthLen   \* ticks in a month

Free  == "freemium"
Paid  == {"premium_monthly", "premium_yearly", "enterprise"}
Plans == Paid \cup {Free}

ASSUME SubscriptionsAssumption ==
  /\ MonthLen \in Nat \ {0}
  /\ Limit \in [Plans -> Nat]
  /\ Duration \in [Paid -> Nat \ {0}]

Never == -1   \* expires_at IS NULL

\* Stripe's status strings that activate_stripe_subscription stores as they come.
StripeLive == {"active", "past_due"}
Statuses   == {"absent", "canceled"} \cup StripeLive

Row == [plan : Plans, status : Statuses, limit : Nat, used : Nat,
        period : Nat, expires : Nat \cup {Never}]

\* No row for the user: every reader of the table treats it apart.
NoRow == [plan |-> Free, status |-> "absent", limit |-> 0, used |-> 0,
          period |-> 0, expires |-> Never]

Month(t) == t \div MonthLen

Active(r, t) == r.status = "active" /\ (r.expires = Never \/ r.expires >= t)

---------------------------------------------------------------------------
(* Reads. *)

\* get_user_subscription: what the API, the middleware and the worker see.
Snapshot(r, t) ==
  IF Active(r, t)
    THEN [plan |-> r.plan, limit |-> r.limit, active |-> TRUE,
          used |-> IF r.period = Month(t) THEN r.used ELSE 0]
    ELSE [plan |-> Free, limit |-> Limit[Free], active |-> r = NoRow, used |-> 0]

\* remaining_reports of the same snapshot.
Remaining(r, t) ==
  LET s == Snapshot(r, t) IN IF s.used <= s.limit THEN s.limit - s.used ELSE 0

\* Mutant: a reserved slot is not told from one still to be taken.
CheckLimitUnreserved(r, t, slotReserved) ==
  LET s == Snapshot(r, t) IN s.active /\ s.used < s.limit

\* check_report_limit as its callers use it (never with an output format).
CheckLimit(r, t, slotReserved) ==
  LET s == Snapshot(r, t)
  IN  s.active /\ IF slotReserved THEN s.used <= s.limit ELSE s.used < s.limit

\* _format_access_allowed: Notion and Google Slides need the enterprise plan.
FormatAllowed(plan, external) == external => plan = "enterprise"

---------------------------------------------------------------------------
(* Writes. *)

FreshFree(t) ==
  [plan |-> Free, status |-> "active", limit |-> Limit[Free], used |-> 0,
   period |-> Month(t), expires |-> Never]

\* The counter is zeroed when the month has changed.
NewMonth(r, t) ==
  [plan |-> r.plan, status |-> r.status, limit |-> r.limit, used |-> 0,
   period |-> Month(t), expires |-> r.expires]

\* The first half of consume_report_slot: insert, downgrade or new month.
Renewed(r, t) ==
  IF ~Active(r, t) THEN FreshFree(t)
  ELSE IF r.period # Month(t) THEN NewMonth(r, t)
  ELSE r

\* Mutant: the comparison with the limit is off by one.
CanConsumeOneMore(r, t, external) ==
  LET n == Renewed(r, t) IN FormatAllowed(n.plan, external) /\ n.used <= n.limit

\* The second half raises 402, and the transaction with it, unless ...
CanConsume(r, t, external) ==
  LET n == Renewed(r, t) IN FormatAllowed(n.plan, external) /\ n.used < n.limit

Consumed(r, t) == [Renewed(r, t) EXCEPT !.used = @ + 1]

\* Mutants: the used > 0 guard is dropped; it is off by one.
CanRefundUnguarded(r, t) == r # NoRow /\ r.period = Month(t)
CanRefundAboveOne(r, t) == r # NoRow /\ r.used > 1 /\ r.period = Month(t)

\* refund_report_slot returns False, and writes nothing, unless ...
CanRefund(r, t) == r # NoRow /\ r.used > 0 /\ r.period = Month(t)

Refunded(r) == [r EXCEPT !.used = @ - 1]

\* activate_subscription: the upsert after a YooKassa payment.
Activated(plan, t) ==
  [plan |-> plan, status |-> "active", limit |-> Limit[plan], used |-> 0,
   period |-> Month(t), expires |-> t + Duration[plan]]

\* activate_stripe_subscription: the upsert after a Stripe event.  The
\* conflict branch does not mention used_reports.
Synced(r, plan, status, start, end) ==
  [plan |-> plan, status |-> status, limit |-> Limit[plan], used |-> r.used,
   period |-> Month(start), expires |-> end]

\* Mutant: cancelling forgets to zero the counter.
CanceledKeepsUsage(r, t) ==
  IF r = NoRow THEN NoRow
  ELSE [r EXCEPT !.plan = Free, !.status = "canceled", !.limit = Limit[Free],
                 !.period = Month(t), !.expires = t]

\* cancel_subscription and cancel_stripe_subscription: UPDATE ... WHERE user_id.
\* (The date they write is not looked at again, the status no longer being
\* active.)
Canceled(r, t) ==
  IF r = NoRow THEN NoRow
  ELSE [plan |-> Free, status |-> "canceled", limit |-> Limit[Free], used |-> 0,
        period |-> Month(t), expires |-> t]

\* The cancel endpoint for a Stripe subscription: status and date only.
Ended(r, end) ==
  [plan |-> r.plan, status |-> "canceled", limit |-> r.limit, used |-> r.used,
   period |-> r.period, expires |-> end]
===========================================================================
