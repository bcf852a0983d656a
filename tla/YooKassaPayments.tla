-------------------------- MODULE YooKassaPayments --------------------------
(***************************************************************************)
(* Payments through YooKassa: the endpoints of routers/payments_yookassa,  *)
(* the webhook of webhooks/yookassa_webhook and the local cancel endpoint. *)
(*                                                                         *)
(* The API is one process with one event loop: a handler runs alone until  *)
(* it awaits YooKassa, and everything else may run before it goes on.  So  *)
(* a handler is one action per stretch between awaits.  A crash loses the  *)
(* handlers that wait and the cache of the client, and may fall between    *)
(* the two transactions of one stretch, as an error may.  YooKassa itself  *)
(* is external: it moves a payment on, sends a notification for each move, *)
(* and repeats it until it is answered 200.                                *)
(***************************************************************************)
EXTENDS Subscriptions

CONSTANTS
  Users, Payments,
  Owner,      \* payment -> user (its metadata carry the user_id)
  PlanOf,     \* payment -> plan bought
  Churn,      \* payments whose metadata ask to cancel the subscription
  Polled,     \* payments whose GET /status/{payment_id} the browser polls
  MaxTime,    \* bound: last tick
  MaxFaults   \* bound: crashes, failed transactions and answers that are lost

None == "none"

ASSUME YooKassaAssumption ==
  /\ Owner \in [Payments -> Users]
  /\ PlanOf \in [Payments -> Paid]
  /\ Churn \subseteq Payments /\ Polled \subseteq Payments
  /\ MaxTime \in Nat /\ MaxFaults \in Nat
  /\ None \notin Payments

VARIABLES
  now,       \* UTC clock
  subs,      \* user -> row of `subscriptions`
  paidBy,    \* user -> yookassa_payment_id of that row
  local,     \* payment -> status in `payments`
  remote,    \* payment -> status at YooKassa
  refunded,  \* payments YooKassa has refunded in full
  notes,     \* notifications YooKassa still has to deliver
  waiting,   \* payment -> handlers that await YooKassa, and what it answered
  cached,    \* payment -> what the client remembers YooKassa said of it
  faults,    \* faults so far
  \* history variables
  since,     \* payment -> tick of its first activation
  standing   \* user -> has he paid, and what became of it

vars == <<now, subs, paidBy, local, remote, refunded, notes, waiting, cached,
          faults, since, standing>>

rowVars == <<subs, paidBy, since, standing>>

Final      == {"succeeded", "canceled"}
RemoteStates == {None, "pending", "waiting_for_capture"} \cup Final
LocalStates  == RemoteStates \cup {"refunded"}

\* What one payment's handlers await: create's answer, a poll's answer (the
\* status YooKassa read), an admin refund before and after YooKassa did it.
Handlers == [create : BOOLEAN, poll : RemoteStates, refund : {None, "asked", "done"}]
Idle == [create |-> FALSE, poll |-> None, refund |-> None]

TypeOK ==
  /\ now \in 0..MaxTime
  /\ subs \in [Users -> Row]
  /\ paidBy \in [Users -> Payments \cup {None}]
  /\ local \in [Payments -> LocalStates]
  /\ remote \in [Payments -> RemoteStates]
  /\ refunded \in SUBSET Payments
  /\ notes \in SUBSET (Payments \X (RemoteStates \ {None, "pending"}))
  /\ waiting \in [Payments -> Handlers]
  /\ cached \in [Payments -> RemoteStates]
  /\ faults \in 0..MaxFaults
  /\ since \in [Payments -> Nat \cup {Never}]
  /\ standing \in [Users -> {"none", "paid", "cut"}]

Init ==
  /\ now = 0
  /\ subs = [u \in Users |-> NoRow]
  /\ paidBy = [u \in Users |-> None]
  /\ local = [p \in Payments |-> None]
  /\ remote = [p \in Payments |-> None]
  /\ refunded = {}
  /\ notes = {}
  /\ waiting = [p \in Payments |-> Idle]
  /\ cached = [p \in Payments |-> None]
  /\ faults = 0
  /\ since = [p \in Payments |-> Never]
  /\ standing = [u \in Users |-> "none"]

---------------------------------------------------------------------------
(* What the handlers do to the subscription row. *)

\* activate_subscription(user_id, plan_type, payment).
Activate(p) ==
  /\ subs' = [subs EXCEPT ![Owner[p]] = Activated(PlanOf[p], now)]
  /\ paidBy' = [paidBy EXCEPT ![Owner[p]] = p]
  /\ since' = [since EXCEPT ![p] = IF @ = Never THEN now ELSE @]
  /\ standing' = [standing EXCEPT ![Owner[p]] = "paid"]

\* cancel_subscription(user_id): the row only, not what the user is due.
CancelRow(u) ==
  /\ subs' = [subs EXCEPT ![u] = Canceled(@, now)]
  /\ paidBy' = [paidBy EXCEPT ![u] = None]
  /\ UNCHANGED since

\* The user asked for it, or got the money back.
Forfeit(u) == standing' = [standing EXCEPT ![u] = "none"]

\* Or he did not.
Cut(u) == standing' = [standing EXCEPT ![u] = IF @ = "paid" THEN "cut" ELSE @]

\* The process dies: handlers that wait, and what the client remembers, are lost.
Dies ==
  /\ waiting' = [p \in Payments |-> Idle]
  /\ cached' = [p \in Payments |-> None]

---------------------------------------------------------------------------
(* POST /api/payments/yookassa/create *)

CreateAsk(p) ==
  /\ remote[p] = None
  /\ remote' = [remote EXCEPT ![p] = "pending"]
  /\ waiting' = [waiting EXCEPT ![p].create = TRUE]
  /\ UNCHANGED <<now, rowVars, local, refunded, notes, cached, faults>>

\* INSERT OR REPLACE; the answer carries the confirmation URL.
CreateStore(p) ==
  /\ waiting[p].create
  /\ local' = [local EXCEPT ![p] = "pending"]
  /\ waiting' = [waiting EXCEPT ![p].create = FALSE]
  /\ UNCHANGED <<now, rowVars, remote, refunded, notes, cached, faults>>

---------------------------------------------------------------------------
(* YooKassa: the user pays at the URL, or gives up. *)

Moves == [pending |-> {"waiting_for_capture"} \cup Final,
          waiting_for_capture |-> Final]

RemoteMove(p, s) ==
  /\ remote[p] \in DOMAIN Moves /\ s \in Moves[remote[p]]
  /\ local[p] # None
  /\ remote' = [remote EXCEPT ![p] = s]
  /\ notes' = notes \cup {<<p, s>>}
  /\ UNCHANGED <<now, rowVars, local, refunded, waiting, cached, faults>>

---------------------------------------------------------------------------
(* POST /webhooks/yookassa *)

\* The first transaction: the payment row takes the status of the event.
StoreStatus(p, s) == local' = [local EXCEPT ![p] = s]

\* Mutants: money that is only authorised activates the plan; an abandoned
\* checkout cancels it.
ApplyEventAuthorised(p, s) ==
  IF s \in {"waiting_for_capture", "succeeded"} THEN Activate(p) ELSE UNCHANGED rowVars
ApplyEventAbandoned(p, s) ==
  CASE s = "succeeded" -> Activate(p)
    [] s = "canceled"  -> CancelRow(Owner[p]) /\ UNCHANGED standing
    [] OTHER           -> UNCHANGED rowVars

\* The second: an abandoned checkout leaves the subscription alone.
ApplyEvent(p, s) ==
  CASE s = "succeeded" -> Activate(p)
    [] s = "canceled" /\ p \in Churn -> CancelRow(Owner[p]) /\ Forfeit(Owner[p])
    [] OTHER -> UNCHANGED rowVars

Answered(p, s) == notes' = notes \ {<<p, s>>}

Webhook(p, s) ==
  /\ <<p, s>> \in notes
  /\ StoreStatus(p, s)
  /\ ApplyEvent(p, s)
  /\ Answered(p, s)
  /\ UNCHANGED <<now, remote, refunded, waiting, cached, faults>>

\* The 200 is lost: YooKassa will send the notification again.
WebhookAnswerLost(p, s) ==
  /\ <<p, s>> \in notes /\ faults < MaxFaults
  /\ faults' = faults + 1
  /\ StoreStatus(p, s)
  /\ ApplyEvent(p, s)
  /\ UNCHANGED <<now, remote, refunded, notes, waiting, cached>>

\* Mutant: the webhook answers 200 although its second transaction failed.
WebhookHalfAnswered(p, s) ==
  /\ <<p, s>> \in notes /\ faults < MaxFaults
  /\ faults' = faults + 1
  /\ StoreStatus(p, s)
  /\ Answered(p, s)
  /\ Dies \/ UNCHANGED <<waiting, cached>>
  /\ UNCHANGED <<now, rowVars, remote, refunded>>

\* The process dies before the second transaction, or that fails (500).
WebhookHalf(p, s) ==
  /\ <<p, s>> \in notes /\ faults < MaxFaults
  /\ faults' = faults + 1
  /\ StoreStatus(p, s)
  /\ Dies \/ UNCHANGED <<waiting, cached>>
  /\ UNCHANGED <<now, rowVars, remote, refunded, notes>>

---------------------------------------------------------------------------
(* GET /api/payments/yookassa/status/{payment_id} *)

PollAsk(p) ==
  /\ p \in Polled /\ local[p] # None /\ waiting[p].poll = None
  /\ waiting' = [waiting EXCEPT ![p].poll = remote[p]]
  /\ UNCHANGED <<now, rowVars, local, remote, refunded, notes, cached, faults>>

PollOver(p) == waiting' = [waiting EXCEPT ![p].poll = None]

\* get_payment keeps what YooKassa says.  (So does capture_payment, of payments
\* the webhook captures; that answer is left out.)
Keeps(p, s) == cached' = [cached EXCEPT ![p] = s]

\* What get_payment returns: YooKassa's answer; or, that being lost or a 5xx, the
\* answer kept of an earlier call.  (It is good for 300 seconds, here until the
\* process dies.)
Told(p, s) ==
  /\ waiting[p].poll # None /\ s # None
  /\ \/ s = waiting[p].poll /\ Keeps(p, s) /\ UNCHANGED faults
     \/ /\ s = cached[p] /\ faults < MaxFaults
        /\ faults' = faults + 1
        /\ UNCHANGED cached

\* Mutant: the poll stores what it is told and leaves the plan to the webhook.
PollApplyStoresOnly(p, s) ==
  /\ Told(p, s)
  /\ StoreStatus(p, s)
  /\ PollOver(p)
  /\ UNCHANGED <<now, rowVars, remote, refunded, notes>>

PollApply(p, s) ==
  /\ Told(p, s)
  /\ StoreStatus(p, s)
  /\ CASE s = "succeeded" -> Activate(p)
       [] s = "canceled"  -> CancelRow(Owner[p]) /\ Cut(Owner[p])
       [] OTHER           -> UNCHANGED rowVars
  /\ PollOver(p)
  /\ UNCHANGED <<now, remote, refunded, notes>>

\* The row of the payment is written, that of the subscription is not: the
\* process dies in between, or the second transaction fails.
PollHalf(p) ==
  LET s == waiting[p].poll
  IN  /\ s \in Final /\ faults < MaxFaults
      /\ faults' = faults + 1
      /\ StoreStatus(p, s)
      /\ Dies \/ (PollOver(p) /\ Keeps(p, s))
      /\ UNCHANGED <<now, rowVars, remote, refunded, notes>>

---------------------------------------------------------------------------
(* POST /admin/payments/yookassa/refund/{payment_id} *)

RefundAsk(p) ==
  /\ local[p] = "succeeded" /\ waiting[p].refund = None
  /\ waiting' = [waiting EXCEPT ![p].refund = "asked"]
  /\ UNCHANGED <<now, rowVars, local, remote, refunded, notes, cached, faults>>

\* YooKassa refunds a paid payment once; its status stays "succeeded".
RemoteRefund(p) ==
  /\ waiting[p].refund = "asked"
  /\ IF remote[p] = "succeeded" /\ p \notin refunded
       THEN /\ refunded' = refunded \cup {p}
            /\ waiting' = [waiting EXCEPT ![p].refund = "done"]
       ELSE /\ waiting' = [waiting EXCEPT ![p].refund = None]
            /\ UNCHANGED refunded
  /\ UNCHANGED <<now, rowVars, local, remote, notes, cached, faults>>

\* Mutant: the row takes the state of the refund, not of the payment.
RefundApplyStoresRefund(p) ==
  /\ waiting[p].refund = "done"
  /\ CancelRow(Owner[p])
  /\ Forfeit(Owner[p])
  /\ StoreStatus(p, waiting[p].refund)
  /\ waiting' = [waiting EXCEPT ![p].refund = None]
  /\ UNCHANGED <<now, remote, refunded, notes, cached, faults>>

\* downgrade_after_refund: the subscription first, then the payment.
RefundApply(p) ==
  /\ waiting[p].refund = "done"
  /\ CancelRow(Owner[p])
  /\ Forfeit(Owner[p])
  /\ StoreStatus(p, "refunded")
  /\ waiting' = [waiting EXCEPT ![p].refund = None]
  /\ UNCHANGED <<now, remote, refunded, notes, cached, faults>>

\* Only the first of its transactions: the payment stays "succeeded".
RefundHalf(p) ==
  /\ waiting[p].refund = "done" /\ faults < MaxFaults
  /\ faults' = faults + 1
  /\ CancelRow(Owner[p])
  /\ Forfeit(Owner[p])
  /\ \/ Dies
     \/ /\ waiting' = [waiting EXCEPT ![p].refund = None]
        /\ UNCHANGED cached
  /\ UNCHANGED <<now, local, remote, refunded, notes>>

---------------------------------------------------------------------------
\* POST /api/payments/cancel-subscription: a row YooKassa paid for once keeps its
\* payment_provider, so it can be cancelled again.
CancelEndpoint(u) ==
  /\ subs[u] # NoRow
  /\ CancelRow(u)
  /\ Forfeit(u)
  /\ UNCHANGED <<now, local, remote, refunded, notes, waiting, cached, faults>>

Crash ==
  /\ faults < MaxFaults
  /\ faults' = faults + 1
  /\ Dies
  /\ UNCHANGED <<now, rowVars, local, remote, refunded, notes>>

Tick ==
  /\ now < MaxTime
  /\ now' = now + 1
  /\ UNCHANGED <<rowVars, local, remote, refunded, notes, waiting, cached, faults>>

Notified(p) == \E s \in RemoteStates : Webhook(p, s)

Next ==
  \/ \E p \in Payments :
       \/ CreateAsk(p) \/ CreateStore(p)
       \/ Notified(p)
       \/ PollAsk(p) \/ PollHalf(p)
       \/ RefundAsk(p) \/ RemoteRefund(p) \/ RefundApply(p) \/ RefundHalf(p)
       \/ \E s \in RemoteStates :
            \/ PollApply(p, s)
            \/ RemoteMove(p, s) \/ WebhookAnswerLost(p, s) \/ WebhookHalf(p, s)
  \/ \E u \in Users : CancelEndpoint(u)
  \/ Crash
  \/ Tick

Spec == Init /\ [][Next]_vars

\* YooKassa repeats a notification until it is answered 200.
FairSpec == Spec /\ \A p \in Payments : WF_vars(Notified(p))

---------------------------------------------------------------------------
(* Properties. *)

\* The payment a row names was paid, by that user, for that plan: no event,
\* poll, refund or crash in any order activates a plan on another payment's
\* money.
PlanBacked ==
  \A u \in Users :
    paidBy[u] # None =>
      /\ Owner[paidBy[u]] = u
      /\ remote[paidBy[u]] = "succeeded"
      /\ subs[u].plan = PlanOf[paidBy[u]] /\ subs[u].status = "active"

\* yookassa_webhook.py:115 "Abandoned/failed checkouts must NOT downgrade an
\* active paid user": who paid and neither cancelled nor was refunded has the
\* plan.
KeepsPlan == \A u \in Users : standing[u] # "none" => subs[u].plan \in Paid

\* The webhook keeps that promise, and a crash does: who paid has the plan until
\* it is cut, and what cuts it is the poll of a checkout of his own that YooKassa
\* reports as canceled.
WebhookKeepsPlan ==
  \A u \in Users :
    /\ standing[u] = "paid" => subs[u].plan \in Paid /\ paidBy[u] # None
    /\ standing[u] = "cut" =>
         \E p \in Polled : Owner[p] = u /\ remote[p] = "canceled"

\* What a payer is promised (module Purchases), and that the handlers keep it
\* although answers are lost and the process dies between the two transactions
\* of the webhook: a plan is only ever granted on a payment that went through,
\* and each payment that went through is granted in the end.
Purchase == INSTANCE Purchases WITH
  paid    <- {p \in Payments : remote[p] = "succeeded"},
  granted <- {p \in Payments : since[p] # Never},
  holds   <- paidBy

PurchasesHonoured == Purchase!FairSpec
===========================================================================
