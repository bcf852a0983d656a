--------------------------- MODULE StripeBilling ---------------------------
(***************************************************************************)
(* Subscriptions through Stripe: the checkout and cancel endpoints and the *)
(* refund of routers/payments, the webhook of webhooks/stripe_webhook.     *)
(*                                                                         *)
(* stripe_client's calls block the event loop, so a handler here is never  *)
(* interleaved with another one; but the process may die, or a transaction *)
(* fail, between the steps of one.  Stripe is external: it keeps the       *)
(* contract, sends an event for each change of it, in any order, and       *)
(* repeats an event until it is answered 200.                              *)
(***************************************************************************)
EXTENDS Subscriptions, FiniteSets

CONSTANTS
  Users, Contracts,  \* a contract is a Stripe subscription, or one payment
  Owner, PlanOf,
  OneTime,     \* the contracts of checkout mode "payment"
  MaxTime,     \* bound: last tick
  MaxBatches,  \* bound: changes Stripe reports
  MaxOthers,   \* bound: contracts a user has already when he pays for one
  MaxFaults    \* bound: crashes, failed transactions and failed lookups

None == "none"

ASSUME StripeAssumption ==
  /\ Owner \in [Contracts -> Users]
  /\ PlanOf \in [Contracts -> Paid]
  /\ OneTime \subseteq Contracts
  /\ None \notin Contracts
  /\ MaxTime \in Nat /\ MaxBatches \in Nat /\ MaxOthers \in Nat /\ MaxFaults \in Nat

VARIABLES
  now,       \* UTC clock
  subs,      \* user -> row of `subscriptions`
  stripeId,  \* user -> stripe_subscription_id of that row
  payment,   \* bill -> status in `payments` of the attempts to collect it
  receipts,  \* contracts whose checkout session has a "succeeded" row of its own
  claimed,   \* events in `stripe_webhook_events`
  cache,     \* contract -> stripe_client's in-memory snapshot of it
  contract,  \* contract -> what Stripe holds
  outbox,    \* events Stripe still has to deliver
  batch,     \* changes reported so far
  faults,    \* faults so far
  \* history variables
  settled,   \* events whose handler ran to its end
  again,     \* events whose handler did so twice
  dropped,   \* events that stayed claimed although their handler did not
  disturbed  \* users of whom the row need not follow the contract (see below)

rowVars     == <<subs, stripeId>>
payVars     == <<payment, receipts>>
remoteVars  == <<contract, batch>>
historyVars == <<settled, again, dropped>>
vars == <<now, rowVars, payVars, claimed, cache, remoteVars, outbox, faults,
          historyVars, disturbed>>

Snapshots == [status : StripeLive \cup {None, "canceled"}, start : 0..MaxTime,
              end : Nat \cup {Never}, atEnd : BOOLEAN]
NoContract == [status |-> None, start |-> 0, end |-> 0, atEnd |-> FALSE]

\* The invoice of a period, or the one payment: contract and start of the period.
Bills == Contracts \X (0..MaxTime)

Kinds  == {"checkout", "updated", "deleted", "paid", "failed"}
Events == [n : 1..MaxBatches, about : Contracts, kind : Kinds, snap : Snapshots]

TypeOK ==
  /\ now \in 0..MaxTime
  /\ subs \in [Users -> Row]
  /\ stripeId \in [Users -> Contracts \cup {None}]
  /\ payment \in [Bills -> {None, "succeeded", "failed", "refunded"}]
  /\ receipts \subseteq Contracts
  /\ contract \in [Contracts -> Snapshots]
  /\ cache \in [Contracts -> Snapshots]
  /\ batch \in 0..MaxBatches
  /\ faults \in 0..MaxFaults
  /\ disturbed \subseteq Users
  /\ again \subseteq settled /\ settled \cup dropped \subseteq claimed
  /\ \A e \in outbox \cup claimed :
       /\ e.n \in 1..batch /\ e.about \in Contracts
       /\ e.kind \in Kinds /\ e.snap \in Snapshots

Init ==
  /\ now = 0
  /\ subs = [u \in Users |-> NoRow]
  /\ stripeId = [u \in Users |-> None]
  /\ payment = [b \in Bills |-> None] /\ receipts = {}
  /\ contract = [s \in Contracts |-> NoContract]
  /\ cache = [s \in Contracts |-> NoContract]
  /\ outbox = {} /\ claimed = {}
  /\ batch = 0 /\ faults = 0
  /\ settled = {} /\ again = {} /\ dropped = {}
  /\ disturbed = {}

Disturb(us) == disturbed' = disturbed \cup us
Fault == faults < MaxFaults /\ faults' = faults + 1

---------------------------------------------------------------------------
(* Stripe. *)

Live(s) == contract[s].status \in StripeLive

\* The contract becomes c; one event of each of the kinds tells of it.
Report(s, c, kinds) ==
  /\ batch < MaxBatches
  /\ batch' = batch + 1
  /\ contract' = [contract EXCEPT ![s] = c]
  /\ outbox' = outbox \cup {[n |-> batch + 1, about |-> s, kind |-> k, snap |-> c] : k \in kinds}

\* The user pays at the checkout URL.  Nothing keeps him from a second contract.
RemoteCheckout(s) ==
  LET others == {x \in Contracts \ {s} : Owner[x] = Owner[s] /\ Live(x)}
      once == s \in OneTime
  IN  /\ contract[s].status = None /\ subs[Owner[s]] # NoRow
      /\ Cardinality(others) <= MaxOthers
      /\ Report(s, [status |-> "active", start |-> now, atEnd |-> FALSE,
                    end |-> IF once THEN Never ELSE now + Duration[PlanOf[s]]],
                IF once THEN {"checkout"} ELSE {"checkout", "updated", "paid"})
      /\ Disturb(IF others = {} THEN {} ELSE {Owner[s]})
      /\ UNCHANGED <<now, rowVars, payVars, claimed, cache, faults, historyVars>>

RemoteStep(s, c, kinds) ==
  /\ s \notin OneTime /\ Live(s)
  /\ Report(s, c, kinds)
  /\ UNCHANGED <<now, rowVars, payVars, claimed, cache, faults, historyVars, disturbed>>

\* The next period starts, paid or not; an unpaid one is paid later, or not.
RemoteRenew(s) ==
  LET c == contract[s]
      next(status) == [status |-> status, start |-> c.end, atEnd |-> FALSE,
                       end |-> c.end + Duration[PlanOf[s]]]
  IN  /\ c.status = "active" /\ now >= c.end /\ ~c.atEnd
      /\ \/ RemoteStep(s, next("active"), {"updated", "paid"})
         \/ RemoteStep(s, next("past_due"), {"updated", "failed"})

RemoteRecover(s) ==
  /\ contract[s].status = "past_due"
  /\ RemoteStep(s, [contract[s] EXCEPT !.status = "active"], {"updated", "paid"})

\* It ends: nobody pays any more, or it was cancelled; Stripe may also be set to
\* keep a contract nobody pays as "unpaid", which is told as a change of it.
\* "canceled" stands for both.
RemoteEnd(s) ==
  LET ended == [contract[s] EXCEPT !.status = "canceled"]
  IN  \/ /\ \/ contract[s].status = "past_due"
            \/ contract[s].atEnd /\ now >= contract[s].end
         /\ RemoteStep(s, ended, {"deleted"})
      \/ contract[s].status = "past_due" /\ RemoteStep(s, ended, {"updated"})

---------------------------------------------------------------------------
(* Rows. *)

\* Mutant: the upsert of an existing row forgets expires_at.
SyncKeepsExpiry(s, c) ==
  LET u == Owner[s]
      r == subs[u]
  IN  /\ subs' = [subs EXCEPT ![u] = Synced(r, PlanOf[s], c.status, c.start,
                                        IF r.expires = Never THEN c.end ELSE r.expires)]
      /\ stripeId' = IF s \in OneTime THEN stripeId ELSE [stripeId EXCEPT ![u] = s]

\* activate_stripe_subscription; a one-time payment leaves the id alone.
Sync(s, c) ==
  LET u == Owner[s]
  IN  /\ subs' = [subs EXCEPT ![u] = Synced(@, PlanOf[s], c.status, c.start, c.end)]
      /\ stripeId' = IF s \in OneTime THEN stripeId ELSE [stripeId EXCEPT ![u] = s]

\* cancel_stripe_subscription, cancel_subscription.
CancelRow(u) ==
  /\ subs' = [subs EXCEPT ![u] = Canceled(@, now)]
  /\ stripeId' = [stripeId EXCEPT ![u] = None]

---------------------------------------------------------------------------
(* POST /webhooks/stripe *)

LooksUp(e) == e.kind = "checkout" /\ e.about \notin OneTime

\* What the handlers write, c being the contract as the lookup returned it.
Apply(e, c) ==
  CASE e.kind = "checkout" -> Sync(e.about, c)
    [] e.kind = "updated"  -> IF e.snap.status = "canceled" THEN CancelRow(Owner[e.about])
                              ELSE Sync(e.about, e.snap)
    [] e.kind = "deleted"  -> CancelRow(Owner[e.about])
    [] OTHER               -> UNCHANGED rowVars

\* The payment intent of an event: the invoice's, or that of a one-time checkout.
Bill(e) == <<e.about, e.snap.start>>
Collects(e) == e.kind = "paid" \/ (e.kind = "checkout" /\ e.about \in OneTime)

\* The checkout session of a subscription has no intent: its row has its own key.
Receive(e) == receipts' = IF LooksUp(e) THEN receipts \cup {e.about} ELSE receipts

\* Mutant: the row of a charge is written once and never updated.
PayOnce(e) ==
  /\ payment' = IF payment[Bill(e)] # None THEN payment
                ELSE CASE Collects(e)        -> [payment EXCEPT ![Bill(e)] = "succeeded"]
                       [] e.kind = "failed" -> [payment EXCEPT ![Bill(e)] = "failed"]
                       [] OTHER             -> payment
  /\ Receive(e)

\* record_stripe_payment: inserted, or updated under the same payment_id.
Pay(e) ==
  /\ payment' = CASE Collects(e)        -> [payment EXCEPT ![Bill(e)] = "succeeded"]
                  [] e.kind = "failed" -> [payment EXCEPT ![Bill(e)] = "failed"]
                  [] OTHER             -> payment
  /\ Receive(e)

Remember(e, c) == cache' = IF LooksUp(e) THEN [cache EXCEPT ![e.about] = c] ELSE cache

\* An event of the same user that is older, or newer, than e.
Overtakes(e) ==
  \/ \E f \in outbox \ claimed : Owner[f.about] = Owner[e.about] /\ f.n < e.n
  \/ \E f \in settled : Owner[f.about] = Owner[e.about] /\ f.n > e.n

\* Mutant: no claim is written.
HandleUnclaimed(e, c) ==
  /\ Apply(e, c)
  /\ Pay(e)
  /\ Remember(e, c)
  /\ settled' = settled \cup {e}
  /\ again' = again \cup ({e} \cap settled)
  /\ Disturb(IF Overtakes(e) THEN {Owner[e.about]} ELSE {})
  /\ UNCHANGED <<now, claimed, remoteVars, dropped>>

\* The handler of e runs to its end.
Handle(e, c) ==
  /\ claimed' = claimed \cup {e}
  /\ Apply(e, c)
  /\ Pay(e)
  /\ Remember(e, c)
  /\ settled' = settled \cup {e}
  /\ again' = again \cup ({e} \cap settled)
  /\ Disturb(IF Overtakes(e) THEN {Owner[e.about]} ELSE {})
  /\ UNCHANGED <<now, remoteVars, dropped>>

\* Mutant: the claim is written, never read.
WebhookUnclaimed(e) ==
  /\ e \in outbox
  /\ Handle(e, contract[e.about])
  /\ outbox' = outbox \ {e}
  /\ UNCHANGED faults

Webhook(e) ==
  /\ e \in outbox \ claimed
  /\ Handle(e, contract[e.about])
  /\ outbox' = outbox \ {e}
  /\ UNCHANGED faults

\* Stripe cannot be asked; a snapshot younger than five minutes stands in.
WebhookStale(e) ==
  /\ e \in outbox \ claimed /\ LooksUp(e) /\ cache[e.about] # NoContract
  /\ Fault
  /\ Handle(e, cache[e.about])
  /\ outbox' = outbox \ {e}

\* The answer does not reach Stripe, or the process dies before it is sent.
WebhookAnswerLost(e) ==
  /\ e \in outbox \ claimed
  /\ Fault
  /\ Handle(e, contract[e.about])
  /\ UNCHANGED outbox

\* "Ignoring duplicate Stripe event".
WebhookDuplicate(e) ==
  /\ e \in outbox \cap claimed
  /\ outbox' = outbox \ {e}
  /\ UNCHANGED <<now, rowVars, payVars, claimed, cache, remoteVars, faults,
                 historyVars, disturbed>>

\* What a handler that does not reach its end has written by then: a checkout
\* activates first and records the payment in a second transaction.
ApplyPartly(e) ==
  \/ UNCHANGED <<rowVars, cache>>
  \/ e.kind = "checkout" /\ Sync(e.about, contract[e.about]) /\ Remember(e, contract[e.about])

\* Mutant: the claim is not released.
WebhookRaisesClaimed(e) ==
  /\ e \in outbox \ claimed
  /\ Fault
  /\ ApplyPartly(e)
  /\ claimed' = claimed \cup {e}
  /\ Disturb(IF Overtakes(e) THEN {Owner[e.about]} ELSE {})
  /\ UNCHANGED <<now, payVars, remoteVars, outbox, historyVars>>

\* It raises: the claim is released, the answer is 500.
WebhookRaises(e) ==
  /\ e \in outbox \ claimed
  /\ Fault
  /\ ApplyPartly(e)
  /\ Disturb(IF Overtakes(e) THEN {Owner[e.about]} ELSE {})
  /\ UNCHANGED <<now, payVars, claimed, remoteVars, outbox, historyVars>>

\* The process dies, or the claim cannot be released either.
WebhookDies(e) ==
  /\ e \in outbox \ claimed
  /\ Fault
  /\ ApplyPartly(e)
  /\ claimed' = claimed \cup {e}
  /\ dropped' = dropped \cup {e}
  /\ Disturb({Owner[e.about]})
  /\ UNCHANGED <<now, payVars, remoteVars, outbox, settled, again>>

---------------------------------------------------------------------------
(* Endpoints of routers/payments. *)

\* POST /api/payments/create-checkout: the customer's row, if he has none.
CreateCheckout(u) ==
  /\ subs[u] = NoRow
  /\ subs' = [subs EXCEPT ![u] = FreshFree(now)]
  /\ UNCHANGED <<now, stripeId, payVars, claimed, cache, remoteVars, outbox, faults,
                 historyVars, disturbed>>

\* POST /api/payments/cancel-subscription.  Stripe refuses to modify a contract
\* that has ended (502).
CancelAtStripe(u) ==
  LET s == stripeId[u]
  IN  /\ s # None /\ Live(s)
      /\ Report(s, [contract[s] EXCEPT !.atEnd = TRUE], {"updated"})

EndRow(u, end) == subs' = [subs EXCEPT ![u] = Ended(@, end)]

CancelEndpoint(u) ==
  LET s == stripeId[u]
  IN  /\ CancelAtStripe(u)
      /\ EndRow(u, contract[s].end)
      /\ cache' = [cache EXCEPT ![s] = contract'[s]]
      /\ UNCHANGED <<now, stripeId, payVars, claimed, faults, historyVars, disturbed>>

\* Stripe did it; the second call, for the date, fails.  Or the process dies.
CancelHalf(u) ==
  /\ Fault
  /\ CancelAtStripe(u)
  /\ \/ cache[stripeId[u]] # NoContract /\ EndRow(u, cache[stripeId[u]].end)
     \/ UNCHANGED subs
  /\ UNCHANGED <<now, stripeId, payVars, claimed, cache, historyVars, disturbed>>

\* POST /admin/payments/refund/{payment_id}: Stripe keeps the contract.  The row
\* of a checkout session has no intent and is refused.
Refundable(b) == payment[b] = "succeeded" /\ CancelRow(Owner[b[1]]) /\ Disturb({Owner[b[1]]})

Refund(b) ==
  /\ Refundable(b)
  /\ payment' = [payment EXCEPT ![b] = "refunded"]
  /\ UNCHANGED <<now, receipts, claimed, cache, remoteVars, outbox, faults, historyVars>>

\* The row is cancelled in one transaction, the payment marked in another.
RefundHalf(b) ==
  /\ Fault
  /\ Refundable(b)
  /\ UNCHANGED <<now, payVars, claimed, cache, remoteVars, outbox, historyVars>>

---------------------------------------------------------------------------

\* consume_report_slot, by any endpoint that makes a report.
Consume(u) ==
  /\ CanConsume(subs[u], now, FALSE)
  /\ subs' = [subs EXCEPT ![u] = Consumed(@, now)]
  /\ UNCHANGED <<now, stripeId, payVars, claimed, cache, remoteVars, outbox, faults,
                 historyVars, disturbed>>

NoSnapshots == cache' = [s \in Contracts |-> NoContract]

\* A restart empties the snapshots; so do five minutes.
Forget ==
  /\ NoSnapshots
  /\ UNCHANGED <<now, rowVars, payVars, claimed, remoteVars, outbox, faults,
                 historyVars, disturbed>>

Tick ==
  /\ now < MaxTime
  /\ now' = now + 1
  /\ NoSnapshots
  /\ UNCHANGED <<rowVars, payVars, claimed, remoteVars, outbox, faults,
                 historyVars, disturbed>>

Delivery(e) == Webhook(e) \/ WebhookDuplicate(e)
Failure(e)  == WebhookStale(e) \/ WebhookAnswerLost(e) \/ WebhookRaises(e) \/ WebhookDies(e)

Next ==
  \/ \E s \in Contracts :
       RemoteCheckout(s) \/ RemoteRenew(s) \/ RemoteRecover(s) \/ RemoteEnd(s)
  \/ \E b \in Bills : Refund(b) \/ RefundHalf(b)
  \/ \E e \in outbox : Delivery(e) \/ Failure(e)
  \/ \E u \in Users : CreateCheckout(u) \/ CancelEndpoint(u) \/ CancelHalf(u) \/ Consume(u)
  \/ Forget \/ Tick

Spec == Init /\ [][Next]_vars

\* Stripe repeats an event until it is answered 200.
FairSpec == Spec /\ WF_vars(\E e \in outbox : Delivery(e))

---------------------------------------------------------------------------
(* Properties. *)

\* What stripe_webhook_events is for (module EventIntake): however often Stripe
\* repeats an event and wherever an earlier attempt broke off, its handler runs
\* to its end once, or the event is lost by a claim nobody released; no event
\* is both, and none is claimed for any other reason.
Intake == INSTANCE EventIntake WITH
  told  <- outbox \cup claimed,
  taken <- claimed,
  done  <- settled,
  lost  <- dropped,
  twice <- again

EventsTakenOnce == Intake!Spec

\* So no event's handler runs to its end twice.
OncePerEvent == again = {}

\* Nothing of u is on its way, and nothing went wrong: all his events were
\* handled in Stripe's order, none was dropped, his contracts did not overlap
\* and no charge was refunded.
Quiet(u) ==
  u \notin disturbed /\ \A e \in outbox \ claimed : Owner[e.about] # u

\* Then the row follows Stripe: who has a paid contract has its plan, who has
\* none has the free one, whatever the cancel endpoint, consume_report_slot,
\* stale snapshots, raised handlers and repeated events did in between.
RowFollowsStripe ==
  \A u \in Users :
    Quiet(u) =>
      LET live == {s \in Contracts : Owner[s] = u /\ Live(s)}
      IN  /\ \A s \in live :
               contract[s].status = "active" /\ (s \in OneTime \/ contract[s].end >= now)
                 => subs[u].plan = PlanOf[s] /\ Active(subs[u], now)
          /\ live = {} => subs[u].plan = Free

\* And so do the charges: in `payments`, the row of a contract's running period
\* has the outcome of the latest attempt to collect it, whatever became of the
\* periods before, and a subscription's checkout has its row.
ChargesFollowStripe ==
  \A s \in Contracts :
    Quiet(Owner[s]) /\ Live(s) =>
      /\ payment[<<s, contract[s].start>>] =
           IF contract[s].status = "active" THEN "succeeded" ELSE "failed"
      /\ s \in OneTime \/ s \in receipts

\* An event whose handler raised is repeated until it is handled: time and
\* again (Stripe's changes are bounded here) no event is unhandled, the ones
\* left out whose claim could not be released.
RaisedIsRetried == []<>(outbox \cup claimed \subseteq settled \cup dropped)
===========================================================================
