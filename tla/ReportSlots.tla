---------------------------- MODULE ReportSlots ----------------------------
(***************************************************************************)
(* A report from request to settled task, and the monthly slot it costs.   *)
(*                                                                         *)
(* Four processes share the SQLite file: the API (POST /generate_report,   *)
(* /api/preview/confirm, /voice/...), the Celery worker, Celery beat's     *)
(* dispatcher of scheduled reports, and the payment handlers.  Each action *)
(* below is what one of them does between two points where another can run *)
(* (an await, the commit of a transaction, a message to Redis), so every   *)
(* interleaving of requests, tasks, payments and the calendar is explored. *)
(*                                                                         *)
(* Tasks acknowledge late (celery_app.py): a message is gone only after    *)
(* the task returned or raised, and comes back when the worker dies first. *)
(***************************************************************************)
EXTENDS Subscriptions, FiniteSets

CONSTANTS
  Users, Tasks,    \* a task is one request for a report
  Owner,           \* the user that makes the request
  Channel,         \* the way it comes in
  PrimaryKey,      \* is its X-API-Key the one in users.api_key ?
  External,        \* does it ask for Notion or Google Slides ?
  PlanEvents,      \* what happens to subscriptions
  MaxTime,         \* bound: last tick of the clock
  MaxPlanChanges,  \* bound: payments, cancellations and Stripe events
  MaxRedeliver     \* bound: deaths of a whole worker, per task

Channels == {"report", "preview", "voice", "schedule"}

ASSUME ReportSlotsAssumption ==
  /\ IsFiniteSet(Tasks)
  /\ Owner \in [Tasks -> Users]
  /\ Channel \in [Tasks -> Channels]
  /\ PrimaryKey \in [Tasks -> BOOLEAN]
  /\ External \in [Tasks -> BOOLEAN]
  /\ PlanEvents \subseteq {"buy", "cancel", "sync", "end"}
  /\ MaxTime \in Nat /\ MaxPlanChanges \in Nat /\ MaxRedeliver \in Nat

\* UsageLimitMiddleware looks at these paths only.
Gated == {"report", "voice"}

\* The endpoints that put user_id into the task message.
SendsOwner == {"voice", "schedule"}

\* The worker finds the owner in the message, or by users.api_key.
Known(t) == Channel[t] \in SendsOwner \/ PrimaryKey[t]

VARIABLES
  now,          \* UTC clock
  subs,         \* user -> row of `subscriptions`
  request,      \* task -> how far the endpoint got
  work,         \* task -> how far the worker got
  acked,        \* tasks whose message the broker has forgotten
  history,      \* task -> status column of its `history` row
  redelivered,  \* task -> times its message came back
  planChanges,  \* payment events so far
  \* history variables, read by properties only
  epoch,        \* user -> times used_reports was set to 0
  charge,       \* task -> epoch and month of the slot it consumed
  credited      \* task -> epochs and months in which it gave a slot back

vars == <<now, subs, request, work, acked, history, redelivered, planChanges,
          epoch, charge, credited>>

requestVars == <<request, charge>>
workVars    == <<work, acked, redelivered, credited>>

NoCharge == [epoch |-> -1, month |-> -1]

RequestStages == {"idle", "admitted", "refused", "charged", "queued", "answered", "broken"}
WorkStages    == {"none", "queued", "running", "failing", "failed", "succeeded",
                  "rejected", "raised", "lost"}

TypeOK ==
  /\ now \in 0..MaxTime
  /\ subs \in [Users -> Row]
  /\ request \in [Tasks -> RequestStages]
  /\ work \in [Tasks -> WorkStages]
  /\ acked \in SUBSET Tasks
  /\ history \in [Tasks -> {"none", "PENDING", "SUCCESS", "FAILURE"}]
  /\ redelivered \in [Tasks -> 0..MaxRedeliver]
  /\ planChanges \in 0..MaxPlanChanges
  /\ epoch \in [Users -> Nat]
  /\ charge \in [Tasks -> [epoch : Nat, month : Nat] \cup {NoCharge}]
  /\ credited \in [Tasks -> SUBSET [epoch : Nat, month : Nat]]

Init ==
  /\ now = 0
  /\ subs = [u \in Users |-> NoRow]
  /\ request = [t \in Tasks |-> "idle"]
  /\ work = [t \in Tasks |-> "none"]
  /\ acked = {}
  /\ history = [t \in Tasks |-> "none"]
  /\ redelivered = [t \in Tasks |-> 0]
  /\ planChanges = 0
  /\ epoch = [u \in Users |-> 0]
  /\ charge = [t \in Tasks |-> NoCharge]
  /\ credited = [t \in Tasks |-> {}]

---------------------------------------------------------------------------
(* The endpoint. *)

\* The middleware lets the request through, or there is none on this path.
Admit(t) ==
  /\ request[t] = "idle"
  /\ Channel[t] \in Gated => CheckLimit(subs[Owner[t]], now, FALSE)
  /\ request' = [request EXCEPT ![t] = "admitted"]
  /\ UNCHANGED <<now, subs, history, planChanges, epoch, charge, workVars>>

\* The middleware answers 402.
TurnAway(t) ==
  /\ request[t] = "idle"
  /\ Channel[t] \in Gated /\ ~CheckLimit(subs[Owner[t]], now, FALSE)
  /\ request' = [request EXCEPT ![t] = "refused"]
  /\ UNCHANGED <<now, subs, history, planChanges, epoch, charge, workVars>>

Resets(r) == ~Active(r, now) \/ r.period # Month(now)

\* consume_report_slot commits.
Consume(t) ==
  LET u == Owner[t]
      e == epoch[u] + IF Resets(subs[u]) THEN 1 ELSE 0
  IN  /\ request[t] = "admitted"
      /\ CanConsume(subs[u], now, External[t])
      /\ subs' = [subs EXCEPT ![u] = Consumed(@, now)]
      /\ epoch' = [epoch EXCEPT ![u] = e]
      /\ charge' = [charge EXCEPT ![t] = [epoch |-> e, month |-> Month(now)]]
      /\ request' = [request EXCEPT ![t] = "charged"]
      /\ UNCHANGED <<now, history, planChanges, workVars>>

\* consume_report_slot raises 402 and rolls back.
Refuse(t) ==
  /\ request[t] = "admitted"
  /\ ~CanConsume(subs[Owner[t]], now, External[t])
  /\ request' = [request EXCEPT ![t] = "refused"]
  /\ UNCHANGED <<now, subs, history, planChanges, epoch, charge, workVars>>

\* .delay() puts the message into Redis; a scheduled report logs no history.
Enqueue(t) ==
  /\ request[t] = "charged"
  /\ request' = [request EXCEPT ![t] =
                   IF Channel[t] = "schedule" THEN "answered" ELSE "queued"]
  /\ work' = [work EXCEPT ![t] = "queued"]
  /\ UNCHANGED <<now, subs, history, planChanges, epoch, charge, acked,
                 redelivered, credited>>

\* log_history inserts the row, by which time the worker may be done.
LogHistory(t) ==
  /\ request[t] = "queued"
  /\ history' = [history EXCEPT ![t] = "PENDING"]
  /\ request' = [request EXCEPT ![t] = "answered"]
  /\ UNCHANGED <<now, subs, planChanges, epoch, charge, workVars>>

\* Redis refuses the message, or the process dies, before the answer.
Break(t) ==
  /\ request[t] \in {"charged", "queued"}
  /\ request' = [request EXCEPT ![t] = "broken"]
  /\ UNCHANGED <<now, subs, history, planChanges, epoch, charge, workVars>>

---------------------------------------------------------------------------
(* The worker: generate_report and generate_voice_report. *)

Step(t, from, to) == work[t] = from /\ work' = [work EXCEPT ![t] = to]

\* check_report_limit(slot_reserved=True), for an owner it can resolve.
Passes(t) == Known(t) => CheckLimit(subs[Owner[t]], now, TRUE)

Start(t) ==
  /\ Step(t, "queued", "running")
  /\ Passes(t)
  /\ UNCHANGED <<now, subs, history, planChanges, epoch, requestVars, acked,
                 redelivered, credited>>

\* "Report limit exceeded" is raised outside the try: nothing is given back.
Reject(t) ==
  /\ Step(t, "queued", "rejected")
  /\ ~Passes(t)
  /\ acked' = acked \cup {t}
  /\ UNCHANGED <<now, subs, history, planChanges, epoch, requestVars,
                 redelivered, credited>>

\* So is whatever else goes wrong before the try: finding the owner, the check
\* itself, his preferences, an output format nobody knows, what remains to him.
Raise(t) ==
  /\ Step(t, "queued", "raised")
  /\ acked' = acked \cup {t}
  /\ UNCHANGED <<now, subs, history, planChanges, epoch, requestVars,
                 redelivered, credited>>

\* UPDATE history ... WHERE user_id AND task_id: no row, no effect.
Record(t, status) ==
  history' = IF Known(t) /\ history[t] # "none"
               THEN [history EXCEPT ![t] = status] ELSE history

Succeed(t) ==
  /\ Step(t, "running", "succeeded")
  /\ Record(t, "SUCCESS")
  /\ UNCHANGED <<now, subs, planChanges, epoch, requestVars, acked,
                 redelivered, credited>>

\* The pipeline raised; refund_report_slot is the first thing the handler does.
Fail(t) ==
  /\ Step(t, "running", "failing")
  /\ IF Known(t) /\ CanRefund(subs[Owner[t]], now)
       THEN /\ subs' = [subs EXCEPT ![Owner[t]] = Refunded(@)]
            /\ credited' = [credited EXCEPT ![t] =
                              @ \cup {[epoch |-> epoch[Owner[t]], month |-> Month(now)]}]
       ELSE UNCHANGED <<subs, credited>>
  /\ UNCHANGED <<now, history, planChanges, epoch, requestVars, acked, redelivered>>

\* Mutant: the slot is given back a second time with the failure's history.
RecordFailureRefundsAgain(t) ==
  /\ Step(t, "failing", "failed")
  /\ Record(t, "FAILURE")
  /\ subs' = [subs EXCEPT ![Owner[t]] = IF CanRefund(@, now) THEN Refunded(@) ELSE @]
  /\ UNCHANGED <<now, planChanges, epoch, requestVars, acked, redelivered, credited>>

RecordFailure(t) ==
  /\ Step(t, "failing", "failed")
  /\ Record(t, "FAILURE")
  /\ UNCHANGED <<now, subs, planChanges, epoch, requestVars, acked,
                 redelivered, credited>>

Unacked(t) == t \notin acked /\ work[t] \in {"running", "failing", "failed", "succeeded"}

\* Mutant: only a task that returned is acknowledged.
AckSucceededOnly(t) ==
  /\ Unacked(t) /\ work[t] = "succeeded"
  /\ acked' = acked \cup {t}
  /\ UNCHANGED <<now, subs, history, planChanges, epoch, requestVars, work,
                 redelivered, credited>>

\* task_acks_late: the message goes once the task function is left.
Ack(t) ==
  /\ Unacked(t) /\ work[t] \in {"failed", "succeeded"}
  /\ acked' = acked \cup {t}
  /\ UNCHANGED <<now, subs, history, planChanges, epoch, requestVars, work,
                 redelivered, credited>>

\* The pool child dies: Celery acknowledges the message all the same.
ChildLost(t) ==
  /\ Unacked(t)
  /\ work' = [work EXCEPT ![t] = "lost"]
  /\ acked' = acked \cup {t}
  /\ UNCHANGED <<now, subs, history, planChanges, epoch, requestVars,
                 redelivered, credited>>

\* The whole worker dies: Redis hands the message out again.
Redeliver(t) ==
  /\ Unacked(t) /\ redelivered[t] < MaxRedeliver
  /\ work' = [work EXCEPT ![t] = "queued"]
  /\ redelivered' = [redelivered EXCEPT ![t] = @ + 1]
  /\ UNCHANGED <<now, subs, history, planChanges, epoch, requestVars, acked, credited>>

---------------------------------------------------------------------------
(* Payments, cancellations and the calendar. *)

Write(u, r) ==
  /\ planChanges < MaxPlanChanges
  /\ planChanges' = planChanges + 1
  /\ subs' = [subs EXCEPT ![u] = r]
  /\ UNCHANGED <<now, history, requestVars, workVars>>

\* activate_subscription.
Buy(u, p) ==
  /\ "buy" \in PlanEvents
  /\ Write(u, Activated(p, now))
  /\ epoch' = [epoch EXCEPT ![u] = @ + 1]

\* cancel_subscription and cancel_stripe_subscription, the former also for a
\* user on the free plan who polls an abandoned checkout.
Cancel(u) ==
  /\ "cancel" \in PlanEvents
  /\ Write(u, Canceled(subs[u], now))
  /\ epoch' = [epoch EXCEPT ![u] = @ + 1]

\* activate_stripe_subscription with what Stripe says of the current period.
SyncStripe(u, p, status, start, end) ==
  /\ "sync" \in PlanEvents
  /\ Write(u, Synced(subs[u], p, status, start, end))
  /\ UNCHANGED epoch

\* The cancel endpoint: the row keeps plan and usage until Stripe's event.
EndStripe(u, end) ==
  /\ "end" \in PlanEvents
  /\ subs[u] # NoRow
  /\ Write(u, Ended(subs[u], end))
  /\ UNCHANGED epoch

PlanChange(u) ==
  \/ \E p \in Paid : Buy(u, p)
  \/ Cancel(u)
  \/ \E p \in Paid, status \in StripeLive, start \in 0..now,
        end \in (now..MaxTime + 1) \cup {Never} : SyncStripe(u, p, status, start, end)
  \/ \E end \in now..MaxTime + 1 : EndStripe(u, end)

Tick ==
  /\ now < MaxTime
  /\ now' = now + 1
  /\ UNCHANGED <<subs, history, planChanges, epoch, requestVars, workVars>>

Endpoint(t) == Admit(t) \/ TurnAway(t) \/ Consume(t) \/ Refuse(t)
                 \/ Enqueue(t) \/ LogHistory(t)
Worker(t)   == Start(t) \/ Reject(t) \/ Raise(t) \/ Succeed(t) \/ Fail(t)
                 \/ RecordFailure(t) \/ Ack(t)
Fault(t)    == Break(t) \/ ChildLost(t) \/ Redeliver(t)

Next ==
  \/ \E t \in Tasks : Endpoint(t) \/ Worker(t) \/ Fault(t)
  \/ \E u \in Users : PlanChange(u)
  \/ Tick

Spec == Init /\ [][Next]_vars

\* docker-compose restarts the worker; a task's pipeline ends one way or the
\* other (that it does is an assumption about the agents, not modelled).
Fairness == \A t \in Tasks : WF_vars(Worker(t))

FairSpec == Spec /\ Fairness

---------------------------------------------------------------------------
(* Properties. *)

\* The reports of u that were charged to the counter as it stands.
ChargedNow(u) == {t \in Tasks : Owner[t] = u /\ charge[t].epoch = epoch[u]}

FailedKnown(t) == Known(t) /\ work[t] \in {"failing", "failed"}

\* A user pays for no report that failed in the pipeline: in the running month
\* used_reports is at most the number of reports charged since it was last zeroed,
\* the failed ones whose owner the worker could resolve left out.  (One that is
\* rejected, or raises before the pipeline, he pays for.)  It takes consume,
\* refund, both kinds of reset and every payment handler to keep it.
OnlyPaysForUnfailed ==
  \A u \in Users :
    subs[u].period = Month(now) =>
      subs[u].used <= Cardinality({t \in ChargedNow(u) : ~FailedKnown(t)})

\* What a user is promised of his counter (module QuotaLedger), and that
\* endpoints, worker deaths, payments and Stripe's events keep it: a report is
\* counted once, each attempt at it takes at most one off, and whoever zeroes
\* the counter starts a new count.
Ledger == INSTANCE QuotaLedger WITH
  Reports <- Tasks,
  used    <- [u \in Users |-> subs[u].used],
  open    <- [u \in Users |-> ChargedNow(u)],
  ever    <- {t \in Tasks : charge[t] # NoCharge},
  running <- {t \in Tasks : work[t] = "running"}

LedgerKept == Ledger!Spec

\* So, under Stripe's events too, nobody pays for more reports than were
\* charged to the counter.
NeverOvercharged == \A u \in Users : subs[u].used <= Cardinality(ChargedNow(u))

\* used_reports never exceeds the limit of the plan in the same row: consume
\* checks the limit of the row it renewed, and whoever lowers a limit resets
\* the counter.  (activate_stripe_subscription does neither.)
WithinLimit == \A u \in Users : subs[u].used <= subs[u].limit \/ subs[u] = NoRow

\* A slot the endpoint reserved is honoured: as long as nobody touches the
\* plan, the worker's own limit check rejects no queued report, however many
\* were reserved at once and whatever month it is when the worker gets there.
ReservationHonoured ==
  planChanges = 0 => \A t \in Tasks : work[t] # "rejected"

\* No report is free: every report charged to the counter that gave no slot
\* back is still counted, unless some report of the user may have given one
\* back twice (its message came back) or to a counter that was zeroed since.
NoFreeReport ==
  \A u \in Users :
    (\A t \in Tasks : Owner[t] = u =>
       redelivered[t] = 0 /\ credited[t] \subseteq {charge[t]})
      => Cardinality({t \in ChargedNow(u) : credited[t] = {}}) <= subs[u].used

\* Every message a worker can take is taken and leaves the broker for good.
QueuedSettles ==
  \A t \in Tasks : work[t] = "queued" ~> t \in acked

\* usage_tracker.py:551 "Call this when a Celery report task fails after the
\* API already consumed a slot": a failed report has given its slot back, or
\* its counter was reset since.
FailedReportRefunded ==
  \A t \in Tasks :
    work[t] = "failed" /\ charge[t] = [epoch |-> epoch[Owner[t]], month |-> Month(now)]
      => credited[t] # {}
===========================================================================
