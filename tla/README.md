# ReportAgent, specified

TLA+ modules, TLC runs and TLAPS proofs about ReportAgent, a service that turns
uploaded files into reports: a FastAPI application, a Celery worker with beat,
Redis as broker and store, one SQLite file, payments through Stripe and YooKassa.

- `PROJECT.json` lists components, runs, mutants, findings, hazards, theorems, and
  for each definition the source lines it stands for.
- A run is `tlc -config <run>.cfg <module>` with the `MC` module of that name in
  `PROJECT.json`; a proof is `tlapm <M>Proofs.tla` for `ReportSlots`, `YooKassaPayments`,
  `Subscriptions`, `StripeBilling`, `Previews`, `BrowserSession`, `VoiceReports`, `Console`.

## 1. The system

### Processes

| process | from | what follows for a model |
|---|---|---|
| API | one uvicorn process (`app/Dockerfile:63`, no `--workers`) | almost all endpoints are `async def` with blocking SQLite calls: a handler runs alone between two `await`s. YooKassa's client is awaited; Stripe's client, Redis, SQLite and `.delay()` block. |
| worker | Celery prefork pool (`docker-compose.prod.yml:93`) | truly parallel with the API and with itself; `task_acks_late`, `worker_prefetch_multiplier=1` (`celery_app.py:24-27`) |
| beat | `docker-compose.prod.yml:187` | sends `run_due_scheduled_reports` every minute, cleanups less often |
| webhook threads | `webhook/dispatcher.py:147-164` | daemon threads of API or worker; their exceptions end there |
| browser tab | `frontend/js/` | one event loop; a handler runs alone between two `await`s, nothing it awaits is cancelled when the user leaves the page, a changed `location.hash` is handled by an event of its own, and every page draws into the same element |

The servers are restarted by compose (`restart: unless-stopped`). SQLite transactions
are atomic and serial; a function of `app/db` or `app/payments` is one transaction.

### Components

For each: its state; its operations; whom it talks to; what is hard; what makes it correct.

**Usage tracker** (`app/payments/usage_tracker.py`). State: table `subscriptions`: plan,
status, limit, `used_reports`, `period_start`, `expires_at`, payment ids. Operations:
snapshot, `check_report_limit`, `consume_report_slot`, `refund_report_slot`, activate and
cancel for each provider. Called by API, worker, dispatcher, both payment webhooks.
Hard: the counter is raised, lowered and zeroed by different processes at different
times, three readers treat an expired row differently. Correct: nobody pays for a
failed report, nobody exceeds the limit, no report is free.

**Report slots** (`main.py`, `tasks.py`, `middleware/usage_limit.py`, `celery_app.py`,
`db/database.py`). State: the task message, worker progress, the `history` row.
Operations: gate, consume, enqueue, log history; check, run, succeed or refund and
raise; acknowledge. Hard: the slot is taken in one process and given back in another,
tasks come back after worker deaths, the month turns in between, Redis may refuse the
message. Correct: as above, and each queued task settles, with its history row.

**YooKassa payments** (`routers/payments_yookassa.py`, `webhooks/yookassa_webhook.py`).
State: `payments` rows, the subscription row, YooKassa's own payment. Operations: create,
webhook, status poll, admin refund, cancel. Hard: notifications repeat and arrive in any
order, polls race with them across an `await`, status and plan are two transactions.
Correct: a plan rests on that user's paid payment; a paid payment is activated; an
abandoned one changes nothing; a refunded one ends the plan.

**Stripe billing** (`routers/payments.py`, `webhooks/stripe_webhook.py`,
`payments/stripe_client.py`). State: `stripe_webhook_events` (claims), `payments`, the
row, a five-minute snapshot cache. Operations: checkout, webhook kinds, cancel, refund.
Hard: claim and handler are separate transactions, a stale snapshot stands in when Stripe
cannot be asked, the row takes what the event says and not what Stripe holds. Correct:
an event is handled once and finally, the row follows Stripe.

**Scheduled reports** (`tasks.py:650-790`, `routers/scheduled_reports.py`). State:
`scheduled_reports` with `next_run_at`, `last_run_at`, `is_active`. Operations: CRUD, the
dispatcher. Hard: dispatch and the move of `next_run_at` are not one transaction; a refused
schedule is retried each minute; two dispatchers may overlap. Correct: one report per due
time unless a process dies; none for an inactive schedule; no slot without a report.

**Previews** (`routers/preview.py`, `app/preview/`). State: preview and job entries in
Redis with TTL, files on disk. Operations: start (sync, async), worker job, status,
confirm, cancel, cleanup. Hard: the endpoint writes the job's state after `.delay()`;
TTL, directory age and confirmation race. Correct: a ready preview stays ready, is
confirmed by its owner only, its files live as long as it does.

**Voice reports** (`routers/voice.py`, `app/voice/`). State: recognised intents and
clarification state in Redis. Operations: transcribe, clarify, generate. Correct: a report
is generated from an intent that was complete, one slot per report.

**Accounts, API keys, rate limits** (`app/auth/`, `routers/auth.py`, `routers/api_keys.py`,
`middleware/auth.py`, `middleware/rate_limit.py`). State: `users`, `api_keys`, refresh and
reset tokens, failed-login counters, limiter windows. Operations: register, login, refresh,
reset; generate, rotate, revoke. Hard: rotation is two transactions, keys run out by date and go with
the user an administrator blocks or deletes, the failed-login count
is written in the transaction its own 401 rolls back. Correct: at most the allowed number of
active keys, a revoked key or token never works again, a locked account stays locked.

**Webhook delivery** (`app/webhook/`). State: `webhooks` with failure count and status,
`webhook_deliveries`. Operations: register, trigger, deliver with retries, test, deactivate.
Hard: deliveries of one webhook run in parallel threads with separate transactions for the
count, the deactivation and the log. Correct: deactivated after the stated number of
failures in a row and not before, at most the stated number of attempts, a log entry per
attempt.

**Self-healing** (`app/self_healing/`). State: the fix store with success statistics, attempts
of a decorated call. Operations: retrieve, apply, record. Hard: statistics are read, changed
and written by several workers; a fix can fail in turn. Correct: bounded attempts, the
original error if nothing helps, statistics that add up.

**Browser session and router** (`frontend/js/app.js`, `router.js`, `state.js`, `api.js`,
`seo.js`, `utils/analytics.js`, sign-in pages, the first-key page). State: the key in
`localStorage`, the session object, the address, the page shown, its title and robots tag,
calls in flight. Operations: start-up, routing with its redirects, sign-in by key or mail, first
key, logout, what a refused call does. Hard: the key is stored before it is tried; a late 401 of
an old page ends whatever session there is; redirects depend on what three awaits change.
Correct: the key sent is the session's, the console is for administrators, the page is the
addressed one, redirects end.

**Dashboard form and preview dialog** (`pages/dashboard.js`, `download.js`,
`components/PreviewModal.js`, `ChartCarousel.js`). State: how far each submission got, one
full-screen spinner for all of them, the dialog. Operations: analyse, preview, poll, regenerate a
chart, confirm, poll, fetch. Hard: the spinner is shared, answers get lost, loops are bounded
by a count. Correct: the spinner goes, nothing waits forever, one report per preview.

**Voice page** (`pages/voice.js`). State: recorder, chunks and flag, shared by all visits; the
result card. Operations: record, stop, upload, answer a question, poll. Hard: prompts of the
browser overlap, a recorder tells late that it stopped, old handlers write to new cards. Correct: a
recording is uploaded once and by itself, the
microphone is released, the card says what is true.

**Payment pages** (`pages/pricing*.js`, `success.js`, `cancel.js`, `payment_success.js`,
`payment_cancel.js`). State: the last payment's id in `sessionStorage`, requests in flight.
Hard: the tab leaves for another site and comes back, the poll races with the webhook.
Correct: "activated" is said only when it is so.

**Console and account pages** (`pages/keys.js`, `reports.js`, `webhooks.js`, `subscription.js`,
`preferences.js`, `admin.js`, `admin_payments.js`, `ui.js`, `health-polling.js`). State: tables
drawn from the server's, dialogs, a timer, log streams. Operations: list, act on a row, with
or without asking; poll the health page. Hard: handlers go on after the user has left; dialogs
answer with strings; switches move before the answer. Correct: a table is the server's, what the
holder does leaves a key that works, an ended one stays so, the health page is watched.

**Agents, AI enhancer, user data, administration endpoints, metrics, documentation site,
deployment**: data transformation, reads, or configuration; see section 5.

### How they interact

    tab --HTTP--> middleware (auth, rate, gate) --> endpoint --.delay()--> Redis --> worker
                                     |                     |                              |
                                     |    consume_report_slot              refund_report_slot, history
                                     v                     v                              v
                               +----------------------- SQLite --------------------------------+
                                     ^                     ^                              ^
                           YooKassa / Stripe        status polls, cancel          beat's dispatcher
                               webhooks                 and refund                 (consume, .delay())

## 2. What is modelled

### `Subscriptions.tla`: the row

No state of its own: one operator per read or transaction of `usage_tracker.py` on a row,
shared by the three server modules below, so that all of them use the same row. `Snapshot` is
`get_user_subscription`, `CheckLimit` is `check_report_limit`, `Renewed`/`CanConsume`/`Consumed`
are the halves of `consume_report_slot` (insert, downgrade or new month; then the guard; then
the increment), `CanRefund`/`Refunded`, `Activated`, `Synced`, `Canceled`, `Ended` the writes.
Time is a count of ticks and `MonthLen` ticks are a month: the code compares the first seven
characters of ISO dates. `expires_at IS NULL` is `Never`.

### `ReportSlots.tla`: a report from request to settled task

| variable | code |
|---|---|
| `now`, `subs` | `datetime.now(UTC)`, table `subscriptions` |
| `request` | how far the endpoint got (`main.py:271-326`, `preview.py:231-...`, `voice.py`, the dispatcher) |
| `work`, `acked`, `redelivered` | the task: in Redis, in the worker's function, acknowledged, come back |
| `history` | the status column of the `history` row |
| `planChanges` | bound on payments |
| `epoch`, `charge`, `credited` | history variables: times the counter was zeroed, where each report was charged and where it gave slots back |

The endpoint's actions are `Admit`/`TurnAway` (the middleware), `Consume`/`Refuse`,
`Enqueue`, `LogHistory`, `Break` (Redis refuses, or the process dies). The worker's are
`Start`/`Reject`/`Raise` (what goes wrong before the `try` of `tasks.py:344`: the task fails and
neither refunds nor records), `Succeed`, `Fail` (the pipeline raised; the refund comes first),
`RecordFailure`, `Ack`, `ChildLost` (a pool child dies: Celery acknowledges), `Redeliver`
(the whole worker dies: Redis hands the message out again). Payments are `Buy`, `Cancel`,
`SyncStripe`, `EndStripe`, here with arbitrary timing and dates; the two payment modules say
when they happen. Four channels share this path and differ in three ways the model keeps:
whether the gate stands before them, whether the owner is in the message, and whether a
history row is inserted. `PrimaryKey` says whether the request's key is the one in
`users.api_key`, the only place the worker looks (`tasks.py:142`).

### `YooKassaPayments.tla`

One payment's life: `CreateAsk`/`CreateStore` around the await; `RemoteMove` (external);
`Webhook` with its two transactions, `WebhookHalf` when the second fails or never runs,
`WebhookAnswerLost`; `PollAsk`/`PollApply`, and `PollHalf` when only the payment's row is written;
`RefundAsk`/`RemoteRefund`/`RefundApply`, and `RefundHalf` when only the subscription's is;
`CancelEndpoint`; `Crash`, which loses waiting handlers. `waiting` holds what handlers await
and the answer they got, so every handler may act on an answer that is out of date. `cached` is what
`yookassa_client.py` keeps of earlier answers and gives when YooKassa cannot be asked (`Told`).
`standing` is a history variable: has the user paid, and did he cancel, get a refund, or was
the plan cut although he did neither. `Polled` are the payments whose status the browser asks
for: the frontend polls only after the return from the payment page, so both kinds exist.

### `StripeBilling.tla`

`contract` is what Stripe holds; `RemoteCheckout`, `RemoteRenew`, `RemoteRecover`, `RemoteEnd`
(external) and the cancel endpoint change it and put events into `outbox`, a set: order is not
kept. `Webhook` claims, handles, answers; `WebhookStale` handles with a cached snapshot;
`WebhookRaises` releases the claim, after possibly the first of a checkout's two transactions;
`WebhookDies` leaves the claim behind; `WebhookAnswerLost` and `WebhookDuplicate` are the
repeats. A handler is one action because Stripe's client blocks the event loop; its possible
breaks are the failure actions. A row of `payments` belongs to a payment intent, that is to one
period's invoice or to the one payment (`Bills`); the checkout session of a subscription has a row
besides (`receipts`), with no intent, so that it cannot be refunded. A refund cancels the row and
marks the payment in two transactions (`RefundHalf`). `disturbed` names users for whom the code promises nothing:
an event overtook another, one was dropped, contracts overlapped, or a charge was refunded.

### `Purchases.tla`: what a payer is promised

The abstract specification of the payments, with no handlers in it: `paid`, the payments that
went through; `granted`, those turned into a plan; `holds`, the payment a user's plan rests on.
`Pay`, `Grant` (only of what is paid), `Revoke`; fairness: what is paid is granted once.
`YooKassaPayments` implements it through

    Purchase == INSTANCE Purchases WITH
      paid    <- {p \in Payments : remote[p] = "succeeded"},
      granted <- {p \in Payments : since[p] # Never},
      holds   <- paidBy

The step that matters is `Activate`: webhook and poll call it on what they were *told*; that it is
a `Grant` says that what they were told is still true when they act.

### Four more abstract specifications

Each says in a page what one part promises, with none of its handlers; the module below it
implements it through the mapping shown, and a property of the abstract module says what the
promise amounts to.

| abstract | what it promises | implemented by | through | amounts to |
|---|---|---|---|---|
| `QuotaLedger` | a report is counted once, an attempt that fails takes at most one off, a new count forgets the old one | `ReportSlots` (`LedgerKept`) | `used` is `used_reports`, `open` the reports charged since it was last zeroed, `ever` those charged, `running` the tasks a worker is at | `Covered`: the counter is at most the number of open reports |
| `EventIntake` | an event is taken once, then handled or lost for good | `StripeBilling` (`EventsTakenOnce`) | `taken` is `claimed`, `done` and `lost` are `settled` and `dropped` | `Settled`: never both, never twice |
| `PaidReports` | an order takes one slot and makes one report, unless it is opened again | `Previews` (`OrdersKept`), `VoiceReports` (`VoiceOrdersKept`) | orders are submissions or requests; `wasted` is `unsent`; `reopened` is `again`, in `VoiceReports` nothing | `PaidOnce`: one slot for a report, none without, besides wasted ones |
| `KeyRing` | a key that was revoked or expired never works again; its holder never takes the last one that works, a replaced one comes with its successor; dates and the administrator may | `Console` (`KeysKept`) | `open` says that the user is there and not blocked; `live` are the active keys whose date has not passed, `revoked` the inactive ones, all of them once the user is deleted | `NeverAgain`: no key works that ended, none that ended is forgotten, and while the account is open the last one goes by its date only |

The hard steps are those of actors that know little of each other: two refunds of one task
are two ledger steps only if two attempts ended; `ConfirmQueue` is an order's only if whoever
confirms still finds it unpaid; a rotation that died between its transactions is a `New`, so that
both keys work and either can be revoked.

### `PaymentPages.tla`: the tab in front of YooKassa

EXTENDS `YooKassaPayments`: a page's request is the server's action plus what the tab does, and
`Behind` is everything the server does for nobody of this tab. The clock stands still there: no
guard of a page reads it.

| variable | code |
|---|---|
| `at`, `of` | the page in `#app` (or the site the tab left for) and the payment it names |
| `last` | `sessionStorage` `yookassa_last_payment_id` |
| `creating`, `buying` | buttons disabled until answered (`pricing_yookassa.js`, `pricing.js`) |
| `asked`, `listing` | the status request and Stripe's price list in flight |
| `views` | bound on pages the user opens himself |

`Leaves` (`window.location.href`) forgets what is in flight and keeps `last`; `StatusAnswered`,
`PricesAnswered` and `CreateAnswered` draw over whatever page is shown by then.

### `BrowserSession.tla`: start-up, routing, sign-in

| variable | code |
|---|---|
| `keyState` | which keys the server accepts (`middleware/auth.py`) |
| `stored`, `session` | `localStorage` and `state.js` |
| `hash`, `due` | `location.hash`; a queued `hashchange` |
| `page`, `head`, `viewed` | what `#app`, `<head>` (`seo.js`) and the last page view are about |
| `calls` | calls the shown page made and waits for |
| `boot`, `form`, `mail`, `later`, `first` | how far `boot()`, the key form, the mail form, the public pages' handlers and the first-key page got |
| `acts`, `crossed` | bound on clicks; history: a session changed while a start-up or sign-in waited |

`Route` is `renderRoute`'s decision, `Render` the decision carried out, with head and page view.
`HashChange` takes the queued event; `BootConfig`, `BootAdmin`, `BootStats` are the stretches of
`boot()` between its awaits; `AnswerOk`, `Answer401`, `AnswerError` the three ways of `api.js`;
`SubmitKey`, `KeyAdmin`, `KeyAccepted`, `KeyRefused` the key form, which stores the key, tries it
and takes it back. `Revoke` is another device.

### `Previews.tla`: from the form to the report

Browser, API, worker and cleanup in one module, because each hazard needs two of them.

| variable | code |
|---|---|
| `flow`, `polls`, `button`, `overlay` | `bindPreviewForm` and `runPreviewFlow`; its polling loop; the submit button; whose spinner is shown |
| `confirm`, `mode`, `open`, `regen` | the dialog: `runConfirm`, how the report is wanted, is it on the screen, a chart being regenerated |
| `record` | `preview:<id>` in Redis (`ttl`), the directory: gone, without or with the upload (`disk`), and its `age` |
| `cleaner` | how far `cleanup_expired` is with a directory: found too old, key deleted |
| `job`, `task`, `report` | `preview_job:<id>`; the two Celery tasks |
| `slots`, `unsent` | slots taken for a preview, those whose message the broker refused |
| `api` | the endpoint in the middle of its work |
| `clicks`, `crashes`, `overtaken`, `again`, `crossed` | bounds; history: a job's state stored late, a preview stored or kept once more, a cleanup between the steps of a store |

`Submit`, `Analyzed`, `CreateAnswered`, `PollJob`, `ClickConfirm`, `ConfirmAnswered`, `PollTask`,
`Fetched` are the client; each handler has `Fails` or `ConfirmFailed` beside it for an answer
that is lost, whatever the server did. `Create` and `Mark` are the async endpoint around `.delay()`,
`ConfirmRead` and `ConfirmQueue` the confirmation around its slot. Regeneration and the worker's
task read the upload, draw and store in three steps each (`RegenRead`, `RegenDraw`, `RegenStore`;
`TaskReads`, `TaskDraws`, `TaskStores`), and the cleanup finds, deletes the key and removes the
directory in three (`CleanupFinds`, `CleanupDeletes`, `CleanupRemoves`), because it runs in another
process than the endpoint (`cache.py:174-180`, `86-102`, every ten minutes by `tasks.py:782`).
`TaskCrashes` and `CleanupDies` are the deaths, `Tick` the two clocks of a record.

### `VoiceReports.tla`

| variable | code |
|---|---|
| `asked`, `mic`, `streams` | `getUserMedia`'s prompts, by the page on the screen or one that is gone; each stream's `MediaRecorder`; open microphones |
| `recorder`, `onstop`, `recording`, `chunks`, `off` | `mediaRecorder`; who waits for a recorder's last event; the flag; `audioChunks`; is the record button disabled |
| `at`, `via`, `btn`, `polls`, `audio`, `el` | a request's handler: how far, whose `catch` it has, has it the button on the screen, turns of its loop, what it uploaded, is its card on the screen |
| `left`, `away`, `files`, `card` | bound on leaving, is the page gone, files chosen, its `#voice-result` |
| `session`, `task`, `slots`, `unsent` | `voice:partial:<id>` in Redis, the Celery task, its slots |
| `lapsed`, `overlap` | history: a recording lost its button; one began before the last recorder had told that it stopped |

`ClickStop` only asks the recorder to stop and waits (`voice.js:191-206`, `244`); `Stopped` is what the
recorder tells later, its data going to the chunks and `onstop` to the recorder that are current by
then. The endpoints do not await between the first look at Redis and the answer, so `Generate` and
`Clarify` are one action each; what the broker refuses is an outcome of `Queue`. A session may have
run out whenever an answer comes (`VOICE_PARTIAL_TTL`, `redis_store.py:13`).

### `Console.tla`: tables, dialogs, health, logs

`Ops` is a table with a row per operation of the pages: its page, in which states of a row it
is offered, whether it asks (`no`, `confirm`, `form`), what the server does, what the page does
afterwards. `ClickAsks`, `AnswerDialog`, `ClickActs`, `ServeAct`, `ActDone`, `ActFailed` run any of
them; `ServeList` and `ListAnswered` load a table; `RotateHalf` is a rotation that died
between its two transactions (`key_management.py:301`), `Lose` a lost answer, `Elsewhere`
another device. `Tabled` is what an operation makes of all tables: blocking a user revokes the
keys and unblocking restores none (`admin_queries.py:276-297`), with a deleted user goes
all that refers to it (`:300-322`). `Expire` is a key's date; `Live` are the keys that work.

| variable | code |
|---|---|
| `hash`, `due`, `screen` | address, queued event, what `#app` shows |
| `dialogs` | `#modal-root` (`ui.js`) |
| `calls` | requests in flight: sent, answered by the server, not yet handled |
| `timer` | is `health-polling.js`'s interval set |
| `stream` | `streamAbort` and the open log streams of each view (`admin.js`) |
| `rows`, `expired` | the server's tables, keys included; keys whose `expires_at` has passed |
| `signed` | has the tab a session |
| `acts`, `mixed` | bound; history: tables two requests overlapped on or others changed |

### How the modules compose

ReportSlots, YooKassaPayments and StripeBilling EXTEND Subscriptions and each see the row from
one side: ReportSlots has every payment write as an action with free timing and dates, whatever
the payment modules say of its cause; StripeBilling has `Consume`, because the row a cancel leaves
behind is downgraded by the next report. PaymentPages EXTENDS YooKassaPayments and composes
the tab with its server. YooKassaPayments INSTANCEs Purchases, ReportSlots QuotaLedger,
StripeBilling EventIntake, Previews and VoiceReports PaidReports, Console KeyRing. Previews and VoiceReports hold
both ends of their protocol and count slots; what a slot does to the row is in ReportSlots,
whose channels they are. BrowserSession and Console are the two halves of the rest of the tab:
who it is and where, and what it does there. The MC modules only give constants their values.

## 3. Runs

Nine runs hold:

| run | what it asks | bounds and size |
|---|---|---|
| `ReportSlots` | `OnlyPaysForUnfailed`, `WithinLimit`, `ReservationHonoured` under requests, YooKassa payments and cancellations | 1 user, a gated report and an ungated external preview, limits 1 and 2, 3 ticks in 2 months, 2 plan changes, 1 redelivery per task; 1.3M states |
| `ReportSlotsStripe` | that the module implements `QuotaLedger` (`LedgerKept`), `NoFreeReport`, `QueuedSettles`, with Stripe's events | 2 scheduled reports, 2 months, 1 plan change with any dates, 1 redelivery; 0.4M states |
| `YooKassa` | `PlanBacked`, `WebhookKeepsPlan`, and that the module implements `Purchases` (`PurchasesHonoured`) | 2 payments of 1 user, one polled, one marked for cancellation, 2 ticks, 1 fault (a crash, a lost answer, a half handler or an answer from the cache); 0.4M states |
| `PaymentPages` | `ActivatedIsTrue` | the same 2 payments, both polled, 1 fault, 1 page the user opens himself; 2.1M states |
| `StripeBilling` | that the webhook implements `EventIntake` (`EventsTakenOnce`), `RowFollowsStripe`, `ChargesFollowStripe`, `RaisedIsRetried` | 1 subscription and 1 one-time payment, one after the other, 3 reported changes (up to 7 events), 3 ticks, so that periods run out, 1 fault; 0.7M states |
| `BrowserSession` | `StoredMatchesSession`, `ConsoleForAdmins`, `PageIsAddressed`, `RoutingSettles` | a user's key, a key still to be made, an administrator's, 1 form, 2 calls in flight, 4 acts of the user, 4 addresses; 0.3M states |
| `Previews` | that a preview is an order of `PaidReports` (`OrdersKept`), `SpinnerIsWork`, `LivePreviewHasUpload`, `ProcessingIsTrue`, `FlowEnds` | 1 submission and the spinners of others, 2 polls, records that live 2 ticks, 1 worker or cleanup that dies, 2 clicks; 0.4M states |
| `VoiceReports` | that a request is an order of `PaidReports` (`VoiceOrdersKept`), `AudioSentOnce`, `MicReleased`, `ReadyIsTrue`, `VoiceEnds` | 2 requests, 2 microphone prompts, 2 polls, 1 file, 1 return to the page; 0.6M states |
| `Console` | that the keys implement `KeyRing` (`KeysKept`), `KeepsAccess`, `TableFresh`, `HealthWatched` | a key that expires and one to come, a webhook, the user they belong to, no subscription, health and logs, 2 requests in flight, 1 visit of the logs, 4 clicks; 1.2M states |

Each module's `TypeOK` is checked with them.

Why these bounds are enough to matter.

- Two tasks are the least with which one's refund can hit another's charge; limits 1 and 2 are
  reached by them; a month boundary lies inside the clock, so charge, failure and refund may fall
  into different months; one redelivery suffices for a second refund of one slot.
- Three reported changes at Stripe are a checkout, a renewal or cancellation, and an end.
  Contracts that overlap are left out of the run (`MaxOthers = 0`) though nothing in the code
  keeps a user from a second one: the row has room for one contract only, so the properties say
  nothing of such users (`disturbed`), and leaving them out buys a longer clock. The proofs
  do include them.
- Two payments are the least with which one's event can hurt the other's plan; one fault at
  every possible point shows each break once. With two faults `YooKassa` has 1.0M states and holds
  as well.
- One submission meets all of its own hazards, and another one's spinner is there
  (`OtherLoading`); two polls are a loop that turns and a loop that gives up; two ticks of life
  let record and directory run out in either order.
- Two microphones and two requests are the least that mix; one return makes an old handler
  write to a page drawn anew. A third prompt only lets the data of the first recorder go into the third
  recording instead of the second; `overlap` has excepted both by then.
- The console's pages left out of its run (`/reports`, `/preferences`, payments, Celery,
  self-healing) differ from the others by their rows of `Ops` only; the rows that are in it have
  every kind of asking, effect and what follows. The proofs are for the whole table.
- Users are independent rows (nothing in the modelled code joins two users), so one user
  suffices for TLC; the proofs are for any number.

`CHECK_DEADLOCK FALSE` everywhere: users, payments and clocks are bounded, so the system
legitimately stops.

Three runs are findings; each has one property, quoting the line it comes from:

| run | property | what happens |
|---|---|---|
| `SlotNotRefunded` | `FailedReportRefunded` | The worker looks an owner up by `users.api_key` only. A failed report requested with a generated key gives no slot back. |
| `YooKassaAbandoned` | `KeepsPlan` | The status poll of an abandoned payment cancels the plan another payment bought; the webhook takes care not to. |
| `UploadUntilRead` | `UploadUntilRead` | `preview.py:275` keeps the upload until the worker reads it; the cleanup, every ten minutes (`tasks.py:782`), goes by the directory's age (`cache.py:165`) and may take it first. |

### Observations without a run

The models contain these behaviours, and the properties above are stated so that they are true
with them. No text of the repository promises otherwise, so they are not findings; a maintainer
may still want to know.

- After a paid period has run out the gate answers 402, although the snapshot shows free reports
  and `consume_report_slot` would downgrade and grant.
- The history row is inserted after `.delay()`; a task that is quicker updates nothing and the
  row stays PENDING.
- A Stripe event sets `period_start` to Stripe's period; if that began in another month the
  next report zeroes the counter.
- Every poll of a paid payment activates it anew, from now, with a fresh counter, and also
  after a refund: YooKassa keeps `succeeded` for a refunded payment.
- A crash between the claim of a Stripe event and its handler leaves the claim; the repeat is
  taken for a duplicate. In `StripeBilling` such an event is `dropped`.
- A confirmation that fails after `.delay()` keeps the record, and the preview can be
  paid again (`again` in `Previews`).
- A report that the worker rejects at its second look at the limit, or that raises before the `try`
  (an unknown output format, say), gives no slot back and its history row stays as it was. The
  properties count such a report as charged and not as failed.
- The voice page's clarification deletes its session before it takes the slot; a refused slot
  becomes a 500 and the question cannot be answered any more. Neither can it once the session has
  run out, which the page does not say before the answer is sent.
- A second click on the record button while the browser still asks, or a late failure of an older
  request, takes the recording's place and leaves its microphone open (`lapsed`).
- A prompt granted before the stopped recorder has told so makes the recorder's `onstop` stop the
  new stream and end the new recording, and its data go into the new chunks: an upload of two
  streams (`overlap`).
- A cleanup that falls between reading a preview's upload and storing its record (regeneration,
  or the worker's task), or a store between the cleanup's two deletions, leaves a record without
  its upload; a confirmation then takes a slot for a report that fails (`crossed`).
- When YooKassa cannot be asked, the poll stores and acts on an answer that may be 300 seconds old.
- A refund that stops between its two transactions leaves a payment `succeeded` whose plan is gone,
  and a poll that does a paid payment without a plan until the next poll or notification.
- A subscription's checkout and its first invoice each leave a `succeeded` row in `payments`, so the
  administrator's revenue (`routers/payments.py:284-317`) counts the first period twice.
- A session that changes while a start-up or sign-in waits can leave role and key of different
  sessions, and a redirect that leads back to itself (`crossed`).
- Log streams draw over whichever page is shown by then.

Met on the way, and below what the models tell apart: forms shown as dialogs (webhooks, new,
renamed and rotated keys, retries) read their fields after the dialog has been removed, so that
a webhook's and a rename raise and the others send their defaults; the handler of
chart regeneration names a variable that is not in its scope.

### Fairness

- `ReportSlots!FairSpec`: weak fairness of each task's worker steps. Compose restarts the
  worker and Celery keeps taking messages. That a pipeline returns or raises is an assumption
  about the agents. No fairness of faults, payments or the clock; a lost pool child counts as
  settling because the broker forgets the message.
- `YooKassaPayments!FairSpec`: weak fairness of the delivery of a payment's notifications:
  YooKassa repeats until answered 200, and the handler answers 200 unless it fails, at most
  `MaxFaults` times.
- `StripeBilling!FairSpec`: weak fairness of the delivery of some event, for the same reason.
- `BrowserSession!FairSpec`: weak fairness of the queued `hashchange`, of the stretches of
  start-up, of each form's, and of some answer: the event loop runs what is queued, and a request
  is answered or fails. None of the user.
- `Previews!FairSpec`: strong fairness of each flow's and dialog's handler and of the endpoints
  that take a request, weak fairness of an endpoint in the middle of its work. Strong, because
  the one API process runs one handler at a time, so that a request is again and again, but not
  always, able to be taken; the server's queue is first come, first served. Workers, cleanup
  and user have none: `FlowEnds` holds although no worker ever answers.
- `VoiceReports!FairSpec`: weak fairness of each request's answer; none of workers and user.
- `Console` and `PaymentPages` state safety only.

## 4. Proofs

Every safety property of the nine runs is proved, for every value of the constants that satisfies
the modules' own assumptions: any finite set of tasks, any users, keys, payments, contracts,
flows, requests, tables and bounds.

| module | theorems (each `Spec => []...` unless said) | inductive invariant |
|---|---|---|
| `SubscriptionsProofs` | lemmas: what each operator on a row returns and keeps | |
| `ReportSlotsProofs` | `TypeCorrect`, `UsageWithinLimit`, `ReservationsHonoured`, `PaysOnlyForUnfailed`, `LedgerKeptAlways` (`Spec => Ledger!Spec`), `LedgerCovers` (of `Ledger!Spec`), `NeverOverchargedAlways`, `NoFreeReportAlways`, `RefundedWhenKnownAlways`, `HistoryTrueAlways` | see below |
| `YooKassaPaymentsProofs` | `TypeCorrect`, `PlanBackedAlways`, `WebhookKeepsPlanAlways`, `PurchasesImplemented` (`Spec => Purchase!Spec`), `PromiseIsBacked` (of `Purchase!Spec`); of `PagesSpec`: `PagesKeepPromise` (`PagesSpec => Purchase!Spec`), `PagesKeepPlans`, `ActivatedIsTrueAlways` | `Evidence`: who is told "succeeded", by a notification or an awaited answer, is told so of a payment that has succeeded; success and activation are final |
| `StripeBillingProofs` | `TypeCorrect`, `EventsTakenOnceAlways` (`Spec => Intake!Spec`), `IntakeSettles` (of `Intake!Spec`), `OncePerEventAlways`, `ChargesFollowStripeAlways`, `RowFollowsStripeAlways` | settled events are claimed; `Booked`; `Following` |
| `BrowserSessionProofs` | `TypeCorrect`, `StoredMatchesSessionAlways`, `ConsoleForAdminsAlways`, `PageIsAddressedAlways` | `RouteFacts`: the router never sends a path to itself; `Console`: what start-up and forms know of a key is true of that key; `Addressed` |
| `PreviewsProofs` | `TypeCorrect`, `SpinnerIsWorkAlways`, `LivePreviewHasUploadAlways`, `ProcessingIsTrueAlways`, `OrdersKeptAlways` (`Spec => Order!Spec`), `OrderPaidOnce` (of `Order!Spec`), `OncePerPreviewAlways` | `Stages`: the endpoint confirms for somebody who waits; `Kept`: a live record, and whoever is about to store one again, has its upload, if no cleanup crossed the preview; `JobKnown`; `Accounts`: a preview that can be confirmed has cost nothing yet but what the broker wasted |
| `VoiceReportsProofs` | `TypeCorrect`, `AudioSentOnceAlways`, `MicReleasedAlways`, `VoiceOrdersKeptAlways` (`Spec => Order!Spec`), `VoiceOrderPaidOnce` (of `Order!Spec`), `VoicePaidOnceAlways`, `ReadyIsTrueAlways` | `Armed`: who waits for a recorder waits for one that is stopping, and for one only; `Recorder`: a stream that records or stops is nobody's yet and the chunks are its own; `Ledger`: slots are the task's and the wasted ones, a session excludes a task; `Finished` |
| `ConsoleProofs` | `TypeCorrect`, `KeysKeptAlways` (`Spec => Ring!Spec`), `RingNeverAgain` (of `Ring!Spec`), `KeepsAccessAlways` (an action property), `HealthWatchedAlways`, `TableFreshAlways` | `Fit`: a request in flight is an operation of the page it names, on a row of that page; `Kept`: an expired key is one that was made, a blocked user has no active key and a deleted one no key at all; `Fresh` |

**Report slots.** `OnlyPaysForUnfailed` is not inductive. Its invariant adds `Unstarted` (a
request that has consumed nothing has no charge and no task, so the report `Consume` adds is new
to the count) and `PeriodReached` (no row's period lies in the future, so a tick can make a row's
month old but never current again: otherwise a counter the invariant did not constrain would come
back to life). Consuming adds one report to the set and one to the counter, or starts a new epoch
with exactly that report; failing removes at most one report and, exactly when the counter is
positive and of this month, one from the counter; when it is zero the invariant is trivial.
`PeriodReached` fails with `SyncStripe`, which stores whatever period Stripe says and keeps the
counter: this is why this theorem, and `UsageWithinLimit`, assume `"sync" \notin PlanEvents`.
`NeverOvercharged` and `NoFreeReport` do not speak of months, so they hold with Stripe's
events too. `NoFreeReport` counts the other way round: it needs that nothing is charged to a
counter not yet started (`EpochReached`) and that a first attempt that has not failed has given
nothing back (`Unfailed`), so that each refund takes one report out of the set it compares.

`RefundedWhenKnown` is what is true where `SlotNotRefunded` shows the opposite: the failed report
of an owner the worker can resolve has given its slot back while its counter still runs. It puts
the other results together: `NoFreeReport` says that the counter holds at least this report, so it
is positive; `Dated` that the row's period is the month of the charge as long as the counter was not
started anew; both are what `refund_report_slot` asks. A counter or a month that is over does not
return (`CurrentBefore`), so a report that is current after a step was so before it. With
Stripe's events it is false, because they move the period under a charge.

**Refinements.** Every step of a detailed module is one step of the abstract one or none, under
the invariant that says why: for the ledger, that a task has a charge and only an attempt that
runs can fail (`Counts`); for the intake, that what is settled or dropped is claimed; for orders,
`Accounts` and `Ledger`: who confirms or answers finds an order that has cost nothing but what
was wasted, or was opened again; for the keys, that every step leaves the rows, turns one of
them, passes a date, or blocks or deletes the user (`KeysTurn`), and that each of these is a step of
the ring (`TurnsInRing`). The promise is proved of the abstract specification by itself, and
`NeverOverchargedAlways`, `OncePerEventAlways`, `OncePerPreviewAlways` and `VoicePaidOnceAlways` are
corollaries of both, with no further look at an action; `KeepsAccessAlways` comes from `KeysTurn`. The promises are
stated of the instances (`Ledger!Spec` and so on), in the modules that use them; the only facts
about constants they need are those modules' own assumptions.

**YooKassa.** `Effects` says that a step changes rows by granting on a succeeded payment or by
taking away, or moves one payment on, never both; the results follow from that alone, the cause
of a cut plan included: `WebhookKeepsPlan` names a canceled payment of the user that was polled.
`PagesKeepPromise` and `PagesKeepPlans` carry them over to the composition with the tab. The
pages add requests that fail (`GivesUp`), and a page that says "active" named its payment when it
acted on its own evidence.

**Stripe.** The row and the charges are compared with Stripe only when nothing is on its
way, so the invariants speak of the time in between: for an undisturbed user the newest thing
Stripe said is either still to be handled or the last that was handled (`Latest` for charges,
`Newest` for rows); handling the newest event, or the end of one, leaves a row that matches
(`Matches`), and until then something is coming (`Coming`). A cached snapshot is as good as the
contract unless a change was told of after every checkout (`Snapshotted`): then that
change is handled later, and mends the row.

**Browser.** All pages draw into one element, so a page on the screen proves nothing by itself;
`Addressed` ties it to the address through the one place that writes both (`Render`). In
`Console` the argument for `TableFresh` is by slots: a table nobody mixed has at most one request
in flight (`Alone`); a list that was answered is what the server has (`Loaded`); the screen is the
server's table up to the one operation in flight (`Drawn`).

**Previews.** `Kept` says of a preview no cleanup crossed: a live record has its upload, and no
cleanup stands between the deletion of its key and that of its directory; and whoever stands
between reading the record and storing it again still has the upload. A preview no request has
reached has nothing at all. A cleanup that deletes the key breaks the first part only for a record
that is stored again behind its back, which is when the preview is `crossed`.

**Voice page.** Without an overlap at most one stream records or stops at a time, so the chunks, the
flag and the recorder that a late event finds are its own; that is `Recorder`, and all that
`AudioSentOnce` needs.

Only model-checked: all liveness (`QueuedSettles`, `RaisedIsRetried`, `RoutingSettles`,
`FlowEnds`, `VoiceEnds`, and the fairness half of `PurchasesHonoured`), which is outside the
prover's reach.

## 5. Abstractions, and what is not modelled

- Plans with the same limit and duration behave alike; limits are 1 and 2 in the runs. Format
  access is one Boolean (`External`): Notion and Google Slides need the enterprise plan.
- `consume_report_slot` and the other transactions are atomic: SQLite serialises writers, and
  each opens one (`BEGIN IMMEDIATE` in `usage_tracker.py`, a single statement elsewhere).
- Redis keeps what it accepted; the visibility timeout is `Redeliver`. Its in-memory stand-in for
  development is left out.
- Stripe's and YooKassa's signatures, metadata and parsing are left out: an event names its
  contract and user.
- The agents (parser, analyst, visualizer, formatter, sender), the AI enhancer's texts and the
  charts transform data; their outcome, success or exception, is a choice. So are transcription
  and recognition of a voice request.
- In the browser, left out because no property could tell: theme, sidebar, charts and statistics
  of the dashboard, formatting, the loading of the analytics scripts, the language redirect; and
  code no page reaches (`AISuggestionsModal`, `reloadChartImage`, `initLayoutSubscription`,
  `generateWithAi`). A sheet's address takes the way of a small file. Local storage is this
  tab's only: a second tab is another session.
- The windows of the rate limiter are not in the models. `Console` has generation, rotation,
  revocation and expiry of keys, and blocking and deleting their user by this tab.
- An unplugged microphone, which ends a recording by itself, and a recorder that never tells are left
  out; so is the answer that a capture by the webhook leaves in YooKassa's cache. That cache is kept
  until the process dies, instead of 300 seconds.
- `canceled` of a Stripe contract stands for `unpaid` and `incomplete_expired` as well: the webhook
  treats the three alike.
- Not modelled: the table of schedules and its dispatcher's bookkeeping (what it consumes and
  queues is a channel of `ReportSlots`), accounts (passwords, lockout, tokens, mails: the browser
  sees accepted or refused), webhook delivery, self-healing, the administration endpoints beyond
  refunds and users, metrics. The documentation site is static, with vendored search code
  (`site/assets/javascripts/lunr`), and shares no state with the service.

## 6. What is left

In this order, each with one run and its proofs:

1. `Schedules`: schedules, dispatcher, overlap and crash between dispatch and `next_run_at`;
   composes with `ReportSlots` through the dispatcher's consumption. Property: a report per due
   time, none for inactive schedules.
2. `WebhookDelivery`: delivery threads, retries, counts, deactivation; 2 events, 2 threads.
3. `Accounts`: logins with lockout, tokens, rate windows; below `BrowserSession`'s forms.
4. `SelfHealing`: attempts, fixes, statistics of concurrent workers.

Proofs worth adding to what is there: which session a call in flight belongs to, as an action
property of `BrowserSession`; the exact cause of `crossed`.
