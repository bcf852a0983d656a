------------------------------ MODULE Previews ------------------------------
(***************************************************************************)
(* From the upload form of the dashboard to the report: the flow the form  *)
(* starts in the browser (AI analysis, preview, modal, confirmation,       *)
(* polling), the preview endpoints, the Celery task for large files, and   *)
(* the previews' records in Redis and directories on disk.                 *)
(*                                                                         *)
(* The endpoints never await between their first read and their answer:    *)
(* one runs at a time (api).  The workers and the cleanup are processes of *)
(* their own and act between the steps of an endpoint and of each other.   *)
(* A flow submits once and makes one preview, which has its name.  Leaving *)
(* the dashboard does not end a flow.                                      *)
(***************************************************************************)
EXTENDS Naturals, FiniteSets

CONSTANTS
  Flows,     \* submissions of the upload form
  MaxPolls,  \* polls before a loop of the client gives up (120)
  TTL,       \* PREVIEW_TTL_SECONDS, in ticks
  MaxCrashes, \* bound: workers and cleanups that die
  MaxClicks  \* bound: clicks in the modals and ways back to the dashboard

None  == "none"
Other == "other"

ASSUME PreviewsAssumption ==
  /\ {None, Other} \cap Flows = {}
  /\ MaxPolls \in Nat \ {0} /\ TTL \in Nat \ {0} /\ MaxCrashes \in Nat /\ MaxClicks \in Nat

VARIABLES
  flow,      \* bindPreviewForm and runPreviewFlow: how far
  polls,     \* turns of the polling loop a flow is in
  button,    \* the flow that disabled the submit button of the form on the page
  overlay,   \* whose full-screen spinner is shown
  confirm,   \* the modal's runConfirm: how far
  mode,      \* mail, or to an external service by mail, or download
  open,      \* is the modal on the screen ?
  regen,     \* is a chart being regenerated ?
  record,    \* preview:<id> in Redis and the directory of its files, with their ages
  cleaner,   \* cleanup_expired: how far with a directory
  job,       \* preview_job:<id> in Redis
  task,      \* preview_generation_task
  report,    \* generate_report
  slots,     \* report slots taken for a preview
  unsent,    \* slots whose report the broker refused
  api,       \* the endpoint in the middle of its work
  clicks,    \* what the user clicked so far
  crashes,   \* workers and cleanups that died
  overtaken, again, crossed \* history: a job's state stored late; a preview stored again,
             \* or kept although its report was sent; a cleanup in the middle of a store

client == <<flow, polls, button, overlay, confirm, mode, open, regen>>
server == <<record, cleaner, job, task, report, slots, unsent, api>>
past   == <<overtaken, again, crossed>>
faults == <<clicks, crashes, past>>
vars   == <<client, server, faults>>

Waiting == {"ai", "create", "made", "accepted", "refused", "poll"}
Asking  == {"sent", "queued", "denied", "polling", "fetching"}
Modes   == {"mail", "external", "download"}
Idle    == [at |-> "idle", of |-> None]
Gone    == [ttl |-> 0, disk |-> "none", age |-> 0]
Disks   == {"none", "pictures", "upload"} \* no directory, one without the upload, one with it

TypeOK ==
  /\ flow \in [Flows -> Waiting \cup {"idle", "shown", "failed"}]
  /\ polls \in [Flows -> 0 .. MaxPolls - 1]
  /\ button \in Flows \cup {None}
  /\ overlay \in [of : Flows \cup {None, Other}, for : {"flow", "task"}]
  /\ confirm \in [Flows -> Asking \cup {"idle", "limited", "over"}]
  /\ mode \in [Flows -> Modes]
  /\ open \in [Flows -> BOOLEAN]
  /\ regen \in [Flows -> BOOLEAN]
  /\ record \in [Flows -> [ttl : 0 .. TTL, disk : Disks, age : 0 .. TTL + 1]]
  /\ cleaner \in [Flows -> {"idle", "due", "deleted"}]
  /\ job \in [Flows -> {None, "processing", "ready", "failed"}]
  /\ task \in [Flows -> {None, "queued", "running", "read", "drawn", "stored", "done"}]
  /\ report \in [Flows -> {None, "queued", "success", "failure"}]
  /\ slots \in [Flows -> Nat] /\ unsent \in [Flows -> Nat]
  /\ api \in [at : {"idle", "create", "confirm", "draw", "store"}, of : Flows \cup {None}]
  /\ clicks \in 0 .. MaxClicks /\ crashes \in 0 .. MaxCrashes
  /\ overtaken \subseteq Flows /\ again \subseteq Flows /\ crossed \subseteq Flows

Init ==
  /\ flow = [f \in Flows |-> "idle"] /\ polls = [f \in Flows |-> 0]
  /\ button = None /\ overlay = [of |-> None, for |-> "flow"]
  /\ confirm = [f \in Flows |-> "idle"] /\ mode = [f \in Flows |-> "mail"]
  /\ open = [f \in Flows |-> FALSE]
  /\ regen = [f \in Flows |-> FALSE]
  /\ record = [f \in Flows |-> Gone] /\ cleaner = [f \in Flows |-> "idle"]
  /\ job = [f \in Flows |-> None] /\ task = [f \in Flows |-> None]
  /\ report = [f \in Flows |-> None]
  /\ slots = [f \in Flows |-> 0] /\ unsent = [f \in Flows |-> 0]
  /\ api = Idle
  /\ clicks = 0 /\ crashes = 0 /\ overtaken = {} /\ again = {} /\ crossed = {}

---------------------------------------------------------------------------
(* showPreviewLoading: a new spinner replaces the one that is there; what it *)
(* returns removes its own.                                                  *)

Loading(f, for) == overlay' = [of |-> f, for |-> for]

Hide(f, for) ==
  overlay' = IF overlay = [of |-> f, for |-> for] THEN [of |-> None, for |-> "flow"]
             ELSE overlay

Click == clicks < MaxClicks /\ clicks' = clicks + 1

---------------------------------------------------------------------------
(* The form. *)

Submit(f) ==
  /\ flow[f] = "idle" /\ button = None
  /\ flow' = [flow EXCEPT ![f] = "ai"]
  /\ button' = f
  /\ Loading(f, "flow")
  /\ UNCHANGED <<polls, confirm, mode, open, regen, server, faults>>

\* The user leaves the dashboard and comes back: a new form, with its own button.
NewForm ==
  /\ Click
  /\ button # None
  /\ button' = None
  /\ UNCHANGED <<flow, polls, overlay, confirm, mode, open, regen, server, crashes, past>>

\* The flows of other forms: what they do to the spinner they share.
OtherLoading ==
  /\ Loading(Other, "flow")
  /\ UNCHANGED <<flow, polls, button, confirm, mode, open, regen, server, faults>>

OtherHides ==
  /\ overlay.of = Other
  /\ Hide(Other, "flow")
  /\ UNCHANGED <<flow, polls, button, confirm, mode, open, regen, server, faults>>

Release(f) == button' = IF button = f THEN None ELSE button

\* The loop's counter is a variable of the handler that ends.
LoopOver(f) == polls' = [polls EXCEPT ![f] = 0]

\* Mutant: the spinner is left to whoever comes next.
FailsUncovered(f) ==
  /\ flow' = [flow EXCEPT ![f] = "failed"]
  /\ Release(f) /\ LoopOver(f)
  /\ UNCHANGED <<overlay, confirm, mode, open, regen>>

\* The error is shown; spinner and button are given back.
Fails(f) ==
  /\ flow' = [flow EXCEPT ![f] = "failed"]
  /\ Hide(f, "flow") /\ Release(f) /\ LoopOver(f)
  /\ UNCHANGED <<confirm, mode, open, regen>>

\* openPreviewModal; the pictures are fetched.
Shows(f) ==
  /\ flow' = [flow EXCEPT ![f] = "shown"]
  /\ open' = [open EXCEPT ![f] = TRUE]
  /\ Hide(f, "flow") /\ Release(f) /\ LoopOver(f)
  /\ UNCHANGED <<confirm, mode, regen>>

\* snapshotUploadFile reads the chosen file first; it may be gone.
Unreadable(f) == Fails(f)

\* analyzeWithFallback: suggestions, an error or eight seconds, and on.
AnalysisOver(f) == flow' = [flow EXCEPT ![f] = "create"]

Analyzed(f) ==
  /\ flow[f] = "ai"
  /\ \/ /\ AnalysisOver(f)
        /\ Loading(f, "flow")
        /\ UNCHANGED <<polls, button, confirm, mode, open, regen>>
     \/ Unreadable(f)
  /\ UNCHANGED <<server, faults>>

CreateAnswered(f) ==
  /\ \/ flow[f] = "made" /\ Shows(f)
     \/ flow[f] = "accepted" /\ flow' = [flow EXCEPT ![f] = "poll"]
          /\ polls' = [polls EXCEPT ![f] = 0]
          /\ UNCHANGED <<button, overlay, confirm, mode, open, regen>>
     \/ flow[f] \in {"made", "accepted", "refused"} /\ Fails(f)
  /\ UNCHANGED <<server, faults>>

\* Mutant: the loop starts over instead of giving up.
PollJobForever(f) ==
  /\ flow[f] = "poll" /\ api = Idle
  /\ \/ job[f] = "ready" /\ Shows(f)
     \/ /\ job[f] = "processing"
        /\ polls' = [polls EXCEPT ![f] = (@ + 1) % MaxPolls]
        /\ UNCHANGED <<flow, button, overlay, confirm, mode, open, regen>>
     \/ Fails(f)
  /\ UNCHANGED <<server, faults>>

\* One turn of pollPreviewJob: two seconds, and the state of the job.
PollJob(f) ==
  /\ flow[f] = "poll" /\ api = Idle
  /\ \/ job[f] = "ready" /\ Shows(f)
     \/ /\ job[f] = "processing" /\ polls[f] + 1 < MaxPolls
        /\ polls' = [polls EXCEPT ![f] = @ + 1]
        /\ UNCHANGED <<flow, button, overlay, confirm, mode, open, regen>>
     \/ Fails(f)
  /\ UNCHANGED <<server, faults>>

---------------------------------------------------------------------------
(* The preview endpoints. *)

\* The directory is made for the upload, so no cleanup is after it yet: a small file
\* is previewed at once, one over PREVIEW_ASYNC_THRESHOLD_MB queued.
Create(f) ==
  /\ flow[f] = "create" /\ api = Idle
  /\ \/ /\ record' = [record EXCEPT ![f] = [ttl |-> TTL, disk |-> "upload", age |-> 0]]
        /\ flow' = [flow EXCEPT ![f] = "made"]
        /\ UNCHANGED <<task, api>>
     \/ /\ record' = [record EXCEPT ![f].disk = "upload"]
        /\ task' = [task EXCEPT ![f] = "queued"]
        /\ api' = [at |-> "create", of |-> f]
        /\ UNCHANGED flow
     \/ /\ flow' = [flow EXCEPT ![f] = "refused"]
        /\ UNCHANGED <<record, task, api>>
  /\ UNCHANGED <<polls, button, overlay, confirm, mode, open, regen, cleaner, job, report,
                 slots, unsent, faults>>

\* The job is stored as processing, after .delay(): a worker may have been faster.
Mark(f) ==
  /\ api = [at |-> "create", of |-> f]
  /\ job' = [job EXCEPT ![f] = "processing"]
  /\ overtaken' = IF job[f] = None THEN overtaken ELSE overtaken \cup {f}
  /\ flow' = [flow EXCEPT ![f] = "accepted"]
  /\ api' = Idle
  /\ UNCHANGED <<polls, button, overlay, confirm, mode, open, regen, record, cleaner, task,
                 report, slots, unsent, clicks, crashes, again, crossed>>

Alive(f) == record[f].ttl > 0

\* confirm: the record is read; without one, or without a slot, it is refused.
\* A 402 is not thrown before the user has answered the offer of a better plan.
ConfirmRead(f) ==
  /\ confirm[f] = "sent" /\ api = Idle
  /\ \/ Alive(f) /\ api' = [at |-> "confirm", of |-> f] /\ UNCHANGED confirm
     \/ confirm' = [confirm EXCEPT ![f] = "denied"] /\ UNCHANGED api
     \/ Alive(f) /\ confirm' = [confirm EXCEPT ![f] = "limited"] /\ UNCHANGED api
  /\ UNCHANGED <<flow, polls, button, overlay, mode, open, regen, record, cleaner, job, task,
                 report, slots, unsent, faults>>

\* Mutant: the preview is kept.
ConfirmQueueKeeps(f) ==
  /\ api = [at |-> "confirm", of |-> f]
  /\ slots' = [slots EXCEPT ![f] = @ + 1]
  /\ report' = [report EXCEPT ![f] = "queued"]
  /\ confirm' = [confirm EXCEPT ![f] = "queued"]
  /\ api' = Idle
  /\ UNCHANGED <<flow, polls, button, overlay, mode, open, regen, record, cleaner, job, task,
                 unsent, faults>>

\* The slot is taken, the report queued, the record deleted: the files stay.  A
\* broker that refuses the message costs the slot and keeps the record; so does
\* whatever fails after the message was sent, and the answer is an error.
ConfirmQueue(f) ==
  /\ api = [at |-> "confirm", of |-> f]
  /\ slots' = [slots EXCEPT ![f] = @ + 1]
  /\ \/ /\ report' = [report EXCEPT ![f] = "queued"]
        /\ record' = [record EXCEPT ![f].ttl = 0]
        /\ confirm' = [confirm EXCEPT ![f] = "queued"]
        /\ UNCHANGED <<unsent, again>>
     \/ /\ unsent[f] = 0
        /\ unsent' = [unsent EXCEPT ![f] = 1]
        /\ confirm' = [confirm EXCEPT ![f] = "denied"]
        /\ UNCHANGED <<record, report, again>>
     \/ /\ f \notin again
        /\ report' = [report EXCEPT ![f] = "queued"]
        /\ confirm' = [confirm EXCEPT ![f] = "denied"]
        /\ again' = again \cup {f}
        /\ UNCHANGED <<record, unsent>>
  /\ api' = Idle
  /\ UNCHANGED <<flow, polls, button, overlay, mode, open, regen, cleaner, job, task,
                 clicks, crashes, overtaken, crossed>>

\* preview_storage_dir and store_chart_png: a directory that is gone is made again, a
\* picture that is new makes it young, one that is written over leaves it its age.
Draws(f) ==
  \E a \in {0, record[f].age} :
    record' = [record EXCEPT ![f] =
      [record[f] EXCEPT !.disk = IF @ = "none" THEN "pictures" ELSE @, !.age = a]]

\* A record is stored; a cleanup has deleted its key and is about to take the files.
Stores(f) ==
  /\ record' = [record EXCEPT ![f].ttl = TTL]
  /\ crossed' = IF cleaner[f] = "deleted" THEN crossed \cup {f} ELSE crossed

\* The client's handler names a chart that is not in its scope: picture, badge and
\* buttons stay as they were, whatever the answer.
RegenAnswer(f) == regen' = [regen EXCEPT ![f] = FALSE]

\* regenerate_chart reads the record and then the upload, without which it gives up.
RegenRead(f) ==
  /\ regen[f] /\ api = Idle
  /\ \/ Alive(f) /\ record[f].disk = "upload" /\ api' = [at |-> "draw", of |-> f]
          /\ UNCHANGED regen
     \/ RegenAnswer(f) /\ UNCHANGED api
  /\ UNCHANGED <<flow, polls, button, overlay, confirm, mode, open, record, cleaner, job,
                 task, report, slots, unsent, faults>>

RegenDraw(f) ==
  /\ api = [at |-> "draw", of |-> f]
  /\ \/ Draws(f) /\ api' = [at |-> "store", of |-> f] /\ UNCHANGED regen
     \/ RegenAnswer(f) /\ api' = Idle /\ UNCHANGED record
  /\ UNCHANGED <<flow, polls, button, overlay, confirm, mode, open, cleaner, job, task,
                 report, slots, unsent, faults>>

\* The record that was read gets a new hour, also if it was deleted meanwhile.
RegenStore(f) ==
  /\ api = [at |-> "store", of |-> f]
  /\ Stores(f)
  /\ RegenAnswer(f) /\ api' = Idle
  /\ UNCHANGED <<flow, polls, button, overlay, confirm, mode, open, cleaner, job, task,
                 report, slots, unsent, clicks, crashes, overtaken, again>>

---------------------------------------------------------------------------
(* Workers, cleanup, time. *)

TaskStarts(f) ==
  /\ task[f] = "queued"
  /\ task' = [task EXCEPT ![f] = "running"]
  /\ UNCHANGED <<client, record, cleaner, job, report, slots, unsent, api, faults>>

\* run_parser: without the upload the task fails.
TaskReads(f) ==
  /\ task[f] = "running" /\ record[f].disk = "upload"
  /\ task' = [task EXCEPT ![f] = "read"]
  /\ UNCHANGED <<client, record, cleaner, job, report, slots, unsent, api, faults>>

\* There may be nothing to draw.
TaskDraws(f) ==
  /\ task[f] = "read"
  /\ Draws(f) \/ UNCHANGED record
  /\ task' = [task EXCEPT ![f] = "drawn"]
  /\ UNCHANGED <<client, cleaner, job, report, slots, unsent, api, faults>>

TaskStores(f) ==
  /\ task[f] = "drawn"
  /\ Stores(f)
  /\ task' = [task EXCEPT ![f] = "stored"]
  /\ again' = IF slots[f] > 0 THEN again \cup {f} ELSE again
  /\ UNCHANGED <<client, cleaner, job, report, slots, unsent, api, clicks, crashes, overtaken>>

\* Mutant: the preview is stored, but not the state of its job.
TaskEndsSilently(f) ==
  /\ task[f] \in {"running", "read", "drawn", "stored"}
  /\ task' = [task EXCEPT ![f] = "done"]
  /\ UNCHANGED <<client, record, cleaner, job, report, slots, unsent, api, faults>>

TaskEnds(f) ==
  /\ \/ task[f] = "stored" /\ job' = [job EXCEPT ![f] = "ready"]
     \/ task[f] \in {"running", "read", "drawn"} /\ job' = [job EXCEPT ![f] = "failed"]
  /\ task' = [task EXCEPT ![f] = "done"]
  /\ UNCHANGED <<client, record, cleaner, report, slots, unsent, api, faults>>

\* acks_late: the message of a worker that dies is delivered again, also when the
\* worker had stored everything and only the acknowledgement is missing.
TaskCrashes(f) ==
  /\ task[f] \notin {None, "queued"} /\ crashes < MaxCrashes
  /\ crashes' = crashes + 1
  /\ task' = [task EXCEPT ![f] = "queued"]
  /\ UNCHANGED <<client, record, cleaner, job, report, slots, unsent, api, clicks, past>>

\* The report reads the upload.
ReportRuns(f) ==
  /\ report[f] = "queued"
  /\ \/ record[f].disk = "upload" /\ report' = [report EXCEPT ![f] = "success"]
     \/ report' = [report EXCEPT ![f] = "failure"]
  /\ UNCHANGED <<client, record, cleaner, job, task, slots, unsent, api, faults>>

\* cleanup_expired goes by the age of the directory.
CleanupFinds(f) ==
  /\ cleaner[f] = "idle" /\ record[f].disk # "none" /\ record[f].age > TTL
  /\ cleaner' = [cleaner EXCEPT ![f] = "due"]
  /\ UNCHANGED <<client, record, job, task, report, slots, unsent, api, faults>>

\* Mutant: the key stays until its own time is over.
CleanupDeletesNothing(f) ==
  /\ cleaner[f] = "due"
  /\ cleaner' = [cleaner EXCEPT ![f] = "deleted"]
  /\ UNCHANGED <<client, record, job, task, report, slots, unsent, api, faults>>

\* delete_preview: the key, then the directory, whatever was stored or drawn by now.
CleanupDeletes(f) ==
  /\ cleaner[f] = "due"
  /\ record' = [record EXCEPT ![f].ttl = 0]
  /\ cleaner' = [cleaner EXCEPT ![f] = "deleted"]
  /\ UNCHANGED <<client, job, task, report, slots, unsent, api, faults>>

\* The endpoint or the worker has read the upload and will store the record.
Storing(f) ==
  \/ api.of = f /\ api.at \in {"draw", "store"}
  \/ task[f] \in {"read", "drawn"}

CleanupRemoves(f) ==
  /\ cleaner[f] = "deleted"
  /\ record' = [record EXCEPT ![f] = [@ EXCEPT !.disk = "none", !.age = 0]]
  /\ cleaner' = [cleaner EXCEPT ![f] = "idle"]
  /\ crossed' = IF Storing(f) THEN crossed \cup {f} ELSE crossed
  /\ UNCHANGED <<client, job, task, report, slots, unsent, api, clicks, crashes, overtaken,
                 again>>

\* Its next run starts anew.
CleanupDies(f) ==
  /\ cleaner[f] # "idle" /\ crashes < MaxCrashes
  /\ crashes' = crashes + 1
  /\ cleaner' = [cleaner EXCEPT ![f] = "idle"]
  /\ UNCHANGED <<client, record, job, task, report, slots, unsent, api, clicks, past>>

Tick ==
  /\ record' = [f \in Flows |->
       [record[f] EXCEPT !.ttl = IF @ = 0 THEN 0 ELSE @ - 1,
                         !.age = IF record[f].disk # "none" /\ @ <= TTL THEN @ + 1 ELSE @]]
  /\ UNCHANGED <<client, cleaner, job, task, report, slots, unsent, api, faults>>

---------------------------------------------------------------------------
(* The modal. *)

\* The close button, the backdrop, "edit": a confirmation under way goes on.
Close(f) ==
  /\ Click
  /\ open[f]
  /\ open' = [open EXCEPT ![f] = FALSE]
  /\ UNCHANGED <<flow, polls, button, overlay, confirm, mode, regen, server, crashes, past>>

ClickType(f) ==
  /\ Click
  /\ open[f] /\ ~regen[f]
  /\ regen' = [regen EXCEPT ![f] = TRUE]
  /\ UNCHANGED <<flow, polls, button, overlay, confirm, mode, open, server, crashes, past>>

ClickConfirm(f, m) ==
  /\ Click
  /\ open[f] /\ confirm[f] = "idle"
  /\ confirm' = [confirm EXCEPT ![f] = "sent"]
  /\ mode' = [mode EXCEPT ![f] = m]
  /\ UNCHANGED <<flow, polls, button, overlay, open, regen, server, crashes, past>>

\* showUpgradeModal is closed, or leads to the prices.
AnswerUpgrade(f) ==
  /\ confirm[f] = "limited"
  /\ confirm' = [confirm EXCEPT ![f] = "denied"]
  /\ UNCHANGED <<flow, polls, button, overlay, mode, open, regen, server, faults>>

\* By mail that is all; else the task is polled behind a spinner, in front of
\* the modal or, to download, after it is closed.
ConfirmAnswered(f) ==
  /\ confirm[f] = "queued"
  /\ confirm' = [confirm EXCEPT ![f] = IF mode[f] = "mail" THEN "over" ELSE "polling"]
  /\ open' = [open EXCEPT ![f] = @ /\ mode[f] = "external"]
  /\ polls' = [polls EXCEPT ![f] = 0]
  /\ IF mode[f] = "mail" THEN UNCHANGED overlay ELSE Loading(f, "task")
  /\ UNCHANGED <<flow, button, mode, regen, server, faults>>

\* Refused, or the answer is lost: the buttons of the modal work again.
ConfirmFailed(f) ==
  /\ confirm[f] \in {"queued", "denied"}
  /\ confirm' = [confirm EXCEPT ![f] = "idle"]
  /\ mode' = [mode EXCEPT ![f] = "mail"]
  /\ UNCHANGED <<flow, polls, button, overlay, open, regen, server, faults>>

\* The dialog's handler is done with its task.
Served(f) ==
  /\ confirm' = [confirm EXCEPT ![f] = "over"]
  /\ open' = [open EXCEPT ![f] = FALSE]
  /\ mode' = [mode EXCEPT ![f] = "mail"]
  /\ Hide(f, "task") /\ LoopOver(f)

\* Mutant: one turn more than there are.
PollTaskOnceMore(f) ==
  /\ confirm[f] = "polling" /\ api = Idle
  /\ \/ /\ report[f] = "queued" /\ polls[f] < MaxPolls
        /\ polls' = [polls EXCEPT ![f] = @ + 1]
        /\ UNCHANGED <<overlay, confirm, mode, open>>
     \/ Served(f)
  /\ UNCHANGED <<flow, button, regen, server, faults>>

\* One turn of pollTaskUntilSuccess or pollTaskAndDownload: ready, failed, too late, or
\* the call fails.
PollTask(f) ==
  /\ confirm[f] = "polling" /\ api = Idle
  /\ \/ /\ report[f] = "queued" /\ polls[f] + 1 < MaxPolls
        /\ polls' = [polls EXCEPT ![f] = @ + 1]
        /\ UNCHANGED <<overlay, confirm, mode, open>>
     \/ /\ report[f] = "success" /\ mode[f] = "download"
        /\ confirm' = [confirm EXCEPT ![f] = "fetching"]
        /\ LoopOver(f)
        /\ UNCHANGED <<overlay, mode, open>>
     \/ Served(f)
  /\ UNCHANGED <<flow, button, regen, server, faults>>

\* downloadReport, behind the same spinner: a file, a redirect or the address
\* at the external service, or an error.
Fetched(f) ==
  /\ confirm[f] = "fetching"
  /\ Served(f)
  /\ UNCHANGED <<flow, button, regen, server, faults>>

---------------------------------------------------------------------------
FormHandler(f)  == Analyzed(f) \/ CreateAnswered(f) \/ PollJob(f)
ModalHandler(f) == ConfirmAnswered(f) \/ ConfirmFailed(f) \/ PollTask(f) \/ Fetched(f)
Regenerate(f) == RegenRead(f) \/ RegenDraw(f) \/ RegenStore(f)
Api(f)    == Create(f) \/ Mark(f) \/ ConfirmRead(f) \/ ConfirmQueue(f) \/ Regenerate(f)
Worker(f) ==
  TaskStarts(f) \/ TaskReads(f) \/ TaskDraws(f) \/ TaskStores(f) \/ TaskEnds(f) \/ ReportRuns(f)
Cleanup(f) == CleanupFinds(f) \/ CleanupDeletes(f) \/ CleanupRemoves(f)
User(f)   == Submit(f) \/ Close(f) \/ ClickType(f) \/ AnswerUpgrade(f)
               \/ (\E m \in Modes : ClickConfirm(f, m))

Next ==
  \/ \E f \in Flows : FormHandler(f) \/ ModalHandler(f) \/ Api(f)
  \/ \E f \in Flows : Worker(f) \/ User(f) \/ TaskCrashes(f) \/ Cleanup(f) \/ CleanupDies(f)
  \/ NewForm \/ OtherLoading \/ OtherHides
  \/ Tick

Spec == Init /\ [][Next]_vars

\* The event loops run what is queued, requests in the order they come, and every
\* request is answered or fails; of the workers and the cleanup nothing is asked.
Fairness ==
  \A f \in Flows :
    /\ SF_vars(FormHandler(f) \/ Create(f))
    /\ SF_vars(ModalHandler(f) \/ ConfirmRead(f))
    /\ WF_vars(Mark(f) \/ ConfirmQueue(f) \/ RegenDraw(f) \/ RegenStore(f))

FairSpec == Spec /\ Fairness

---------------------------------------------------------------------------
(* Properties. *)

\* A full-screen spinner belongs to a flow or a task that is still waited for and
\* will take it away, however flows overlap (dashboard.js, download.js).
SpinnerIsWork ==
  overlay.of \in Flows =>
    IF overlay.for = "flow" THEN flow[overlay.of] \in Waiting
    ELSE confirm[overlay.of] \in {"polling", "fetching"}

\* A preview is an order as PaidReports has it: it makes one report for one slot,
\* after lost answers, second clicks and retries.  What opens it again is a second
\* delivery of the worker's message, which stores it anew, and a failure between
\* the report's message and the deletion of the record; a broker that refuses the
\* message wastes the slot.
Order == INSTANCE PaidReports WITH
  Orders   <- Flows,
  wasted   <- unsent,
  reopened <- again

OrdersKept == Order!Spec

\* So it is paid once unless it was opened again.
OncePerPreview == \A f \in Flows \ again : slots[f] - unsent[f] <= 1

\* A preview that can be confirmed has its upload on disk, although record and
\* directory have clocks of their own and different writers wind them up: unless a
\* cleanup of the directory fell between reading the upload and storing the record, or
\* the store between the cleanup's two deletions.
LivePreviewHasUpload ==
  \A f \in Flows \ crossed : Alive(f) => record[f].disk = "upload"

\* A job the client is told is processing is being processed, unless the endpoint
\* stored that after the worker was done; with a crash, it may be processed again.
ProcessingIsTrue ==
  \A f \in Flows \ overtaken : job[f] = "processing" => task[f] # "done"

\* No submission and no confirmation waits forever except for the user, also when the
\* workers do nothing (the loops of dashboard.js and download.js); and with it goes its
\* spinner, by SpinnerIsWork.
FlowEnds ==
  /\ \A f \in Flows : flow[f] \in Waiting ~> flow[f] \notin Waiting
  /\ \A f \in Flows : confirm[f] \in Asking ~> confirm[f] \notin Asking

\* preview.py:275 "Keep uploaded file on disk until Celery reads it (async queue)."
UploadUntilRead == \A f \in Flows : report[f] = "queued" => record[f].disk = "upload"
=============================================================================
