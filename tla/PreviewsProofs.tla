--------------------------- MODULE PreviewsProofs ---------------------------
(***************************************************************************)
(* Proofs about Previews, for any number of submissions, polls and dead    *)
(* workers, and any time to live.                                          *)
(***************************************************************************)
EXTENDS Previews, TLAPS

---------------------------------------------------------------------------
(* Type correctness. *)

Records == [ttl : 0 .. TTL, disk : Disks, age : 0 .. TTL + 1]

\* A record is one field away from another.
LEMMA RecordType ==
  ASSUME NEW r \in Records, NEW t \in 0 .. TTL, NEW d \in Disks, NEW a \in 0 .. TTL + 1
  PROVE  /\ [r EXCEPT !.ttl = t] \in Records
         /\ [r EXCEPT !.disk = d] \in Records
         /\ [r EXCEPT !.disk = d, !.age = a] \in Records
         /\ [r EXCEPT !.ttl = t, !.age = a] \in Records
         /\ [ttl |-> t, disk |-> d, age |-> a] \in Records
  BY DEF Records

\* The initial state is well typed.
LEMMA TypeInit == Init => TypeOK
  BY PreviewsAssumption DEF Init, TypeOK, Gone, Idle, Modes, Records, Disks

\* The parts of TypeOK.
ClientOK ==
  /\ flow \in [Flows -> Waiting \cup {"idle", "shown", "failed"}]
  /\ polls \in [Flows -> 0 .. MaxPolls - 1]
  /\ button \in Flows \cup {None}
  /\ overlay \in [of : Flows \cup {None, Other}, for : {"flow", "task"}]
  /\ confirm \in [Flows -> Asking \cup {"idle", "limited", "over"}]
  /\ mode \in [Flows -> Modes]
  /\ open \in [Flows -> BOOLEAN]
  /\ regen \in [Flows -> BOOLEAN]
RecordsOK == record \in [Flows -> Records]
ServerOK ==
  /\ cleaner \in [Flows -> {"idle", "due", "deleted"}]
  /\ job \in [Flows -> {None, "processing", "ready", "failed"}]
  /\ task \in [Flows -> {None, "queued", "running", "read", "drawn", "stored", "done"}]
  /\ report \in [Flows -> {None, "queued", "success", "failure"}]
  /\ slots \in [Flows -> Nat] /\ unsent \in [Flows -> Nat]
  /\ api \in [at : {"idle", "create", "confirm", "draw", "store"}, of : Flows \cup {None}]
FaultsOK ==
  /\ clicks \in 0 .. MaxClicks /\ crashes \in 0 .. MaxCrashes
  /\ overtaken \subseteq Flows /\ again \subseteq Flows /\ crossed \subseteq Flows

\* TypeOK is its parts.
LEMMA TypeParts == TypeOK <=> ClientOK /\ RecordsOK /\ ServerOK /\ FaultsOK
  BY DEF TypeOK, ClientOK, RecordsOK, ServerOK, FaultsOK, Records

\* What the handlers of the form do stays in the client.
LEMMA FormHandlerType ==
  ASSUME ClientOK, NEW f \in Flows, FormHandler(f)
  PROVE  ClientOK' /\ UNCHANGED <<server, faults>>
  <1> USE PreviewsAssumption DEF ClientOK, Waiting
  <1>1. ASSUME Fails(f) PROVE ClientOK'
    BY <1>1 DEF Fails, Hide, Release, LoopOver
  <1>2. ASSUME Shows(f) PROVE ClientOK'
    BY <1>2 DEF Shows, Hide, Release, LoopOver
  <1>3. CASE Analyzed(f)
    <2>1. ASSUME AnalysisOver(f), Loading(f, "flow"),
                 UNCHANGED <<polls, button, confirm, mode, open, regen>>
          PROVE  ClientOK'
      BY <2>1 DEF AnalysisOver, Loading
    <2> QED  BY <1>1, <1>3, <2>1 DEF Analyzed, Unreadable
  <1>4. CASE CreateAnswered(f)
    <2>1. ASSUME flow' = [flow EXCEPT ![f] = "poll"], polls' = [polls EXCEPT ![f] = 0],
                 UNCHANGED <<button, overlay, confirm, mode, open, regen>>
          PROVE  ClientOK'
      BY <2>1
    <2> QED  BY <1>1, <1>2, <1>4, <2>1 DEF CreateAnswered
  <1>5. CASE PollJob(f)
    <2>1. ASSUME polls[f] + 1 < MaxPolls, polls' = [polls EXCEPT ![f] = @ + 1],
                 UNCHANGED <<flow, button, overlay, confirm, mode, open, regen>>
          PROVE  ClientOK'
      BY <2>1
    <2> QED  BY <1>1, <1>2, <1>5, <2>1 DEF PollJob
  <1> QED  BY <1>3, <1>4, <1>5 DEF FormHandler, Analyzed, CreateAnswered, PollJob

\* Neither does what the handlers of the modal do leave it.
LEMMA ModalHandlerType ==
  ASSUME ClientOK, NEW f \in Flows, ModalHandler(f)
  PROVE  ClientOK' /\ UNCHANGED <<server, faults>>
  <1> USE PreviewsAssumption DEF ClientOK, Asking, Modes
  <1>s. ASSUME Served(f), UNCHANGED <<flow, button, regen>> PROVE ClientOK'
    BY <1>s DEF Served, Hide, LoopOver
  <1>1. CASE ConfirmAnswered(f)
    BY <1>1 DEF ConfirmAnswered, Loading
  <1>2. CASE ConfirmFailed(f)
    BY <1>2 DEF ConfirmFailed
  <1>3. CASE PollTask(f)
    <2>1. ASSUME polls[f] + 1 < MaxPolls, polls' = [polls EXCEPT ![f] = @ + 1],
                 UNCHANGED <<overlay, confirm, mode, open>>, UNCHANGED <<flow, button, regen>>
          PROVE  ClientOK'
      BY <2>1
    <2>2. ASSUME confirm' = [confirm EXCEPT ![f] = "fetching"], LoopOver(f),
                 UNCHANGED <<overlay, mode, open>>, UNCHANGED <<flow, button, regen>>
          PROVE  ClientOK'
      BY <2>2 DEF LoopOver
    <2> QED  BY <1>3, <1>s, <2>1, <2>2 DEF PollTask
  <1>4. CASE Fetched(f)
    BY <1>4, <1>s DEF Fetched
  <1> QED  BY <1>1, <1>2, <1>3, <1>4
           DEF ModalHandler, ConfirmAnswered, ConfirmFailed, PollTask, Fetched

\* Drawing makes a directory if there is none; the upload stays.
LEMMA DrawsEffect ==
  ASSUME RecordsOK, NEW f \in Flows, Draws(f)
  PROVE  /\ RecordsOK'
         /\ \A g \in Flows \ {f} : record'[g] = record[g]
         /\ record'[f].ttl = record[f].ttl
         /\ record[f].disk = "upload" => record'[f].disk = "upload"
  <1>1. PICK a \in {0, record[f].age} :
          record' = [record EXCEPT ![f] =
            [record[f] EXCEPT !.disk = IF record[f].disk = "none" THEN "pictures"
                                       ELSE record[f].disk,
                              !.age = a]]
    BY DEF Draws
  <1>2. PICK d : d = IF record[f].disk = "none" THEN "pictures" ELSE record[f].disk
    OBVIOUS
  <1>3. record[f] \in Records
    BY DEF RecordsOK
  <1>4. d \in Disks /\ a \in 0 .. TTL + 1
    BY <1>2, <1>3, PreviewsAssumption DEF Records, Disks
  <1>5. PICK r : r = [record[f] EXCEPT !.disk = d, !.age = a]
    OBVIOUS
  <1>6. r \in Records
    BY <1>3, <1>4, <1>5 DEF Records
  <1>7. r.ttl = record[f].ttl /\ r.disk = d
    BY <1>3, <1>5 DEF Records
  <1>8. record' = [record EXCEPT ![f] = r]
    BY <1>1, <1>2, <1>5
  <1> QED  BY <1>2, <1>6, <1>7, <1>8 DEF RecordsOK

\* Storing a record changes its time to live only.
LEMMA StoresEffect ==
  ASSUME RecordsOK, FaultsOK, NEW f \in Flows, Stores(f)
  PROVE  /\ RecordsOK' /\ crossed' \subseteq Flows
         /\ \A g \in Flows \ {f} : record'[g] = record[g]
         /\ record'[f].disk = record[f].disk
  <1>1. record' = [record EXCEPT ![f] = [record[f] EXCEPT !.ttl = TTL]]
    BY DEF Stores, RecordsOK
  <1>2. record[f] \in Records /\ TTL \in 0 .. TTL
    BY PreviewsAssumption DEF RecordsOK
  <1>3. PICK r : r = [record[f] EXCEPT !.ttl = TTL]
    OBVIOUS
  <1>4. r \in Records /\ r.disk = record[f].disk
    BY <1>2, <1>3 DEF Records
  <1> QED  BY <1>1, <1>3, <1>4 DEF RecordsOK, FaultsOK, Stores

\* The cleanup's second deletion takes the files only.
LEMMA RemovesEffect ==
  ASSUME RecordsOK, NEW f \in Flows, CleanupRemoves(f)
  PROVE  /\ RecordsOK'
         /\ \A g \in Flows \ {f} : record'[g] = record[g]
         /\ record'[f].ttl = record[f].ttl
  <1>1. PICK r : r = [record[f] EXCEPT !.disk = "none", !.age = 0]
    OBVIOUS
  <1>2. record' = [record EXCEPT ![f] = r]
    BY <1>1 DEF CleanupRemoves, RecordsOK
  <1>3. record[f] \in Records
    BY DEF RecordsOK
  <1>4. "none" \in Disks /\ 0 \in 0 .. TTL + 1
    BY PreviewsAssumption DEF Disks
  <1>5. r \in Records /\ r.ttl = record[f].ttl
    BY <1>1, <1>3, <1>4 DEF Records
  <1> QED  BY <1>2, <1>5 DEF RecordsOK

\* Every step keeps the types: one case per action.
LEMMA TypeNext == TypeOK /\ [Next]_vars => TypeOK'
  <1> SUFFICES ASSUME TypeOK, [Next]_vars PROVE TypeOK'
    OBVIOUS
  <1> USE PreviewsAssumption DEF client, server, faults, past
  <1>0. ClientOK /\ RecordsOK /\ ServerOK /\ FaultsOK
    BY TypeParts
  <1>d. ASSUME ClientOK', RecordsOK', ServerOK', FaultsOK' PROVE TypeOK'
    BY <1>d DEF TypeOK, ClientOK, RecordsOK, ServerOK, FaultsOK, Records
  <1>a. ASSUME NEW f \in Flows, NEW r \in Records, record' = [record EXCEPT ![f] = r]
        PROVE  RecordsOK'
    BY <1>0, <1>a DEF RecordsOK
  <1>b. ASSUME NEW f \in Flows PROVE record[f] \in Records
    BY <1>0 DEF RecordsOK
  <1>c. TTL \in 0 .. TTL /\ 0 \in 0 .. TTL /\ 0 \in 0 .. TTL + 1 /\ "upload" \in Disks
    BY DEF Disks
  <1>1. ASSUME NEW f \in Flows, FormHandler(f) \/ ModalHandler(f) PROVE TypeOK'
    <2>1. ClientOK' /\ UNCHANGED <<server, faults>>
      BY <1>0, <1>1, FormHandlerType, ModalHandlerType
    <2> QED  BY <1>0, <2>1, <1>d DEF RecordsOK, ServerOK, FaultsOK
  <1>2. ASSUME NEW f \in Flows, Create(f) PROVE TypeOK'
    <2>1. RecordsOK'
      <3>1. CASE record' = [record EXCEPT ![f] = [ttl |-> TTL, disk |-> "upload", age |-> 0]]
        <4>1. [ttl |-> TTL, disk |-> "upload", age |-> 0] \in Records
          BY <1>c DEF Records
        <4> QED  BY <3>1, <4>1, <1>a
      <3>2. CASE record' = [record EXCEPT ![f].disk = "upload"]
        <4>1. [record[f] EXCEPT !.disk = "upload"] \in Records
          BY <1>b, <1>c, RecordType
        <4> QED  BY <3>2, <4>1, <1>a
      <3>3. CASE UNCHANGED record
        BY <1>0, <3>3 DEF RecordsOK
      <3> QED  BY <1>2, <3>1, <3>2, <3>3 DEF Create
    <2>2. ClientOK'
      BY <1>0, <1>2 DEF Create, ClientOK, Waiting
    <2>3. ServerOK'
      BY <1>0, <1>2 DEF Create, ServerOK
    <2> QED  BY <1>0, <1>2, <2>1, <2>2, <2>3, <1>d DEF Create, FaultsOK
  <1>3. ASSUME NEW f \in Flows, Mark(f) PROVE TypeOK'
    <2>1. ClientOK'
      BY <1>0, <1>3 DEF Mark, ClientOK, Waiting
    <2>2. ServerOK' /\ FaultsOK'
      BY <1>0, <1>3 DEF Mark, ServerOK, FaultsOK, Idle
    <2> QED  BY <1>0, <1>3, <2>1, <2>2, <1>d DEF Mark, RecordsOK
  <1>4. ASSUME NEW f \in Flows, ConfirmRead(f) PROVE TypeOK'
    <2>1. ClientOK'
      BY <1>0, <1>4 DEF ConfirmRead, ClientOK, Asking
    <2>2. ServerOK'
      BY <1>0, <1>4 DEF ConfirmRead, ServerOK
    <2> QED  BY <1>0, <1>4, <2>1, <2>2, <1>d DEF ConfirmRead, RecordsOK, FaultsOK
  <1>5. ASSUME NEW f \in Flows, ConfirmQueue(f) PROVE TypeOK'
    <2>1. ClientOK'
      BY <1>0, <1>5 DEF ConfirmQueue, ClientOK, Asking
    <2>2. ServerOK'
      BY <1>0, <1>5 DEF ConfirmQueue, ServerOK, Idle
    <2>3. RecordsOK'
      <3>1. CASE record' = [record EXCEPT ![f].ttl = 0]
        <4>1. [record[f] EXCEPT !.ttl = 0] \in Records
          BY <1>b, <1>c, RecordType
        <4> QED  BY <3>1, <4>1, <1>a
      <3>2. CASE UNCHANGED record
        BY <1>0, <3>2 DEF RecordsOK
      <3> QED  BY <1>5, <3>1, <3>2 DEF ConfirmQueue
    <2>4. FaultsOK'
      BY <1>0, <1>5 DEF ConfirmQueue, FaultsOK
    <2> QED  BY <2>1, <2>2, <2>3, <2>4, <1>d
  <1>6. ASSUME NEW f \in Flows, Regenerate(f) PROVE TypeOK'
    <2>a. UNCHANGED regen \/ regen' = [regen EXCEPT ![f] = FALSE]
      BY <1>6 DEF Regenerate, RegenRead, RegenDraw, RegenStore, RegenAnswer
    <2>b. api' \in {api, Idle, [at |-> "draw", of |-> f], [at |-> "store", of |-> f]}
      BY <1>6 DEF Regenerate, RegenRead, RegenDraw, RegenStore
    <2>c. UNCHANGED <<flow, polls, button, overlay, confirm, mode, open, cleaner, job, task,
                      report, slots, unsent>>
      BY <1>6 DEF Regenerate, RegenRead, RegenDraw, RegenStore
    <2>d. ClientOK'
      BY <1>0, <2>a, <2>c DEF ClientOK
    <2>e. api' \in [at : {"idle", "create", "confirm", "draw", "store"}, of : Flows \cup {None}]
      BY <1>0, <2>b DEF Idle, ServerOK
    <2>1. ClientOK' /\ ServerOK'
      BY <1>0, <2>c, <2>d, <2>e DEF ServerOK
    <2>2. RecordsOK' /\ FaultsOK'
      <3>1. CASE RegenRead(f)
        BY <1>0, <3>1 DEF RegenRead, RecordsOK, FaultsOK
      <3>2. CASE RegenDraw(f)
        <4>1. Draws(f) \/ UNCHANGED record
          BY <3>2 DEF RegenDraw
        <4> QED  BY <1>0, <3>2, <4>1, DrawsEffect DEF RegenDraw, RecordsOK, FaultsOK
      <3>3. CASE RegenStore(f)
        <4>1. RecordsOK' /\ crossed' \subseteq Flows
          BY <1>0, <3>3, StoresEffect DEF RegenStore
        <4> QED  BY <1>0, <3>3, <4>1 DEF RegenStore, FaultsOK
      <3> QED  BY <1>6, <3>1, <3>2, <3>3 DEF Regenerate
    <2> QED  BY <2>1, <2>2, <1>d
  <1>7. ASSUME NEW f \in Flows, TaskStores(f) PROVE TypeOK'
    <2>1. RecordsOK' /\ crossed' \subseteq Flows
      BY <1>0, <1>7, StoresEffect DEF TaskStores
    <2>2. ServerOK' /\ FaultsOK'
      BY <1>0, <1>7, <2>1 DEF TaskStores, ServerOK, FaultsOK
    <2> QED  BY <1>0, <1>7, <2>1, <2>2, <1>d DEF TaskStores, ClientOK
  <1>14. ASSUME NEW f \in Flows, TaskDraws(f) PROVE TypeOK'
    <2>1. RecordsOK'
      <3>1. Draws(f) \/ UNCHANGED record
        BY <1>14 DEF TaskDraws
      <3> QED  BY <1>0, <3>1, DrawsEffect DEF RecordsOK
    <2>2. ServerOK'
      BY <1>0, <1>14 DEF TaskDraws, ServerOK
    <2> QED  BY <1>0, <1>14, <2>1, <2>2, <1>d DEF TaskDraws, ClientOK, FaultsOK
  <1>8. ASSUME NEW f \in Flows,
               \/ TaskStarts(f) \/ TaskReads(f) \/ TaskEnds(f) \/ ReportRuns(f)
               \/ TaskCrashes(f) \/ CleanupFinds(f) \/ CleanupDies(f)
        PROVE  TypeOK'
    BY <1>8, <1>0, <1>d
    DEF TaskStarts, TaskReads, TaskEnds, ReportRuns, TaskCrashes, CleanupFinds, CleanupDies,
        ClientOK, RecordsOK, ServerOK, FaultsOK
  <1>9. ASSUME NEW f \in Flows, User(f) PROVE TypeOK'
    <2>1. ClientOK'
      <3> USE DEF ClientOK
      <3>1. CASE Submit(f)
        BY <1>0, <3>1 DEF Submit, Loading, Waiting
      <3>2. CASE Close(f) \/ ClickType(f)
        BY <1>0, <3>2 DEF Close, ClickType
      <3>3. CASE AnswerUpgrade(f)
        BY <1>0, <3>3 DEF AnswerUpgrade, Asking
      <3>4. ASSUME NEW m \in Modes, ClickConfirm(f, m) PROVE ClientOK'
        BY <1>0, <3>4 DEF ClickConfirm, Asking
      <3> QED  BY <1>9, <3>1, <3>2, <3>3, <3>4 DEF User
    <2>2. FaultsOK'
      BY <1>0, <1>9
      DEF User, Submit, Close, ClickType, AnswerUpgrade, ClickConfirm, Click, FaultsOK
    <2>3. UNCHANGED server
      BY <1>9 DEF User, Submit, Close, ClickType, AnswerUpgrade, ClickConfirm
    <2> QED  BY <1>0, <2>1, <2>2, <2>3, <1>d DEF RecordsOK, ServerOK
  <1>10. ASSUME NEW f \in Flows, CleanupDeletes(f) \/ CleanupRemoves(f) PROVE TypeOK'
    <2>1. RecordsOK'
      <3>1. CASE CleanupDeletes(f)
        <4>1. record' = [record EXCEPT ![f] = [record[f] EXCEPT !.ttl = 0]]
          BY <1>0, <3>1 DEF CleanupDeletes, RecordsOK
        <4>2. [record[f] EXCEPT !.ttl = 0] \in Records
          BY <1>b, <1>c, RecordType
        <4> QED  BY <4>1, <4>2, <1>a
      <3> QED  BY <1>0, <1>10, <3>1, RemovesEffect
    <2>2. ServerOK' /\ FaultsOK'
      BY <1>0, <1>10 DEF CleanupDeletes, CleanupRemoves, ServerOK, FaultsOK
    <2> QED  BY <1>0, <1>10, <2>1, <2>2, <1>d DEF CleanupDeletes, CleanupRemoves, ClientOK
  <1>11. CASE NewForm \/ OtherLoading \/ OtherHides
    BY <1>0, <1>11, <1>d
    DEF NewForm, OtherLoading, OtherHides, Click, Loading, Hide, ClientOK, RecordsOK,
        ServerOK, FaultsOK
  <1>12. CASE Tick
    <2>1. RecordsOK'
      <3> DEFINE t(f) == IF record[f].ttl = 0 THEN 0 ELSE record[f].ttl - 1
                 a(f) == IF record[f].disk # "none" /\ record[f].age <= TTL THEN record[f].age + 1
                         ELSE record[f].age
      <3>1. record' = [f \in Flows |-> [record[f] EXCEPT !.ttl = t(f), !.age = a(f)]]
        BY <1>12 DEF Tick
      <3>2. ASSUME NEW f \in Flows PROVE t(f) \in 0 .. TTL /\ a(f) \in 0 .. TTL + 1
        BY <1>b DEF Records
      <3>3. ASSUME NEW f \in Flows
            PROVE  [record[f] EXCEPT !.ttl = t(f), !.age = a(f)] \in Records
        BY <3>2, <1>b, <1>c, RecordType
      <3> HIDE DEF t, a
      <3> QED  BY <3>1, <3>3 DEF RecordsOK
    <2> QED  BY <1>0, <1>12, <2>1, <1>d DEF Tick, ClientOK, ServerOK, FaultsOK
  <1>13. CASE UNCHANGED vars
    BY <1>0, <1>13, <1>d DEF vars, ClientOK, RecordsOK, ServerOK, FaultsOK
  <1> QED
    BY <1>1, <1>2, <1>3, <1>4, <1>5, <1>6, <1>7, <1>8, <1>9, <1>10, <1>11, <1>12, <1>13, <1>14
    DEF Next, Api, Worker, Cleanup

\* Every reachable state of Previews is well typed (preview.py, cache.py,
\* dashboard.js), for every value of the constants.
THEOREM TypeCorrect == Spec => []TypeOK
  <1> QED  BY TypeInit, TypeNext, PTL DEF Spec

---------------------------------------------------------------------------
(* How far a submission has got. *)

Creating(f)   == api.at = "create" /\ api.of = f
Confirming(f) == api.at = "confirm" /\ api.of = f
Restoring(f)  == api.at \in {"draw", "store"} /\ api.of = f

\* The endpoint confirms for somebody who waits, and before the dialog is on the
\* screen nothing has been confirmed and no chart drawn again.
Stages ==
  \A f \in Flows :
    /\ Confirming(f) => confirm[f] = "sent"
    /\ Creating(f) => flow[f] = "create"
    /\ Restoring(f) => flow[f] = "shown"
    /\ flow[f] # "shown" =>
         ~open[f] /\ ~regen[f] /\ confirm[f] = "idle" /\ slots[f] = 0 /\ unsent[f] = 0

\* Every step keeps to the order of the stages.
LEMMA StagesNext == TypeOK /\ Stages /\ [Next]_vars => Stages'
  <1> SUFFICES ASSUME TypeOK, Stages, [Next]_vars PROVE Stages'
    OBVIOUS
  <1>0. ClientOK /\ ServerOK
    BY TypeParts
  <1> USE PreviewsAssumption DEF Stages, Creating, Confirming, Restoring
  <1>1. ASSUME NEW f \in Flows, FormHandler(f) PROVE Stages'
    <2>1. flow[f] \notin {"create", "shown"} /\ UNCHANGED <<server, confirm, regen>>
      BY <1>1 DEF FormHandler, Analyzed, CreateAnswered, PollJob, AnalysisOver, Unreadable,
                  Fails, Shows
    <2>2. (\E s : flow' = [flow EXCEPT ![f] = s]) \/ UNCHANGED flow
      BY <1>1 DEF FormHandler, Analyzed, CreateAnswered, PollJob, AnalysisOver, Unreadable,
                  Fails, Shows
    <2>3. UNCHANGED open \/ (flow' = [flow EXCEPT ![f] = "shown"]
                               /\ open' = [open EXCEPT ![f] = TRUE])
      BY <1>1 DEF FormHandler, Analyzed, CreateAnswered, PollJob, AnalysisOver, Unreadable,
                  Fails, Shows
    <2> QED  BY <1>0, <2>1, <2>2, <2>3 DEF ClientOK, server
  <1>2. ASSUME NEW f \in Flows, ModalHandler(f) PROVE Stages'
    <2>1. confirm[f] \notin {"idle", "sent"} /\ UNCHANGED <<flow, regen, server>>
      BY <1>2 DEF ModalHandler, ConfirmAnswered, ConfirmFailed, PollTask, Fetched, Served, server
    <2>2. (\E s : confirm' = [confirm EXCEPT ![f] = s]) \/ UNCHANGED confirm
      BY <1>2 DEF ModalHandler, ConfirmAnswered, ConfirmFailed, PollTask, Fetched, Served
    <2>3. (\E b : open' = [open EXCEPT ![f] = b]) \/ UNCHANGED open
      BY <1>2 DEF ModalHandler, ConfirmAnswered, ConfirmFailed, PollTask, Fetched, Served
    <2> QED  BY <1>0, <2>1, <2>2, <2>3 DEF ClientOK, server
  <1>3. ASSUME NEW f \in Flows, Api(f) PROVE Stages'
    <2>1. CASE Create(f)
      <3>1. api.at = "idle" /\ flow[f] = "create"
        BY <2>1 DEF Create, Idle
      <3>2. UNCHANGED api \/ (api'.at = "create" /\ api'.of = f /\ UNCHANGED flow)
        BY <2>1 DEF Create
      <3>3. (\E s : s # "shown" /\ flow' = [flow EXCEPT ![f] = s]) \/ UNCHANGED flow
        BY <2>1 DEF Create
      <3>4. UNCHANGED <<open, regen, confirm, slots, unsent>>
        BY <2>1 DEF Create
      <3> QED  BY <1>0, <3>1, <3>2, <3>3, <3>4 DEF ClientOK
    <2>2. CASE Mark(f)
      <3>1. Creating(f) /\ api'.at = "idle"
        BY <2>2 DEF Mark, Idle
      <3>2. flow' = [flow EXCEPT ![f] = "accepted"] /\ UNCHANGED <<open, regen, confirm, slots, unsent>>
        BY <2>2 DEF Mark
      <3> QED  BY <1>0, <3>1, <3>2 DEF ClientOK
    <2>3. CASE ConfirmRead(f)
      <3>1. api.at = "idle" /\ confirm[f] = "sent" /\ UNCHANGED <<flow, open, regen, slots, unsent>>
        BY <2>3 DEF ConfirmRead, Idle
      <3>2. \/ api'.at = "confirm" /\ api'.of = f /\ UNCHANGED confirm
            \/ UNCHANGED api /\ \E s : confirm' = [confirm EXCEPT ![f] = s]
        BY <2>3 DEF ConfirmRead
      <3> QED  BY <1>0, <3>1, <3>2 DEF ClientOK
    <2>4. CASE ConfirmQueue(f)
      <3>1. Confirming(f) /\ api'.at = "idle" /\ UNCHANGED <<flow, open, regen>>
        BY <2>4 DEF ConfirmQueue, Idle
      <3>2. \E s : confirm' = [confirm EXCEPT ![f] = s]
        BY <2>4 DEF ConfirmQueue
      <3>3. \A g \in Flows \ {f} : slots'[g] = slots[g] /\ unsent'[g] = unsent[g]
        BY <1>0, <2>4 DEF ConfirmQueue, ServerOK
      <3> QED  BY <1>0, <3>1, <3>2, <3>3 DEF ClientOK
    <2>5. CASE Regenerate(f)
      <3>1. regen[f] \/ Restoring(f)
        BY <2>5 DEF Regenerate, RegenRead, RegenDraw, RegenStore
      <3>2. flow[f] = "shown" /\ UNCHANGED <<flow, open, confirm, slots, unsent>>
        BY <2>5, <3>1 DEF Regenerate, RegenRead, RegenDraw, RegenStore
      <3>3. /\ api'.at \in {"idle", "draw", "store"}
            /\ api'.at # "idle" => api'.of = f
        BY <2>5 DEF Regenerate, RegenRead, RegenDraw, RegenStore, Idle
      <3>4. UNCHANGED regen \/ regen' = [regen EXCEPT ![f] = FALSE]
        BY <2>5 DEF Regenerate, RegenRead, RegenDraw, RegenStore, RegenAnswer
      <3> QED  BY <1>0, <3>2, <3>3, <3>4 DEF ClientOK
    <2> QED  BY <1>3, <2>1, <2>2, <2>3, <2>4, <2>5 DEF Api
  <1>4. ASSUME NEW f \in Flows, Worker(f) \/ TaskCrashes(f) \/ Cleanup(f) \/ CleanupDies(f)
        PROVE  Stages'
    BY <1>4 DEF Worker, TaskStarts, TaskReads, TaskDraws, TaskStores, TaskEnds, ReportRuns,
                TaskCrashes, Cleanup, CleanupFinds, CleanupDeletes, CleanupRemoves,
                CleanupDies, client
  <1>5. ASSUME NEW f \in Flows, User(f) PROVE Stages'
    <2>1. CASE Submit(f)
      BY <1>0, <2>1 DEF Submit, ClientOK, server
    <2>2. CASE Close(f) \/ ClickType(f)
      BY <1>0, <2>2 DEF Close, ClickType, ClientOK, server
    <2>3. CASE AnswerUpgrade(f)
      BY <1>0, <2>3 DEF AnswerUpgrade, ClientOK, server
    <2>4. ASSUME NEW m \in Modes, ClickConfirm(f, m) PROVE Stages'
      BY <1>0, <2>4 DEF ClickConfirm, ClientOK, server
    <2> QED  BY <1>5, <2>1, <2>2, <2>3, <2>4 DEF User
  <1>6. CASE NewForm \/ OtherLoading \/ OtherHides
    BY <1>6 DEF NewForm, OtherLoading, OtherHides, server
  <1>7. CASE Tick \/ UNCHANGED vars
    BY <1>7 DEF Tick, vars, client, server
  <1> QED  BY <1>1, <1>2, <1>3, <1>4, <1>5, <1>6, <1>7 DEF Next

\* So every reachable state is in order.
LEMMA StagesAlways == Spec => [](TypeOK /\ Stages)
  <1>1. Init => Stages
    <2>1. Init => api.at = "idle"
      BY DEF Init, Idle
    <2> QED  BY <2>1 DEF Init, Stages, Creating, Confirming, Restoring
  <1> QED  BY <1>1, TypeInit, TypeNext, StagesNext, PTL DEF Spec

---------------------------------------------------------------------------
(* The spinner. *)

\* No step leaves a spinner behind: who stops waiting hides his own.
LEMMA SpinnerNext == TypeOK /\ Stages /\ SpinnerIsWork /\ [Next]_vars => SpinnerIsWork'
  <1> SUFFICES ASSUME TypeOK, Stages, SpinnerIsWork, [Next]_vars PROVE SpinnerIsWork'
    OBVIOUS
  <1>0. ClientOK
    BY TypeParts
  <1> USE PreviewsAssumption DEF SpinnerIsWork
  <1>1. ASSUME NEW f \in Flows, FormHandler(f) PROVE SpinnerIsWork'
    <2>1. flow[f] \in Waiting /\ (confirm' = confirm)
      BY <1>1 DEF FormHandler, Analyzed, CreateAnswered, PollJob, AnalysisOver, Unreadable,
                  Fails, Shows, Waiting
    <2>2. ASSUME Fails(f) \/ Shows(f) PROVE SpinnerIsWork'
      BY <1>0, <2>1, <2>2 DEF Fails, Shows, Hide, ClientOK, None
    <2>3. ASSUME NEW s \in Waiting, flow' = [flow EXCEPT ![f] = s],
                 Loading(f, "flow") \/ UNCHANGED overlay
          PROVE  SpinnerIsWork'
      BY <1>0, <2>1, <2>3 DEF Loading, ClientOK
    <2>4. ASSUME UNCHANGED <<flow, overlay>> PROVE SpinnerIsWork'
      BY <2>1, <2>4
    <2> QED  BY <1>1, <2>2, <2>3, <2>4
             DEF FormHandler, Analyzed, CreateAnswered, PollJob, AnalysisOver, Unreadable,
                 Waiting
  <1>2. ASSUME NEW f \in Flows, ModalHandler(f) PROVE SpinnerIsWork'
    <2>1. CASE ConfirmAnswered(f)
      BY <1>0, <2>1 DEF ConfirmAnswered, Loading, ClientOK
    <2>2. CASE ConfirmFailed(f)
      BY <1>0, <2>2 DEF ConfirmFailed, ClientOK
    <2>3. CASE PollTask(f)
      BY <1>0, <2>3 DEF PollTask, Served, Hide, ClientOK, None
    <2>4. CASE Fetched(f)
      BY <1>0, <2>4 DEF Fetched, Served, Hide, ClientOK, None
    <2> QED  BY <1>2, <2>1, <2>2, <2>3, <2>4 DEF ModalHandler
  <1>3. ASSUME NEW f \in Flows, Api(f) PROVE SpinnerIsWork'
    <2>1. UNCHANGED overlay
      BY <1>3 DEF Api, Create, Mark, ConfirmRead, ConfirmQueue, Regenerate, RegenRead, RegenDraw,
                  RegenStore
    <2>2. CASE Create(f) \/ Mark(f)
      <3>1. \E s \in Waiting : flow' = [flow EXCEPT ![f] = s] \/ UNCHANGED flow
        BY <2>2 DEF Create, Mark, Waiting
      <3>2. UNCHANGED confirm
        BY <2>2 DEF Create, Mark
      <3> QED  BY <1>0, <2>1, <3>1, <3>2 DEF ClientOK
    <2>3. CASE ConfirmRead(f) \/ ConfirmQueue(f)
      <3>1. UNCHANGED flow /\ \E s : confirm' = [confirm EXCEPT ![f] = s] \/ UNCHANGED confirm
        BY <2>3 DEF ConfirmRead, ConfirmQueue
      <3>2. confirm[f] = "sent"
        BY <2>3 DEF ConfirmRead, ConfirmQueue, Stages, Confirming
      <3> QED  BY <1>0, <2>1, <3>1, <3>2 DEF ClientOK
    <2>4. CASE Regenerate(f)
      BY <2>1, <2>4 DEF Regenerate, RegenRead, RegenDraw, RegenStore
    <2> QED  BY <1>3, <2>2, <2>3, <2>4 DEF Api
  <1>4. ASSUME NEW f \in Flows, Worker(f) \/ TaskCrashes(f) \/ Cleanup(f) \/ CleanupDies(f)
        PROVE  SpinnerIsWork'
    <2>1. UNCHANGED client
      BY <1>4 DEF Worker, TaskStarts, TaskReads, TaskDraws, TaskStores, TaskEnds, ReportRuns,
                  TaskCrashes, Cleanup, CleanupFinds, CleanupDeletes, CleanupRemoves, CleanupDies
    <2> QED  BY <2>1 DEF client
  <1>5. ASSUME NEW f \in Flows, User(f) PROVE SpinnerIsWork'
    <2>1. CASE Submit(f)
      BY <1>0, <2>1 DEF Submit, Loading, ClientOK, Waiting
    <2>2. CASE Close(f) \/ ClickType(f)
      BY <2>2 DEF Close, ClickType
    <2>3. CASE AnswerUpgrade(f)
      BY <1>0, <2>3 DEF AnswerUpgrade, ClientOK
    <2>4. ASSUME NEW m \in Modes, ClickConfirm(f, m) PROVE SpinnerIsWork'
      BY <1>0, <2>4 DEF ClickConfirm, ClientOK
    <2> QED  BY <1>5, <2>1, <2>2, <2>3, <2>4 DEF User
  <1>6. CASE NewForm \/ OtherLoading \/ OtherHides
    BY <1>6 DEF NewForm, OtherLoading, OtherHides, Loading, Hide
  <1>7. CASE Tick \/ UNCHANGED vars
    BY <1>7 DEF Tick, vars, client
  <1> QED  BY <1>1, <1>2, <1>3, <1>4, <1>5, <1>6, <1>7 DEF Next

\* However many submissions overlap, a full-screen spinner is that of a flow or a
\* task that still runs (dashboard.js, download.js).
THEOREM SpinnerIsWorkAlways == Spec => []SpinnerIsWork
  <1>1. Init => SpinnerIsWork
    BY PreviewsAssumption DEF Init, SpinnerIsWork
  <1> QED  BY <1>1, StagesAlways, SpinnerNext, PTL DEF Spec

---------------------------------------------------------------------------
(* Records, files and jobs. *)

\* A job that is done has a state that was stored.
JobKnown == \A f \in Flows : task[f] = "done" => job[f] # None

\* The client's steps touch neither records nor tasks.
LEMMA ClientSteps ==
  ASSUME NEW f \in Flows,
         FormHandler(f) \/ ModalHandler(f) \/ User(f)
  PROVE  UNCHANGED <<server, past>>
  <1> USE DEF server, faults, past
  <1>1. CASE FormHandler(f)
    BY <1>1 DEF FormHandler, Analyzed, CreateAnswered, PollJob
  <1>2. CASE ModalHandler(f)
    BY <1>2 DEF ModalHandler, ConfirmAnswered, ConfirmFailed, PollTask, Fetched
  <1>3. CASE User(f)
    BY <1>3 DEF User, Submit, Close, ClickType, AnswerUpgrade, ClickConfirm
  <1> QED  BY <1>1, <1>2, <1>3

\* Time only takes records away, and no files.
LEMMA TickEffect ==
  ASSUME RecordsOK, Tick, NEW f \in Flows
  PROVE  /\ record'[f].ttl > 0 => record[f].ttl > 0
         /\ record'[f].disk = record[f].disk
  <1> DEFINE t == IF record[f].ttl = 0 THEN 0 ELSE record[f].ttl - 1
             a == IF record[f].disk # "none" /\ record[f].age <= TTL THEN record[f].age + 1
                  ELSE record[f].age
  <1>1. record'[f] = [record[f] EXCEPT !.ttl = t, !.age = a]
    BY DEF Tick
  <1>2. record[f] \in Records
    BY DEF RecordsOK
  <1>3. record'[f].ttl = t /\ record'[f].disk = record[f].disk
    <2> HIDE DEF t, a
    <2> QED  BY <1>1, <1>2 DEF Records
  <1>4. t > 0 => record[f].ttl > 0
    BY <1>2 DEF Records
  <1> HIDE DEF t
  <1> QED  BY <1>3, <1>4

\* Before its endpoint has run a flow has nothing on the server.
Fresh(f) == flow[f] \in {"idle", "ai", "create"} /\ ~Creating(f)

\* LivePreviewHasUpload, strengthened: whoever has read the upload and will store the
\* record still has it, and no cleanup is between its two deletions.
KeptOf(f) ==
  /\ Fresh(f) => record[f].disk = "none" /\ cleaner[f] = "idle" /\ task[f] = None
  /\ f \notin crossed /\ Alive(f) => record[f].disk = "upload" /\ cleaner[f] # "deleted"
  /\ f \notin crossed /\ Storing(f) => record[f].disk = "upload"

Kept == \A f \in Flows : KeptOf(f)

\* A step of one flow leaves the others as they were.
LEMMA KeptByOne ==
  ASSUME Kept, NEW f \in Flows, KeptOf(f)', crossed \subseteq crossed',
         \A g \in Flows \ {f} : /\ record'[g] = record[g] /\ cleaner'[g] = cleaner[g]
                                /\ task'[g] = task[g]
                                /\ Fresh(g)' => Fresh(g)
                                /\ Storing(g)' => Storing(g)
  PROVE  Kept'
  BY DEF Kept, KeptOf, Alive

\* The endpoints keep it.
LEMMA KeptByApi ==
  ASSUME TypeOK, Stages, Kept, NEW f \in Flows, Api(f)
  PROVE  Kept'
  <1>0. ClientOK /\ RecordsOK /\ ServerOK /\ FaultsOK /\ KeptOf(f)
    BY TypeParts DEF Kept
  <1>r. record[f] \in Records
    BY <1>0 DEF RecordsOK
  <1> USE PreviewsAssumption
  <1>1. CASE Create(f)
    <2>1. Fresh(f) /\ api.at = "idle" /\ UNCHANGED <<cleaner, crossed>>
      BY <1>1 DEF Create, Fresh, Creating, Idle, faults, past
    <2>2. record[f].disk = "none" /\ cleaner[f] = "idle" /\ task[f] = None
      BY <1>0, <2>1 DEF KeptOf
    <2>3. \A g \in Flows \ {f} : record'[g] = record[g] /\ task'[g] = task[g] /\ flow'[g] = flow[g]
      BY <1>0, <1>1 DEF Create, RecordsOK, ServerOK, ClientOK
    <2>4. api'.at \in {"idle", "create"} /\ task'[f] \in {None, "queued"}
      BY <1>0, <1>1, <2>1, <2>2 DEF Create, ServerOK
    <2>5. ~Fresh(f)'
      BY <1>0, <1>1 DEF Create, Fresh, Creating, ClientOK
    <2>6. record'[f] = record[f] \/ record'[f].disk = "upload"
      BY <1>0, <1>1, <1>r DEF Create, RecordsOK, Records
    <2>7. KeptOf(f)'
      BY <1>0, <2>1, <2>2, <2>4, <2>5, <2>6 DEF KeptOf, Storing, Alive, None
    <2>8. \A g \in Flows \ {f} : (Fresh(g)' => Fresh(g)) /\ (Storing(g)' => Storing(g))
      BY <2>1, <2>3, <2>4 DEF Fresh, Creating, Storing
    <2> QED  BY <2>1, <2>3, <2>7, <2>8, KeptByOne
  <1>2. CASE Mark(f)
    <2>1. api'.at = "idle" /\ UNCHANGED <<record, cleaner, task, crossed>>
      BY <1>2 DEF Mark, Idle
    <2>2. flow' = [flow EXCEPT ![f] = "accepted"] /\ Creating(f)
      BY <1>2 DEF Mark, Creating
    <2>3. \A g \in Flows : (Fresh(g)' => Fresh(g)) /\ (Storing(g)' => Storing(g))
      BY <1>0, <2>1, <2>2 DEF Fresh, Creating, Storing, ClientOK
    <2> QED  BY <2>1, <2>3 DEF Kept, KeptOf, Alive
  <1>3. CASE ConfirmRead(f) \/ ConfirmQueue(f)
    <2>1. /\ api'.at \in {"idle", "confirm"} /\ api.at \in {"idle", "confirm"}
          /\ UNCHANGED <<flow, cleaner, task, crossed>>
      BY <1>3 DEF ConfirmRead, ConfirmQueue, Idle, faults, past
    <2>2. \A g \in Flows : /\ record'[g].disk = record[g].disk
                           /\ Alive(g)' => Alive(g)
      <3>1. record' = [record EXCEPT ![f].ttl = 0] \/ UNCHANGED record
        BY <1>3 DEF ConfirmRead, ConfirmQueue
      <3> QED  BY <1>0, <3>1 DEF RecordsOK, Records, Alive
    <2>3. \A g \in Flows : (Fresh(g)' => Fresh(g)) /\ (Storing(g)' => Storing(g))
      BY <2>1 DEF Fresh, Creating, Storing
    <2> QED  BY <2>1, <2>2, <2>3 DEF Kept, KeptOf
  <1>4. CASE RegenRead(f)
    <2>1. /\ UNCHANGED <<flow, record, cleaner, task, crossed>>
          /\ api.at = "idle"
          /\ UNCHANGED api \/ (api' = [at |-> "draw", of |-> f] /\ record[f].disk = "upload")
      BY <1>4 DEF RegenRead, Idle, faults, past
    <2>2. \A g \in Flows : Fresh(g)' => Fresh(g)
      BY <2>1 DEF Fresh, Creating
    <2>3. \A g \in Flows \ {f} : Storing(g)' => Storing(g)
      BY <2>1 DEF Storing
    <2>4. KeptOf(f)'
      BY <1>0, <2>1, <2>2 DEF KeptOf, Storing, Alive
    <2> QED  BY <2>1, <2>2, <2>3, <2>4, KeptByOne
  <1>5. CASE RegenDraw(f)
    <2>1. /\ UNCHANGED <<flow, cleaner, task, crossed>>
          /\ Restoring(f) /\ ~Fresh(f)
          /\ api' = Idle \/ api' = [at |-> "store", of |-> f]
      BY <1>5 DEF RegenDraw, faults, past, Restoring, Stages, Fresh
    <2>2. \A g \in Flows : (Fresh(g)' => Fresh(g)) /\ (Storing(g)' => Storing(g))
      BY <2>1 DEF Fresh, Creating, Storing, Idle, Restoring
    <2>3. /\ \A g \in Flows \ {f} : record'[g] = record[g]
          /\ record'[f].ttl = record[f].ttl
          /\ record[f].disk = "upload" => record'[f].disk = "upload"
      <3>1. Draws(f) \/ UNCHANGED record
        BY <1>5 DEF RegenDraw
      <3> QED  BY <1>0, <3>1, DrawsEffect
    <2>4. KeptOf(f)'
      BY <1>0, <2>1, <2>2, <2>3 DEF KeptOf, Alive
    <2> QED  BY <2>1, <2>2, <2>3, <2>4, KeptByOne
  <1>6. CASE RegenStore(f)
    <2>1. /\ UNCHANGED <<flow, cleaner, task>> /\ crossed \subseteq crossed'
          /\ Storing(f) /\ ~Fresh(f) /\ api'.at = "idle"
          /\ cleaner[f] = "deleted" => f \in crossed'
      BY <1>6 DEF RegenStore, Stores, Storing, Restoring, Stages, Fresh, Idle
    <2>2. \A g \in Flows : (Fresh(g)' => Fresh(g)) /\ (Storing(g)' => Storing(g))
      BY <1>6, <2>1 DEF RegenStore, Fresh, Creating, Storing
    <2>3. /\ \A g \in Flows \ {f} : record'[g] = record[g]
          /\ record'[f].disk = record[f].disk
      BY <1>0, <1>6, StoresEffect DEF RegenStore
    <2>4. KeptOf(f)'
      BY <1>0, <2>1, <2>2, <2>3 DEF KeptOf, Alive
    <2> QED  BY <2>1, <2>2, <2>3, <2>4, KeptByOne
  <1> QED  BY <1>1, <1>2, <1>3, <1>4, <1>5, <1>6 DEF Api, Regenerate

\* So do the workers, and the cleanup in whatever step of theirs it falls.
LEMMA KeptByWorkers ==
  ASSUME TypeOK, Stages, Kept, NEW f \in Flows,
         Worker(f) \/ TaskCrashes(f) \/ Cleanup(f) \/ CleanupDies(f)
  PROVE  Kept'
  <1>0. RecordsOK /\ ServerOK /\ FaultsOK /\ KeptOf(f)
    BY TypeParts DEF Kept
  <1>f. UNCHANGED <<flow, api>>
    BY DEF Worker, TaskStarts, TaskReads, TaskDraws, TaskStores, TaskEnds, ReportRuns,
           TaskCrashes, Cleanup, CleanupFinds, CleanupDeletes, CleanupRemoves, CleanupDies,
           client
  <1>g. \A g \in Flows : Fresh(g)' => Fresh(g)
    BY <1>f DEF Fresh, Creating
  <1> USE PreviewsAssumption
  <1>1. CASE TaskStarts(f) \/ TaskEnds(f) \/ TaskCrashes(f) \/ ReportRuns(f)
    <2>1. UNCHANGED <<record, cleaner, crossed>>
      BY <1>1 DEF TaskStarts, TaskEnds, TaskCrashes, ReportRuns, faults, past
    <2>2. \/ UNCHANGED task
          \/ /\ task[f] # None
             /\ \E s \in {"queued", "running", "done"} : task' = [task EXCEPT ![f] = s]
      BY <1>1 DEF TaskStarts, TaskEnds, TaskCrashes, ReportRuns, None
    <2>3. /\ \A g \in Flows : Storing(g)' => Storing(g)
          /\ \A g \in Flows : Fresh(g)' => task'[g] = None
      BY <1>0, <1>f, <1>g, <2>2 DEF Storing, ServerOK, Kept, KeptOf
    <2> QED  BY <1>g, <2>1, <2>3 DEF Kept, KeptOf, Alive
  <1>2. CASE TaskReads(f)
    <2>1. UNCHANGED <<record, cleaner, crossed>> /\ task[f] = "running" /\ record[f].disk = "upload"
      BY <1>2 DEF TaskReads, faults, past
    <2>2. \A g \in Flows \ {f} : task'[g] = task[g]
      BY <1>0, <1>2 DEF TaskReads, ServerOK
    <2>3. \A g \in Flows \ {f} : Storing(g)' => Storing(g)
      BY <1>f, <2>2 DEF Storing
    <2>4. KeptOf(f)'
      BY <1>0, <1>g, <2>1 DEF KeptOf, Alive, None
    <2> QED  BY <1>g, <2>1, <2>2, <2>3, <2>4, KeptByOne
  <1>3. CASE TaskDraws(f)
    <2>1. UNCHANGED <<cleaner, crossed>> /\ task[f] = "read" /\ Storing(f)
      BY <1>3 DEF TaskDraws, faults, past, Storing
    <2>2. \A g \in Flows \ {f} : task'[g] = task[g]
      BY <1>0, <1>3 DEF TaskDraws, ServerOK
    <2>3. \A g \in Flows \ {f} : Storing(g)' => Storing(g)
      BY <1>f, <2>2 DEF Storing
    <2>4. /\ \A g \in Flows \ {f} : record'[g] = record[g]
          /\ record'[f].ttl = record[f].ttl
          /\ record[f].disk = "upload" => record'[f].disk = "upload"
      <3>1. Draws(f) \/ UNCHANGED record
        BY <1>3 DEF TaskDraws
      <3> QED  BY <1>0, <3>1, DrawsEffect
    <2>5. KeptOf(f)'
      BY <1>0, <1>g, <2>1, <2>4 DEF KeptOf, Alive, None
    <2> QED  BY <1>g, <2>1, <2>2, <2>3, <2>4, <2>5, KeptByOne
  <1>4. CASE TaskStores(f)
    <2>1. /\ UNCHANGED cleaner /\ task[f] = "drawn" /\ Storing(f) /\ crossed \subseteq crossed'
          /\ cleaner[f] = "deleted" => f \in crossed'
      BY <1>4 DEF TaskStores, Stores, Storing
    <2>2. \A g \in Flows \ {f} : task'[g] = task[g]
      BY <1>0, <1>4 DEF TaskStores, ServerOK
    <2>3. \A g \in Flows \ {f} : Storing(g)' => Storing(g)
      BY <1>f, <2>2 DEF Storing
    <2>4. /\ \A g \in Flows \ {f} : record'[g] = record[g]
          /\ record'[f].disk = record[f].disk
      BY <1>0, <1>4, StoresEffect DEF TaskStores
    <2>5. KeptOf(f)'
      BY <1>0, <1>g, <2>1, <2>4 DEF KeptOf, Alive, None
    <2> QED  BY <1>g, <2>1, <2>2, <2>3, <2>4, <2>5, KeptByOne
  <1>5. CASE CleanupFinds(f) \/ CleanupDies(f)
    <2>1. UNCHANGED <<record, task, crossed>>
      BY <1>5 DEF CleanupFinds, CleanupDies, faults, past
    <2>2. /\ cleaner[f] # "idle" \/ record[f].disk # "none"
          /\ \E s \in {"idle", "due"} : cleaner' = [cleaner EXCEPT ![f] = s]
      BY <1>5 DEF CleanupFinds, CleanupDies
    <2>3. \A g \in Flows : /\ Storing(g)' => Storing(g)
                           /\ cleaner'[g] = "deleted" => cleaner[g] = "deleted"
                           /\ Fresh(g)' => cleaner'[g] = "idle"
      BY <1>0, <1>f, <1>g, <2>1, <2>2 DEF Storing, ServerOK, Kept, KeptOf
    <2> QED  BY <1>g, <2>1, <2>3 DEF Kept, KeptOf, Alive
  <1>6. CASE CleanupDeletes(f)
    <2>1. UNCHANGED <<task, crossed>> /\ cleaner[f] = "due"
      BY <1>6 DEF CleanupDeletes, faults, past
    <2>2. /\ \A g \in Flows \ {f} : record'[g] = record[g] /\ cleaner'[g] = cleaner[g]
          /\ record'[f].disk = record[f].disk /\ record'[f].ttl = 0
      BY <1>0, <1>6 DEF CleanupDeletes, RecordsOK, Records, ServerOK
    <2>3. \A g \in Flows : Storing(g)' => Storing(g)
      BY <1>f, <2>1 DEF Storing
    <2>4. KeptOf(f)'
      BY <1>0, <1>g, <2>1, <2>2, <2>3 DEF KeptOf, Alive
    <2> QED  BY <1>g, <2>1, <2>2, <2>3, <2>4, KeptByOne
  <1>7. CASE CleanupRemoves(f)
    <2>1. /\ UNCHANGED task /\ cleaner[f] = "deleted" /\ crossed \subseteq crossed'
          /\ Storing(f) => f \in crossed'
      BY <1>7 DEF CleanupRemoves
    <2>2. \A g \in Flows \ {f} : cleaner'[g] = cleaner[g]
      BY <1>0, <1>7 DEF CleanupRemoves, ServerOK
    <2>3. /\ \A g \in Flows \ {f} : record'[g] = record[g]
          /\ record'[f].ttl = record[f].ttl
      BY <1>0, <1>7, RemovesEffect
    <2>4. \A g \in Flows : Storing(g)' => Storing(g)
      BY <1>f, <2>1 DEF Storing
    <2>5. KeptOf(f)'
      BY <1>0, <1>g, <2>1, <2>3, <2>4 DEF KeptOf, Alive
    <2> QED  BY <1>g, <2>1, <2>2, <2>3, <2>4, <2>5, KeptByOne
  <1> QED  BY <1>1, <1>2, <1>3, <1>4, <1>5, <1>6, <1>7 DEF Worker, Cleanup

\* So does everybody.
LEMMA KeptNext == TypeOK /\ Stages /\ Kept /\ [Next]_vars => Kept'
  <1> SUFFICES ASSUME TypeOK, Stages, Kept, [Next]_vars PROVE Kept'
    OBVIOUS
  <1>0. ClientOK /\ RecordsOK
    BY TypeParts
  <1>1. ASSUME UNCHANGED <<cleaner, task, api, crossed>>,
               \A g \in Flows : /\ record'[g].disk = record[g].disk
                                /\ Alive(g)' => Alive(g)
                                /\ Fresh(g)' => Fresh(g)
        PROVE  Kept'
    BY <1>1 DEF Kept, KeptOf, Storing
  <1>2. ASSUME NEW f \in Flows, FormHandler(f) \/ ModalHandler(f) \/ User(f) PROVE Kept'
    <2>1. UNCHANGED <<server, crossed>>
      BY <1>2, ClientSteps DEF past
    <2>2. UNCHANGED flow
            \/ \E s : /\ flow' = [flow EXCEPT ![f] = s]
                      /\ s \in {"idle", "ai", "create"} => flow[f] \in {"idle", "ai"}
      BY <1>2
      DEF FormHandler, Analyzed, CreateAnswered, PollJob, AnalysisOver, Unreadable, Fails,
          Shows, ModalHandler, ConfirmAnswered, ConfirmFailed, PollTask, Fetched, User,
          Submit, Close, ClickType, AnswerUpgrade, ClickConfirm
    <2>3. \A g \in Flows : Fresh(g)' => Fresh(g)
      BY <1>0, <2>1, <2>2 DEF Fresh, Creating, ClientOK, server, Stages
    <2> QED  BY <1>1, <2>1, <2>3 DEF server, Alive
  <1>3. CASE Tick
    <2>1. \A g \in Flows : /\ record'[g].disk = record[g].disk
                           /\ Alive(g)' => Alive(g)
      BY <1>0, <1>3, TickEffect DEF Alive
    <2> QED  BY <1>1, <1>3, <2>1 DEF Tick, client, faults, past, Fresh, Creating
  <1>4. CASE NewForm \/ OtherLoading \/ OtherHides \/ UNCHANGED vars
    BY <1>1, <1>4 DEF NewForm, OtherLoading, OtherHides, vars, client, server, faults, past,
                      Fresh, Creating, Alive
  <1> QED  BY <1>2, <1>3, <1>4, KeptByApi, KeptByWorkers DEF Next

\* A preview that can be confirmed has its upload on disk, whoever restores, expires
\* or cleans, unless the cleanup crossed a store (cache.py, preview.py, tasks.py).
THEOREM LivePreviewHasUploadAlways == Spec => []LivePreviewHasUpload
  <1>1. Init => Kept
    <2>1. Gone.ttl = 0 /\ Gone.disk = "none"
      BY DEF Gone
    <2> QED  BY <2>1 DEF Init, Kept, KeptOf, Alive, Storing, Idle, None
  <1>2. Kept => LivePreviewHasUpload
    BY DEF Kept, KeptOf, LivePreviewHasUpload
  <1> QED  BY <1>1, <1>2, StagesAlways, KeptNext, PTL DEF Spec

\* A job stored as processing is processed.
LEMMA ProcessingNext ==
  TypeOK /\ JobKnown /\ ProcessingIsTrue /\ [Next]_vars => JobKnown' /\ ProcessingIsTrue'
  <1> SUFFICES ASSUME TypeOK, JobKnown, ProcessingIsTrue, [Next]_vars
               PROVE  JobKnown' /\ ProcessingIsTrue'
    OBVIOUS
  <1>0. ServerOK
    BY TypeParts
  <1> USE DEF JobKnown, ProcessingIsTrue
  <1>1. ASSUME UNCHANGED <<job, task, overtaken>> PROVE JobKnown' /\ ProcessingIsTrue'
    BY <1>1
  <1>2. ASSUME NEW f \in Flows, NEW s \in {"queued", "running", "read", "drawn", "stored"},
               task' = [task EXCEPT ![f] = s], UNCHANGED <<job, overtaken>>
        PROVE  JobKnown' /\ ProcessingIsTrue'
    BY <1>0, <1>2 DEF ServerOK
  <1>3. ASSUME NEW f \in Flows,
               \/ Create(f) \/ TaskStarts(f) \/ TaskReads(f) \/ TaskDraws(f)
               \/ TaskStores(f) \/ TaskCrashes(f)
        PROVE  JobKnown' /\ ProcessingIsTrue'
    BY <1>1, <1>2, <1>3
    DEF Create, TaskStarts, TaskReads, TaskDraws, TaskStores, TaskCrashes, faults, past
  <1>4. ASSUME NEW f \in Flows, Mark(f) PROVE JobKnown' /\ ProcessingIsTrue'
    BY <1>0, <1>4 DEF Mark, ServerOK, None
  <1>5. ASSUME NEW f \in Flows, TaskEnds(f) PROVE JobKnown' /\ ProcessingIsTrue'
    BY <1>0, <1>5 DEF TaskEnds, ServerOK, None, faults, past
  <1>6. ASSUME NEW f \in Flows, FormHandler(f) \/ ModalHandler(f) \/ User(f)
        PROVE  JobKnown' /\ ProcessingIsTrue'
    BY <1>1, <1>6, ClientSteps DEF server, past
  <1>7. ASSUME NEW f \in Flows,
               \/ ConfirmRead(f) \/ ConfirmQueue(f) \/ Regenerate(f) \/ ReportRuns(f)
               \/ Cleanup(f) \/ CleanupDies(f)
        PROVE  JobKnown' /\ ProcessingIsTrue'
    BY <1>1, <1>7
    DEF ConfirmRead, ConfirmQueue, Regenerate, RegenRead, RegenDraw, RegenStore, ReportRuns,
        Cleanup, CleanupFinds, CleanupDeletes, CleanupRemoves, CleanupDies, faults, past
  <1>8. CASE NewForm \/ OtherLoading \/ OtherHides \/ Tick \/ UNCHANGED vars
    BY <1>1, <1>8 DEF NewForm, OtherLoading, OtherHides, Tick, vars, server, faults, past
  <1> QED  BY <1>3, <1>4, <1>5, <1>6, <1>7, <1>8 DEF Next, Api, Worker

\* The client is told that a preview is being made only while it is, unless the
\* endpoint said so after the worker was done (preview.py, tasks.py).
THEOREM ProcessingIsTrueAlways == Spec => []ProcessingIsTrue
  <1>1. Init => JobKnown /\ ProcessingIsTrue
    BY DEF Init, JobKnown, ProcessingIsTrue, None
  <1> QED  BY <1>1, TypeInit, TypeNext, ProcessingNext, PTL DEF Spec

---------------------------------------------------------------------------
(* Slots. *)

\* A slot the broker wasted was taken, and a preview that can be confirmed, is being
\* confirmed or has a chart drawn again, has cost no other slot yet unless it was opened
\* again.
Open(f) == Alive(f) \/ Confirming(f) \/ Restoring(f)

Accounts ==
  \A f \in Flows : /\ unsent[f] <= slots[f]
                   /\ f \notin again /\ Open(f) => slots[f] = unsent[f]

\* Every step keeps the accounts: the one that takes a slot for a report deletes
\* the record, the ones that store a record find none taken.
LEMMA AccountsNext == TypeOK /\ Stages /\ Accounts /\ [Next]_vars => Accounts'
  <1> SUFFICES ASSUME TypeOK, Stages, Accounts, [Next]_vars PROVE Accounts'
    OBVIOUS
  <1>0. RecordsOK /\ ServerOK /\ FaultsOK
    BY TypeParts
  <1> USE PreviewsAssumption DEF Accounts, Open, Alive, Confirming, Restoring
  <1>1. ASSUME UNCHANGED <<slots, unsent, again>>, \A f \in Flows : Open(f)' => Open(f)
        PROVE  Accounts'
    BY <1>0, <1>1 DEF ServerOK
  <1>2. ASSUME NEW f \in Flows, Create(f) PROVE Accounts'
    <2>1. slots[f] = 0 /\ unsent[f] = 0
      BY <1>2 DEF Create, Stages
    <2>2. \A g \in Flows \ {f} : record'[g] = record[g]
      BY <1>0, <1>2 DEF Create, RecordsOK
    <2>3. api'.at \in {"idle", "create"} /\ UNCHANGED <<slots, unsent, again>>
      BY <1>2 DEF Create, Idle, faults, past
    <2> QED  BY <1>0, <2>1, <2>2, <2>3 DEF ServerOK
  <1>3. ASSUME NEW f \in Flows, Mark(f) PROVE Accounts'
    <2>1. api'.at = "idle"
      BY <1>3 DEF Mark, Idle
    <2> QED  BY <1>1, <1>3, <2>1 DEF Mark
  <1>4. ASSUME NEW f \in Flows, ConfirmRead(f) PROVE Accounts'
    <2>1. UNCHANGED api \/ (Alive(f) /\ api'.of = f)
      BY <1>4 DEF ConfirmRead
    <2> QED  BY <1>1, <1>4, <2>1 DEF ConfirmRead, faults, past
  <1>5. ASSUME NEW f \in Flows, ConfirmQueue(f) PROVE Accounts'
    <2>1. Confirming(f) /\ api'.at = "idle"
      BY <1>5 DEF ConfirmQueue, Idle
    <2>2. slots' = [slots EXCEPT ![f] = @ + 1]
      BY <1>5 DEF ConfirmQueue
    <2>3. CASE record' = [record EXCEPT ![f].ttl = 0] /\ UNCHANGED <<unsent, again>>
      BY <1>0, <2>1, <2>2, <2>3 DEF ServerOK, RecordsOK, Records
    <2>4. CASE unsent[f] = 0 /\ unsent' = [unsent EXCEPT ![f] = 1]
                 /\ UNCHANGED <<record, again>>
      BY <1>0, <2>1, <2>2, <2>4 DEF ServerOK
    <2>5. CASE again' = again \cup {f} /\ UNCHANGED <<record, unsent>>
      BY <1>0, <2>1, <2>2, <2>5 DEF ServerOK
    <2> QED  BY <1>5, <2>3, <2>4, <2>5 DEF ConfirmQueue
  <1>6. ASSUME NEW f \in Flows, Regenerate(f) PROVE Accounts'
    <2>1. UNCHANGED <<slots, unsent, again>>
      BY <1>6 DEF Regenerate, RegenRead, RegenDraw, RegenStore, faults, past
    <2>2. CASE RegenRead(f)
      BY <1>1, <2>1, <2>2 DEF RegenRead
    <2>3. CASE RegenDraw(f)
      <3>1. \A g \in Flows : record'[g].ttl = record[g].ttl
        <4>1. Draws(f) \/ UNCHANGED record
          BY <2>3 DEF RegenDraw
        <4> QED  BY <1>0, <4>1, DrawsEffect
      <3>2. api.of = f /\ api.at = "draw" /\ (api'.at = "idle" \/ api'.of = f)
        BY <2>3 DEF RegenDraw, Idle
      <3> QED  BY <1>1, <2>1, <2>3, <3>1, <3>2 DEF RegenDraw, Idle
    <2>4. CASE RegenStore(f)
      <3>1. \A g \in Flows \ {f} : record'[g] = record[g]
        BY <1>0, <2>4, StoresEffect DEF RegenStore
      <3>2. api.of = f /\ api.at = "store" /\ api'.at = "idle"
        BY <2>4 DEF RegenStore, Idle
      <3> QED  BY <1>1, <2>1, <3>1, <3>2
    <2> QED  BY <1>6, <2>2, <2>3, <2>4 DEF Regenerate
  <1>7. ASSUME NEW f \in Flows, TaskStores(f) PROVE Accounts'
    <2>1. \A g \in Flows \ {f} : record'[g] = record[g]
      BY <1>0, <1>7, StoresEffect DEF TaskStores
    <2>2. /\ UNCHANGED <<slots, unsent, api>>
          /\ again' = IF slots[f] > 0 THEN again \cup {f} ELSE again
      BY <1>7 DEF TaskStores
    <2> QED  BY <1>0, <2>1, <2>2 DEF ServerOK
  <1>8. ASSUME NEW f \in Flows, CleanupDeletes(f) \/ CleanupRemoves(f) \/ TaskDraws(f)
        PROVE  Accounts'
    <2>1. \A g \in Flows : record'[g].ttl > 0 => record[g].ttl > 0
      <3>1. CASE CleanupDeletes(f)
        BY <1>0, <3>1 DEF CleanupDeletes, RecordsOK, Records
      <3>2. Draws(f) \/ UNCHANGED record \/ CleanupRemoves(f) \/ CleanupDeletes(f)
        BY <1>8 DEF TaskDraws
      <3> QED  BY <1>0, <3>1, <3>2, DrawsEffect, RemovesEffect
    <2> QED
      BY <1>1, <1>8, <2>1 DEF CleanupDeletes, CleanupRemoves, TaskDraws, faults, past
  <1>9. CASE Tick
    <2>1. \A g \in Flows : record'[g].ttl > 0 => record[g].ttl > 0
      BY <1>0, <1>9, TickEffect
    <2> QED  BY <1>1, <1>9, <2>1 DEF Tick, faults, past
  <1>10. ASSUME NEW f \in Flows, FormHandler(f) \/ ModalHandler(f) \/ User(f)
         PROVE  Accounts'
    BY <1>1, <1>10, ClientSteps DEF server, past
  <1>11. ASSUME NEW f \in Flows,
                \/ TaskStarts(f) \/ TaskReads(f) \/ TaskEnds(f) \/ ReportRuns(f)
                \/ TaskCrashes(f) \/ CleanupFinds(f) \/ CleanupDies(f)
         PROVE  Accounts'
    BY <1>1, <1>11 DEF TaskStarts, TaskReads, TaskEnds, ReportRuns, TaskCrashes,
                       CleanupFinds, CleanupDies, faults, past
  <1>12. CASE NewForm \/ OtherLoading \/ OtherHides \/ UNCHANGED vars
    BY <1>1, <1>12 DEF NewForm, OtherLoading, OtherHides, vars, server, faults, past
  <1> QED  BY <1>2, <1>3, <1>4, <1>5, <1>6, <1>7, <1>8, <1>9, <1>10, <1>11, <1>12
           DEF Next, Api, Worker, Cleanup

\* One slot for a report and none without, as the order has it, and counted.
OnceCounted ==
  /\ report \in [Flows -> {None, "queued", "success", "failure"}]
  /\ slots \in [Flows -> Nat] /\ unsent \in [Flows -> Nat]
  /\ Order!PaidOnce

\* The order keeps it.
LEMMA OnceCountedNext == OnceCounted /\ [Order!Next]_Order!vars => OnceCounted'
  <1> SUFFICES ASSUME OnceCounted, [Order!Next]_Order!vars PROVE OnceCounted'
    OBVIOUS
  <1> USE DEF OnceCounted, Order!PaidOnce
  <1>1. ASSUME NEW o \in Flows, Order!Make(o) PROVE OnceCounted'
    BY <1>1 DEF Order!Make, Order!Takes, None
  <1>2. ASSUME NEW o \in Flows, Order!Waste(o) PROVE OnceCounted'
    BY <1>2 DEF Order!Waste, Order!Takes, None
  <1>3. ASSUME NEW o \in Flows, Order!Finish(o) PROVE OnceCounted'
    BY <1>3 DEF Order!Finish, None
  <1>4. ASSUME NEW o \in Flows, Order!Reopen(o) PROVE OnceCounted'
    BY <1>4 DEF Order!Reopen, None
  <1>5. CASE UNCHANGED Order!vars
    BY <1>5 DEF Order!vars
  <1> QED  BY <1>1, <1>2, <1>3, <1>4, <1>5 DEF Order!Next

\* Who confirms a preview finds an order without a report, or one opened again: so
\* every step is one of the orders', or none.
LEMMA OrderNext == TypeOK /\ Accounts /\ OnceCounted /\ [Next]_vars => [Order!Next]_Order!vars
  <1> SUFFICES ASSUME TypeOK, Accounts, OnceCounted, [Next]_vars
               PROVE  [Order!Next]_Order!vars
    OBVIOUS
  <1>0. ServerOK
    BY TypeParts
  <1>u. ASSUME UNCHANGED <<report, slots, unsent, again>> PROVE UNCHANGED Order!vars
    BY <1>u DEF Order!vars
  <1>1. ASSUME NEW f \in Flows, ConfirmQueue(f) PROVE Order!Make(f) \/ Order!Waste(f)
    <2>1. report[f] = None \/ f \in again
      BY <1>0, <1>1
      DEF ConfirmQueue, Accounts, Open, Confirming, OnceCounted, Order!PaidOnce, ServerOK
    <2>2. slots' = [slots EXCEPT ![f] = @ + 1]
      BY <1>1 DEF ConfirmQueue
    <2>3. \/ report' = [report EXCEPT ![f] = "queued"] /\ UNCHANGED <<unsent, again>>
          \/ unsent' = [unsent EXCEPT ![f] = @ + 1] /\ UNCHANGED <<report, again>>
          \/ /\ report' = [report EXCEPT ![f] = "queued"] /\ again' = again \cup {f}
             /\ UNCHANGED unsent
      BY <1>1 DEF ConfirmQueue
    <2> QED  BY <2>1, <2>2, <2>3 DEF Order!Make, Order!Waste, Order!Takes
  <1>2. ASSUME NEW f \in Flows, TaskStores(f) PROVE Order!Reopen(f) \/ UNCHANGED Order!vars
    BY <1>2 DEF TaskStores, Order!Reopen, Order!vars
  <1>3. ASSUME NEW f \in Flows, ReportRuns(f) PROVE Order!Finish(f)
    BY <1>3 DEF ReportRuns, Order!Finish, faults, past
  <1>4. ASSUME NEW f \in Flows, FormHandler(f) \/ ModalHandler(f) \/ User(f)
        PROVE  UNCHANGED <<report, slots, unsent, again>>
    BY <1>4, ClientSteps DEF server, past
  <1>5. ASSUME NEW f \in Flows,
               \/ Create(f) \/ Mark(f) \/ ConfirmRead(f) \/ Regenerate(f)
               \/ TaskStarts(f) \/ TaskReads(f) \/ TaskDraws(f) \/ TaskEnds(f)
               \/ TaskCrashes(f) \/ Cleanup(f) \/ CleanupDies(f)
        PROVE  UNCHANGED <<report, slots, unsent, again>>
    BY <1>5 DEF Create, Mark, ConfirmRead, Regenerate, RegenRead, RegenDraw, RegenStore,
                TaskStarts, TaskReads, TaskDraws, TaskEnds, TaskCrashes, Cleanup,
                CleanupFinds, CleanupDeletes, CleanupRemoves, CleanupDies, faults, past
  <1>6. CASE Tick \/ NewForm \/ OtherLoading \/ OtherHides \/ UNCHANGED vars
    BY <1>6, <1>u DEF Tick, NewForm, OtherLoading, OtherHides, vars, server, faults, past
  <1> QED  BY <1>1, <1>2, <1>3, <1>4, <1>5, <1>6, <1>u DEF Next, Api, Worker, Order!Next

\* For any flows, polls, dead workers and times to live, a preview is an order:
\* whatever answers are lost, clicked twice or delivered again (preview.py, tasks.py).
THEOREM OrdersKeptAlways == Spec => OrdersKept
  <1>1. Init => Accounts /\ OnceCounted /\ Order!Init
    BY DEF Init, Accounts, OnceCounted, Order!PaidOnce, Order!Init
  <1> QED
    BY <1>1, StagesAlways, AccountsNext, OrderNext, OnceCountedNext, PTL
    DEF Spec, OrdersKept, Order!Spec

\* An order is paid for once, and never more than once for a report unless it was
\* opened again.
THEOREM OrderPaidOnce == Order!Spec => []Order!PaidOnce
  <1>1. Order!Init => OnceCounted
    BY DEF Order!Init, OnceCounted, Order!PaidOnce
  <1>2. OnceCounted => Order!PaidOnce
    BY DEF OnceCounted
  <1> QED  BY <1>1, <1>2, OnceCountedNext, PTL DEF Order!Spec

\* So a preview takes one slot unless it was opened again.
THEOREM OncePerPreviewAlways == Spec => []OncePerPreview
  <1>1. TypeOK /\ Order!PaidOnce => OncePerPreview
    <2> SUFFICES ASSUME TypeOK, Order!PaidOnce, NEW f \in Flows \ again
                 PROVE  slots[f] - unsent[f] <= 1
      BY DEF OncePerPreview
    <2>1. slots[f] \in Nat /\ unsent[f] \in Nat
      BY TypeParts DEF ServerOK
    <2>2. slots[f] = unsent[f] \/ slots[f] = unsent[f] + 1
      BY DEF Order!PaidOnce
    <2> QED  BY <2>1, <2>2
  <1> QED  BY <1>1, StagesAlways, OrdersKeptAlways, OrderPaidOnce, PTL DEF OrdersKept
=============================================================================
