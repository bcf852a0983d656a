---------------------------- MODULE VoiceReports ----------------------------
(***************************************************************************)
(* Reports by voice: the recorder of the voice page (its state outlives    *)
(* the page), the handlers of its buttons, the endpoints with their        *)
(* clarification sessions in Redis, and the Celery task.                   *)
(*                                                                         *)
(* The endpoints run without awaiting from the first look at Redis to the  *)
(* answer, so each of them is one action.  What a slot is and how a task   *)
(* gives it back is in ReportSlots.                                        *)
(***************************************************************************)
EXTENDS Naturals, FiniteSets

CONSTANTS
  Requests,  \* voice requests: what one recording or one file starts
  Mics,      \* microphone streams the browser can hand out
  MaxPolls,  \* turns of pollVoiceTask (120)
  MaxFiles,  \* bound: files the user chooses
  MaxLeaves  \* bound: times the user leaves the page

None == "none"

ASSUME VoiceReportsAssumption ==
  /\ None \notin Requests \cup Mics
  /\ MaxPolls \in Nat \ {0} /\ MaxFiles \in Nat /\ MaxLeaves \in Nat

VARIABLES
  asked,     \* stream -> is the browser asked for it, by the page on the screen or one gone ?
  mic,       \* stream -> its MediaRecorder: none, recording, about to tell that it stopped, done
  streams,   \* open microphones
  recorder,  \* mediaRecorder: the stream of the latest
  onstop,    \* stream -> request that waits for the recorder's last event
  recording,
  chunks,    \* audioChunks: the streams they come from
  off,       \* is the record button of the page on the screen disabled ?
  left, away, \* how often the user left the page; is it gone now ?
  files,     \* how often the user chose a file
  at,        \* request -> how far its handler got
  via,       \* request -> whose catch clause the handler has
  btn,       \* request -> is it of the record button on the screen ?
  audio,     \* request -> streams in what was uploaded
  el,        \* request -> is its #voice-result that of the page on the screen ?
  polls,     \* request -> turns of its loop
  card,      \* #voice-result of the page on the screen
  session,   \* request -> is there a voice:partial:<id> in Redis ?
  task,      \* request -> generate_voice_report
  slots, unsent, \* request -> slots taken; those of them the broker wasted
  lapsed, overlap \* history: a recording lost its button; was begun before the last was over

tape   == <<asked, mic, streams, recorder, onstop, chunks, overlap>>
rec    == <<tape, recording, off, lapsed>>
page   == <<left, away, files>>
client == <<page, at, via, btn, audio, el, polls, card>>
server == <<session, task, slots, unsent>>
vars   == <<rec, client, server>>

Sending == {"upload", "question", "queued", "denied", "poll", "clarify"}
Asked   == {"no", "here", "gone", "settled"}
NoCard  == [of |-> None, shows |-> "nothing"]

TypeOK ==
  /\ asked \in [Mics -> Asked] /\ mic \in [Mics -> {"none", "on", "stopping", "done"}]
  /\ streams \subseteq Mics /\ recorder \in Mics \cup {None}
  /\ onstop \in [Mics -> Requests \cup {None}]
  /\ recording \in BOOLEAN /\ chunks \subseteq Mics /\ off \in BOOLEAN
  /\ left \in 0 .. MaxLeaves /\ away \in BOOLEAN /\ files \in 0 .. MaxFiles
  /\ at \in [Requests -> Sending \cup {"idle", "stopping", "card", "over"}]
  /\ via \in [Requests -> {"mic", "file", "card"}]
  /\ btn \in [Requests -> BOOLEAN] /\ el \in [Requests -> BOOLEAN]
  /\ audio \in [Requests -> SUBSET Mics]
  /\ polls \in [Requests -> 0 .. MaxPolls - 1]
  /\ card \in [of : Requests \cup {None}, shows : {"nothing", "question", "waiting", "ready"}]
  /\ session \in [Requests -> BOOLEAN]
  /\ task \in [Requests -> {None, "queued", "success", "failure"}]
  /\ slots \in [Requests -> Nat] /\ unsent \in [Requests -> Nat]
  /\ lapsed \in BOOLEAN /\ overlap \in BOOLEAN

Init ==
  /\ asked = [m \in Mics |-> "no"] /\ mic = [m \in Mics |-> "none"]
  /\ streams = {} /\ recorder = None /\ onstop = [m \in Mics |-> None]
  /\ recording = FALSE /\ chunks = {} /\ off = FALSE
  /\ left = 0 /\ away = FALSE /\ files = 0
  /\ at = [r \in Requests |-> "idle"] /\ via = [r \in Requests |-> "file"]
  /\ btn = [r \in Requests |-> FALSE] /\ el = [r \in Requests |-> FALSE]
  /\ audio = [r \in Requests |-> {}]
  /\ polls = [r \in Requests |-> 0] /\ card = NoCard
  /\ session = [r \in Requests |-> FALSE]
  /\ task = [r \in Requests |-> None]
  /\ slots = [r \in Requests |-> 0] /\ unsent = [r \in Requests |-> 0]
  /\ lapsed = FALSE /\ overlap = FALSE

---------------------------------------------------------------------------
(* The recorder. *)

\* Streams and requests are taken in some order: one is as good as another.
NextMic(m)     == asked[m] = "no" /\ m = CHOOSE n \in Mics : asked[n] = "no"
NextRequest(r) == at[r] = "idle" /\ r = CHOOSE q \in Requests : at[q] = "idle"

\* A click while nothing records asks for a microphone; clicks before the answer ask
\* again.
ClickStart(m) ==
  /\ ~away /\ ~off /\ ~recording /\ NextMic(m)
  /\ asked' = [asked EXCEPT ![m] = "here"]
  /\ UNCHANGED <<mic, streams, recorder, onstop, recording, chunks, off, lapsed, overlap,
                 client, server>>

Running(m) == mic[m] \in {"on", "stopping"}

\* Mutant: the chunks of the last recording are still there.
GrantedKeeps(m) ==
  /\ asked[m] \in {"here", "gone"}
  /\ asked' = [asked EXCEPT ![m] = "settled"]
  /\ mic' = [mic EXCEPT ![m] = "on"] /\ streams' = streams \cup {m}
  /\ recorder' = m /\ recording' = TRUE
  /\ lapsed' = (lapsed \/ recording)
  /\ overlap' = (overlap \/ \E n \in Mics : Running(n))
  /\ off' = (off /\ asked[m] # "here")
  /\ UNCHANGED <<onstop, chunks, client, server>>

\* Recorder, chunks and flag are the new recording's, whatever the old one still does.
Granted(m) ==
  /\ asked[m] \in {"here", "gone"}
  /\ asked' = [asked EXCEPT ![m] = "settled"]
  /\ mic' = [mic EXCEPT ![m] = "on"] /\ streams' = streams \cup {m}
  /\ recorder' = m /\ recording' = TRUE /\ chunks' = {}
  /\ lapsed' = (lapsed \/ recording)
  /\ overlap' = (overlap \/ \E n \in Mics : Running(n))
  /\ off' = (off /\ asked[m] # "here")
  /\ UNCHANGED <<onstop, client, server>>

\* The catch clause of the record button, of the page on the screen or one that is gone:
\* whatever records by now is forgotten.
Forget(here) ==
  /\ recording' = FALSE
  /\ lapsed' = (lapsed \/ recording)
  /\ off' = (off /\ ~here)

Denied(m) ==
  /\ asked[m] \in {"here", "gone"}
  /\ asked' = [asked EXCEPT ![m] = "settled"]
  /\ Forget(asked[m] = "here")
  /\ UNCHANGED <<mic, streams, recorder, onstop, chunks, overlap, client, server>>

\* stopRecording: who clicks while the recorder is stopping takes the place of who did
\* before.
ClickStop(r) ==
  /\ ~away /\ ~off /\ recording /\ NextRequest(r)
  /\ off' = TRUE
  /\ onstop' = [onstop EXCEPT ![recorder] = r]
  /\ mic' = [mic EXCEPT ![recorder] = IF @ = "on" THEN "stopping" ELSE @]
  /\ at' = [at EXCEPT ![r] = "stopping"] /\ via' = [via EXCEPT ![r] = "mic"]
  /\ btn' = [btn EXCEPT ![r] = TRUE]
  /\ UNCHANGED <<asked, streams, recorder, recording, chunks, lapsed, overlap, page, audio, el,
                 polls, card, server>>

\* The rest of the handler of a stop click: an upload, or the recording is too short.
Resolved(r) ==
  \/ /\ at' = [at EXCEPT ![r] = "upload"]
     /\ audio' = [audio EXCEPT ![r] = chunks']
     /\ UNCHANGED <<via, btn, off>>
  \/ /\ at' = [at EXCEPT ![r] = "over"]
     /\ via' = [via EXCEPT ![r] = "file"] /\ btn' = [btn EXCEPT ![r] = FALSE]
     /\ off' = (off /\ ~btn[r])
     /\ UNCHANGED audio

\* Mutant: the tracks of the stream are not stopped.
StoppedOpen(m) ==
  /\ mic[m] = "stopping"
  /\ chunks' = chunks \cup {m}
  /\ onstop' = [onstop EXCEPT ![m] = None]
  /\ mic' = [mic EXCEPT ![m] = "done"]
  /\ IF onstop[m] = None THEN UNCHANGED <<recording, off, at, via, btn, audio>>
     ELSE recording' = FALSE /\ Resolved(onstop[m])
  /\ UNCHANGED <<asked, streams, recorder, lapsed, overlap, page, el, polls, card, server>>

\* The last events of a recorder, in one task of the browser: its data joins the chunks
\* of now; onstop sends them, stops the tracks of the recorder of now and ends its recording.
Stopped(m) ==
  /\ mic[m] = "stopping"
  /\ chunks' = chunks \cup {m}
  /\ onstop' = [onstop EXCEPT ![m] = None]
  /\ IF onstop[m] = None
     THEN /\ mic' = [mic EXCEPT ![m] = "done"]
          /\ UNCHANGED <<streams, recording, off, at, via, btn, audio>>
     ELSE /\ mic' = [n \in Mics |-> CASE n = m -> "done"
                                     [] n # m /\ n = recorder /\ mic[n] = "on" -> "stopping"
                                     [] OTHER -> mic[n]]
          /\ streams' = streams \ {recorder}
          /\ recording' = FALSE
          /\ Resolved(onstop[m])
  /\ UNCHANGED <<asked, recorder, lapsed, overlap, page, el, polls, card, server>>

ChooseFile(r) ==
  /\ ~away /\ NextRequest(r) /\ files < MaxFiles
  /\ files' = files + 1
  /\ at' = [at EXCEPT ![r] = "upload"]
  /\ UNCHANGED <<rec, left, away, via, btn, audio, el, polls, card, server>>

\* The user goes to another page: what belongs to this one is gone, not the recorder.
Leave ==
  /\ ~away /\ left < MaxLeaves
  /\ away' = TRUE /\ left' = left + 1 /\ card' = NoCard /\ off' = FALSE
  /\ asked' = [m \in Mics |-> IF asked[m] = "here" THEN "gone" ELSE asked[m]]
  /\ btn' = [r \in Requests |-> FALSE] /\ el' = [r \in Requests |-> FALSE]
  /\ UNCHANGED <<mic, streams, recorder, onstop, recording, chunks, lapsed, overlap, files, at,
                 via, audio, polls, server>>

Return ==
  /\ away
  /\ away' = FALSE
  /\ UNCHANGED <<rec, left, files, at, via, btn, audio, el, polls, card, server>>

---------------------------------------------------------------------------
(* The endpoints and the task. *)

\* A slot is taken, then the task queued: the broker may refuse it.
Queue(r) ==
  /\ slots' = [slots EXCEPT ![r] = @ + 1]
  /\ \/ /\ task' = [task EXCEPT ![r] = "queued"]
        /\ at' = [at EXCEPT ![r] = "queued"]
        /\ UNCHANGED unsent
     \/ /\ unsent' = [unsent EXCEPT ![r] = @ + 1]
        /\ at' = [at EXCEPT ![r] = "denied"]
        /\ UNCHANGED task

\* POST /voice/generate_report.
Generate(r) ==
  /\ at[r] = "upload"
  /\ \/ /\ at' = [at EXCEPT ![r] = "question"]
        /\ session' = [session EXCEPT ![r] = TRUE]
        /\ UNCHANGED <<task, slots, unsent>>
     \/ Queue(r) /\ UNCHANGED session
     \/ /\ at' = [at EXCEPT ![r] = "denied"]
        /\ UNCHANGED <<session, task, slots, unsent>>
  /\ UNCHANGED <<rec, page, via, btn, audio, el, polls, card>>

\* Mutant: the session is kept.
ClarifyKeeps(r) ==
  /\ at[r] = "clarify" /\ session[r]
  /\ Queue(r)
  /\ UNCHANGED <<rec, page, via, btn, audio, el, polls, card, session>>

\* POST /voice/clarify: the session may have run out by now (VOICE_PARTIAL_TTL), which
\* nobody notices before; it is gone before the slot is asked for, so a refusal (reported
\* as a failure of the server) takes it away.
Clarify(r) ==
  /\ at[r] = "clarify"
  /\ \/ /\ session[r]
        /\ at' = [at EXCEPT ![r] = "question"]
        /\ UNCHANGED <<session, task, slots, unsent>>
     \/ /\ session[r]
        /\ session' = [session EXCEPT ![r] = FALSE]
        /\ Queue(r)
     \/ /\ at' = [at EXCEPT ![r] = "denied"]
        /\ session' \in {session, [session EXCEPT ![r] = FALSE]}
        /\ UNCHANGED <<task, slots, unsent>>
  /\ UNCHANGED <<rec, page, via, btn, audio, el, polls, card>>

TaskEnds(r) ==
  /\ task[r] = "queued"
  /\ \E end \in {"success", "failure"} : task' = [task EXCEPT ![r] = end]
  /\ UNCHANGED <<rec, client, session, slots, unsent>>

---------------------------------------------------------------------------
(* The answers. *)

\* A handler that is done has no button, no place, no loop and no catch clause any more.
Settle(r, stage) ==
  /\ at' = [at EXCEPT ![r] = stage]
  /\ via' = [via EXCEPT ![r] = IF stage = "card" THEN "card" ELSE "file"]
  /\ btn' = [btn EXCEPT ![r] = FALSE]
  /\ el' = [el EXCEPT ![r] = FALSE]
  /\ polls' = [polls EXCEPT ![r] = 0]

\* Only the record button's handler has a button to give back.
Done(r) == off' = (off /\ ~btn[r])

\* renderClarificationUI looks its place up again, on the page of now, if there is one.
Asks(r) ==
  /\ at[r] = "question"
  /\ IF away THEN Settle(r, "over") /\ UNCHANGED card
     ELSE Settle(r, "card") /\ card' = [of |-> r, shows |-> "question"]
  /\ Done(r)
  /\ UNCHANGED <<tape, recording, lapsed, page, audio, server>>

\* handleQueuedTask looks it up once.
Waits(r) ==
  /\ at[r] = "queued"
  /\ at' = [at EXCEPT ![r] = "poll"]
  /\ polls' = [polls EXCEPT ![r] = 0]
  /\ IF away THEN UNCHANGED <<card, el>>
     ELSE card' = [of |-> r, shows |-> "waiting"] /\ el' = [el EXCEPT ![r] = TRUE]
  /\ UNCHANGED <<rec, page, via, btn, audio, server>>

\* An error, or an answer that is lost: the handler's own catch clause.
Fails(r) ==
  /\ Settle(r, IF via[r] = "card" /\ at[r] # "poll" THEN "card" ELSE "over")
  /\ IF via[r] = "mic" THEN Forget(btn[r]) ELSE UNCHANGED <<recording, lapsed, off>>
  /\ UNCHANGED <<tape, page, audio, card, server>>

AnswerFails(r) == at[r] \in {"question", "queued", "denied"} /\ Fails(r)

ClickClarify(r) ==
  /\ at[r] = "card" /\ card = [of |-> r, shows |-> "question"]
  /\ at' = [at EXCEPT ![r] = "clarify"]
  /\ UNCHANGED <<rec, page, via, btn, audio, el, polls, card, server>>

Ready(r) ==
  /\ Settle(r, "over")
  /\ card' = IF el[r] THEN [of |-> r, shows |-> "ready"] ELSE card
  /\ Done(r)
  /\ UNCHANGED <<tape, recording, lapsed, page, audio, server>>

\* Mutant: a task that failed is shown as ready.
PollAnyEnd(r) ==
  /\ at[r] = "poll"
  /\ \/ task[r] # "queued" /\ Ready(r)
     \/ Fails(r)

\* Mutant: one turn more than there are.
PollOnceMore(r) ==
  /\ at[r] = "poll"
  /\ \/ task[r] = "success" /\ Ready(r)
     \/ /\ polls[r] < MaxPolls
        /\ polls' = [polls EXCEPT ![r] = @ + 1]
        /\ UNCHANGED <<rec, page, at, via, btn, audio, el, card, server>>
     \/ (task[r] = "failure" \/ polls[r] = MaxPolls) /\ Fails(r)

\* Mutant: the loop starts over.
PollForever(r) ==
  /\ at[r] = "poll"
  /\ \/ task[r] = "success" /\ Ready(r)
     \/ /\ polls' = [polls EXCEPT ![r] = (@ + 1) % MaxPolls]
        /\ UNCHANGED <<rec, page, at, via, btn, audio, el, card, server>>
     \/ task[r] = "failure" /\ Fails(r)

\* One turn of pollVoiceTask; an answer that is no status costs a turn as well.
Poll(r) ==
  /\ at[r] = "poll"
  /\ \/ task[r] = "success" /\ Ready(r)
     \/ /\ polls[r] + 1 < MaxPolls
        /\ polls' = [polls EXCEPT ![r] = @ + 1]
        /\ UNCHANGED <<rec, page, at, via, btn, audio, el, card, server>>
     \/ (task[r] = "failure" \/ polls[r] + 1 = MaxPolls) /\ Fails(r)

---------------------------------------------------------------------------
Told(r)     == \E m \in Mics : onstop[m] = r /\ Stopped(m)
Answered(r) == Generate(r) \/ Clarify(r) \/ Asks(r) \/ Waits(r) \/ AnswerFails(r) \/ Poll(r)

Next ==
  \/ \E m \in Mics : ClickStart(m) \/ Granted(m) \/ Denied(m) \/ Stopped(m)
  \/ \E r \in Requests : ClickStop(r) \/ ChooseFile(r) \/ ClickClarify(r)
  \/ \E r \in Requests : Answered(r) \/ TaskEnds(r)
  \/ Leave \/ Return

Spec == Init /\ [][Next]_vars

\* Every request is answered or fails, and a recorder that was stopped says so; neither
\* the user nor the workers need do anything.
FairSpec == Spec /\ \A r \in Requests : WF_vars(Answered(r) \/ Told(r))

---------------------------------------------------------------------------
(* Properties. *)

\* What is uploaded comes from one stream, and no recording is uploaded twice, however
\* stop clicks, late events of the recorder, errors and visits to the page fall: recorder,
\* chunks and flag are shared by all of them.  That ends with a recording that begins
\* before the recorder of the last one has told that it stopped.
AudioSentOnce ==
  ~overlap => /\ \A r \in Requests : Cardinality(audio[r]) <= 1
              /\ \A r, s \in Requests : r # s => audio[r] \cap audio[s] = {}

\* A microphone is open only while its recording can be stopped; unless a second
\* prompt, a refused one or a late failure of an older request took the recording's
\* place.
MicReleased == ~lapsed => streams \subseteq (IF recording THEN {recorder} ELSE {})

\* "The report is ready" is said of a task that succeeded.
ReadyIsTrue == card.shows = "ready" => task[card.of] = "success"

\* A voice request is an order as PaidReports has it, never opened again: however
\* often it is answered it makes one report for one slot, besides the slots the
\* broker wasted before.
Order == INSTANCE PaidReports WITH
  Orders   <- Requests,
  report   <- task,
  wasted   <- unsent,
  reopened <- {}

VoiceOrdersKept == Order!Spec

\* So it takes one slot.
VoicePaidOnce == \A r \in Requests : slots[r] - unsent[r] <= 1

\* A stop click whose recorder will answer.
Awaited(r) == \E m \in Mics : mic[m] = "stopping" /\ onstop[m] = r

\* No handler waits forever, even if no worker runs: except that of a stop click whose
\* place another took.
VoiceEnds ==
  \A r \in Requests : at[r] \in Sending \/ Awaited(r) ~> ~(at[r] \in Sending \/ Awaited(r))
=============================================================================
