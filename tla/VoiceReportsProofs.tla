------------------------- MODULE VoiceReportsProofs -------------------------
(***************************************************************************)
(* Proofs about VoiceReports, for any requests, microphones and bounds.    *)
(*                                                                         *)
(* The recorder and the server are two arguments: a stop click is told by  *)
(* the recorder it stopped, and by no other (Armed), so that without an    *)
(* overlap a stream is recorded once and uploaded by whoever stopped it    *)
(* (Recorder); and a request has a session, or a task, or neither, with    *)
(* the slots that go with it (Ledger).                                     *)
(***************************************************************************)
EXTENDS VoiceReports, FiniteSetTheorems, TLAPS

---------------------------------------------------------------------------
(* Type correctness. *)

Cards  == [of : Requests \cup {None}, shows : {"nothing", "question", "waiting", "ready"}]
Stages == Sending \cup {"idle", "stopping", "card", "over"}

\* The parts of TypeOK: the recorder, the page and its handlers, the server.
RecorderOK ==
  /\ asked \in [Mics -> Asked] /\ mic \in [Mics -> {"none", "on", "stopping", "done"}]
  /\ streams \subseteq Mics /\ recorder \in Mics \cup {None}
  /\ onstop \in [Mics -> Requests \cup {None}]
  /\ recording \in BOOLEAN /\ chunks \subseteq Mics /\ off \in BOOLEAN
  /\ lapsed \in BOOLEAN /\ overlap \in BOOLEAN
PageOK ==
  left \in 0 .. MaxLeaves /\ away \in BOOLEAN /\ files \in 0 .. MaxFiles
HandlerOK ==
  /\ at \in [Requests -> Stages]
  /\ via \in [Requests -> {"mic", "file", "card"}]
  /\ btn \in [Requests -> BOOLEAN] /\ el \in [Requests -> BOOLEAN]
  /\ audio \in [Requests -> SUBSET Mics]
  /\ polls \in [Requests -> 0 .. MaxPolls - 1]
ServerOK ==
  /\ session \in [Requests -> BOOLEAN]
  /\ task \in [Requests -> {None, "queued", "success", "failure"}]
  /\ slots \in [Requests -> Nat] /\ unsent \in [Requests -> Nat]

\* TypeOK is its parts.
LEMMA TypeParts ==
  TypeOK <=> RecorderOK /\ PageOK /\ HandlerOK /\ card \in Cards /\ ServerOK
  BY DEF TypeOK, RecorderOK, PageOK, HandlerOK, ServerOK, Cards, Stages

\* The bounds are numbers.
LEMMA Bounds == MaxPolls \in Nat \ {0} /\ MaxFiles \in Nat /\ MaxLeaves \in Nat
  BY VoiceReportsAssumption

\* The initial state is well typed.
LEMMA TypeInit == Init => TypeOK
  <1> SUFFICES ASSUME Init PROVE TypeOK
    OBVIOUS
  <1>1. RecorderOK
    BY DEF Init, RecorderOK, Asked
  <1>2. PageOK
    <2>1. 0 \in 0 .. MaxLeaves /\ 0 \in 0 .. MaxFiles
      BY Bounds
    <2> QED  BY <2>1 DEF Init, PageOK
  <1>3. HandlerOK
    <2>1. 0 \in 0 .. MaxPolls - 1
      BY Bounds
    <2> QED  BY <2>1 DEF Init, HandlerOK, Stages
  <1>4. card \in Cards
    BY DEF Init, NoCard, Cards
  <1>5. ServerOK
    BY DEF Init, ServerOK
  <1> QED  BY <1>1, <1>2, <1>3, <1>4, <1>5, TypeParts

\* The handlers' steps that several actions share.
LEMMA SettleType ==
  ASSUME HandlerOK, NEW r \in Requests, NEW stage \in {"card", "over"}, Settle(r, stage),
         UNCHANGED audio
  PROVE  HandlerOK'
  <1>1. 0 \in 0 .. MaxPolls - 1
    BY Bounds
  <1>2. (IF stage = "card" THEN "card" ELSE "file") \in {"mic", "file", "card"}
    OBVIOUS
  <1> QED  BY <1>1, <1>2 DEF HandlerOK, Settle, Stages

LEMMA QueueType ==
  ASSUME ServerOK, HandlerOK, NEW r \in Requests, Queue(r)
  PROVE  /\ slots' \in [Requests -> Nat] /\ unsent' \in [Requests -> Nat]
         /\ task' \in [Requests -> {None, "queued", "success", "failure"}]
         /\ at' \in [Requests -> Stages]
  <1>1. {"queued", "denied"} \subseteq Stages
    BY DEF Sending, Stages
  <1>2. slots' \in [Requests -> Nat]
    BY DEF Queue, ServerOK
  <1>3. unsent' \in [Requests -> Nat]
    BY DEF Queue, ServerOK
  <1>4. task' \in [Requests -> {None, "queued", "success", "failure"}]
    BY DEF Queue, ServerOK
  <1>5. at' \in [Requests -> Stages]
    BY <1>1 DEF Queue, HandlerOK
  <1> QED  BY <1>2, <1>3, <1>4, <1>5

LEMMA ResolvedType ==
  ASSUME RecorderOK, HandlerOK, NEW r \in Requests, Resolved(r), chunks' \subseteq Mics,
         UNCHANGED <<el, polls>>
  PROVE  HandlerOK' /\ off' \in BOOLEAN
  <1>1. CASE /\ at' = [at EXCEPT ![r] = "upload"]
             /\ audio' = [audio EXCEPT ![r] = chunks']
             /\ UNCHANGED <<via, btn, off>>
    BY <1>1 DEF RecorderOK, HandlerOK, Stages, Sending
  <1>2. CASE /\ at' = [at EXCEPT ![r] = "over"]
             /\ via' = [via EXCEPT ![r] = "file"] /\ btn' = [btn EXCEPT ![r] = FALSE]
             /\ off' = (off /\ ~btn[r])
             /\ UNCHANGED audio
    BY <1>2 DEF RecorderOK, HandlerOK, Stages
  <1> QED  BY <1>1, <1>2 DEF Resolved

LEMMA FailsType ==
  ASSUME TypeOK, NEW r \in Requests, Fails(r)
  PROVE  TypeOK'
  <1>0. RecorderOK /\ PageOK /\ HandlerOK /\ card \in Cards /\ ServerOK
    BY TypeParts
  <1>1. HandlerOK'
    <2> DEFINE stage == IF via[r] = "card" /\ at[r] # "poll" THEN "card" ELSE "over"
    <2>1. stage \in {"card", "over"} /\ Settle(r, stage) /\ UNCHANGED audio
      BY DEF Fails
    <2> HIDE DEF stage
    <2> QED  BY <1>0, <2>1, SettleType
  <1>2. RecorderOK'
    <2>1. UNCHANGED <<asked, mic, streams, recorder, onstop, chunks, overlap>>
      BY DEF Fails, tape
    <2>2. recording' \in BOOLEAN /\ off' \in BOOLEAN /\ lapsed' \in BOOLEAN
      BY <1>0 DEF Fails, Forget, RecorderOK
    <2> QED  BY <1>0, <2>1, <2>2 DEF RecorderOK
  <1>3. PageOK' /\ card' \in Cards
    BY <1>0 DEF Fails, page, PageOK
  <1>4. ServerOK'
    BY <1>0 DEF Fails, server, ServerOK
  <1> QED  BY <1>1, <1>2, <1>3, <1>4 DEF TypeOK, RecorderOK, PageOK, HandlerOK, ServerOK, Cards, Stages

\* Every step keeps the types: one case per action.
LEMMA TypeNext == TypeOK /\ [Next]_vars => TypeOK'
  <1> SUFFICES ASSUME TypeOK, [Next]_vars PROVE TypeOK'
    OBVIOUS
  <1>0. RecorderOK /\ PageOK /\ HandlerOK /\ card \in Cards /\ ServerOK
    BY TypeParts
  <1>d. ASSUME RecorderOK', PageOK', HandlerOK', card' \in Cards, ServerOK' PROVE TypeOK'
    BY <1>d DEF TypeOK, RecorderOK, PageOK, HandlerOK, ServerOK, Cards, Stages
  <1>r. ASSUME UNCHANGED rec PROVE RecorderOK'
    BY <1>0, <1>r DEF rec, tape, RecorderOK
  <1>p. ASSUME UNCHANGED page PROVE PageOK'
    BY <1>0, <1>p DEF page, PageOK
  <1>c. ASSUME UNCHANGED client PROVE PageOK' /\ HandlerOK' /\ card' \in Cards
    <2>1. UNCHANGED <<page, at, via, btn, audio, el, polls, card>>
      BY <1>c DEF client
    <2> QED  BY <1>0, <1>p, <2>1 DEF HandlerOK
  <1>s. ASSUME UNCHANGED server PROVE ServerOK'
    BY <1>0, <1>s DEF server, ServerOK
  <1>b. 0 \in 0 .. MaxPolls - 1
    BY Bounds
  <1>t. {"upload", "question", "queued", "denied", "poll", "clarify", "stopping"} \subseteq Stages
    BY DEF Sending, Stages
  <1>1. ASSUME NEW m \in Mics, ClickStart(m) \/ Granted(m) \/ Denied(m) PROVE TypeOK'
    <2>1. PageOK' /\ HandlerOK' /\ card' \in Cards /\ ServerOK'
      BY <1>1, <1>c, <1>s DEF ClickStart, Granted, Denied
    <2>2. asked' \in [Mics -> Asked]
      BY <1>0, <1>1 DEF ClickStart, Granted, Denied, RecorderOK, Asked
    <2>3. CASE ClickStart(m)
      BY <1>0, <1>d, <2>1, <2>2, <2>3 DEF ClickStart, RecorderOK
    <2>4. CASE Granted(m)
      <3>1. lapsed' \in BOOLEAN /\ overlap' \in BOOLEAN /\ off' \in BOOLEAN
        BY <1>0, <2>4 DEF Granted, RecorderOK
      <3>2. RecorderOK'
        BY <1>0, <2>2, <2>4, <3>1 DEF Granted, RecorderOK
      <3> QED  BY <1>d, <2>1, <3>2
    <2>5. CASE Denied(m)
      <3>1. RecorderOK'
        BY <1>0, <2>2, <2>5 DEF Denied, Forget, RecorderOK
      <3> QED  BY <1>d, <2>1, <3>1
    <2> QED  BY <1>1, <2>3, <2>4, <2>5
  <1>2. ASSUME NEW r \in Requests, ClickStop(r) PROVE TypeOK'
    <2>1. RecorderOK'
      <3>1. onstop' \in [Mics -> Requests \cup {None}]
        BY <1>0, <1>2 DEF ClickStop, RecorderOK
      <3>2. mic' \in [Mics -> {"none", "on", "stopping", "done"}]
        BY <1>0, <1>2 DEF ClickStop, RecorderOK
      <3>3. UNCHANGED <<asked, streams, recorder, recording, chunks, lapsed, overlap>> /\ off'
        BY <1>2 DEF ClickStop
      <3> QED  BY <1>0, <3>1, <3>2, <3>3 DEF RecorderOK
    <2>2. HandlerOK'
      BY <1>0, <1>2, <1>t DEF ClickStop, HandlerOK
    <2>3. UNCHANGED page /\ UNCHANGED card /\ UNCHANGED server
      BY <1>2 DEF ClickStop
    <2> QED  BY <1>0, <1>d, <1>p, <1>s, <2>1, <2>2, <2>3
  <1>3. ASSUME NEW m \in Mics, Stopped(m) PROVE TypeOK'
    <2>1. /\ chunks' = chunks \cup {m} /\ onstop' = [onstop EXCEPT ![m] = None]
          /\ UNCHANGED <<asked, recorder, lapsed, overlap, page, el, polls, card, server>>
      BY <1>3 DEF Stopped
    <2>2. chunks' \subseteq Mics /\ onstop' \in [Mics -> Requests \cup {None}]
      BY <1>0, <2>1 DEF RecorderOK
    <2>3. CASE onstop[m] = None
      <3>1. mic' = [mic EXCEPT ![m] = "done"]
            /\ UNCHANGED <<streams, recording, off, at, via, btn, audio>>
        BY <1>3, <2>3 DEF Stopped
      <3>2. mic' \in [Mics -> {"none", "on", "stopping", "done"}]
        BY <1>0, <3>1 DEF RecorderOK
      <3>3. RecorderOK'
        BY <1>0, <2>1, <2>2, <3>1, <3>2 DEF RecorderOK
      <3>4. HandlerOK'
        BY <1>0, <2>1, <3>1 DEF HandlerOK
      <3> QED  BY <1>0, <1>d, <1>p, <1>s, <2>1, <3>3, <3>4
    <2>4. CASE onstop[m] # None
      <3>1. onstop[m] \in Requests
        BY <1>0, <2>4 DEF RecorderOK
      <3>2. /\ streams' = streams \ {recorder} /\ recording' = FALSE /\ Resolved(onstop[m])
            /\ mic' = [n \in Mics |-> CASE n = m -> "done"
                                      [] n # m /\ n = recorder /\ mic[n] = "on" -> "stopping"
                                      [] OTHER -> mic[n]]
        BY <1>3, <2>4 DEF Stopped
      <3>3. mic' \in [Mics -> {"none", "on", "stopping", "done"}]
        BY <1>0, <3>2 DEF RecorderOK
      <3>4. HandlerOK' /\ off' \in BOOLEAN
        BY <1>0, <2>1, <2>2, <3>1, <3>2, ResolvedType
      <3>5. RecorderOK'
        BY <1>0, <2>1, <2>2, <3>2, <3>3, <3>4 DEF RecorderOK
      <3> QED  BY <1>0, <1>d, <1>p, <1>s, <2>1, <3>4, <3>5
    <2> QED  BY <2>3, <2>4
  <1>4. ASSUME NEW r \in Requests, ChooseFile(r) \/ ClickClarify(r) PROVE TypeOK'
    <2>1. RecorderOK' /\ ServerOK'
      BY <1>4, <1>r, <1>s DEF ChooseFile, ClickClarify
    <2>2. HandlerOK' /\ card' \in Cards
      BY <1>0, <1>4, <1>t DEF ChooseFile, ClickClarify, HandlerOK
    <2>3. PageOK'
      <3>1. CASE ChooseFile(r)
        BY <1>0, <3>1, Bounds DEF ChooseFile, PageOK
      <3>2. CASE ClickClarify(r)
        BY <1>p, <3>2 DEF ClickClarify
      <3> QED  BY <1>4, <3>1, <3>2
    <2> QED  BY <1>d, <2>1, <2>2, <2>3
  <1>5. CASE Leave \/ Return
    <2>1. CASE Leave
      <3>1. asked' \in [Mics -> Asked]
        BY <1>0, <2>1 DEF Leave, RecorderOK, Asked
      <3>2. RecorderOK'
        BY <1>0, <2>1, <3>1 DEF Leave, RecorderOK
      <3>3. PageOK'
        BY <1>0, <2>1, Bounds DEF Leave, PageOK
      <3>4. HandlerOK'
        BY <1>0, <2>1 DEF Leave, HandlerOK
      <3>5. card' \in Cards /\ UNCHANGED server
        BY <2>1 DEF Leave, NoCard, Cards
      <3> QED  BY <1>d, <1>s, <3>2, <3>3, <3>4, <3>5
    <2>2. CASE Return
      <3>1. PageOK' /\ HandlerOK' /\ card' \in Cards
        BY <1>0, <2>2 DEF Return, PageOK, HandlerOK
      <3>2. RecorderOK' /\ ServerOK'
        BY <1>r, <1>s, <2>2 DEF Return
      <3> QED  BY <1>d, <3>1, <3>2
    <2> QED  BY <1>5, <2>1, <2>2
  <1>6. ASSUME NEW r \in Requests, Generate(r) \/ Clarify(r) PROVE TypeOK'
    <2>1. RecorderOK' /\ PageOK' /\ UNCHANGED <<via, btn, audio, el, polls, card>>
      BY <1>6, <1>p, <1>r DEF Generate, Clarify
    <2>2. session' \in [Requests -> BOOLEAN]
      BY <1>0, <1>6 DEF Generate, Clarify, ServerOK
    <2>3. /\ slots' \in [Requests -> Nat] /\ unsent' \in [Requests -> Nat]
          /\ task' \in [Requests -> {None, "queued", "success", "failure"}]
          /\ at' \in [Requests -> Stages]
      <3>1. CASE Queue(r)
        BY <1>0, <3>1, QueueType
      <3>2. CASE ~Queue(r)
        BY <1>0, <1>6, <1>t, <3>2 DEF Generate, Clarify, ServerOK, HandlerOK
      <3> QED  BY <3>1, <3>2
    <2> QED  BY <1>0, <1>d, <2>1, <2>2, <2>3 DEF ServerOK, HandlerOK
  <1>7. ASSUME NEW r \in Requests, TaskEnds(r) PROVE TypeOK'
    BY <1>0, <1>7, <1>d, <1>r, <1>c DEF TaskEnds, ServerOK
  <1>8. ASSUME NEW r \in Requests, Asks(r) PROVE TypeOK'
    <2>1. RecorderOK' /\ PageOK' /\ ServerOK'
      BY <1>0, <1>8, <1>p, <1>s DEF Asks, Done, tape, RecorderOK
    <2>2. card' \in Cards
      BY <1>0, <1>8 DEF Asks, Cards
    <2>3. HandlerOK'
      <3>1. UNCHANGED audio /\ (Settle(r, "card") \/ Settle(r, "over"))
        BY <1>8 DEF Asks
      <3> QED  BY <1>0, <3>1, SettleType
    <2> QED  BY <1>d, <2>1, <2>2, <2>3
  <1>9. ASSUME NEW r \in Requests, Waits(r) PROVE TypeOK'
    <2>1. card' \in Cards
      BY <1>0, <1>9 DEF Waits, Cards
    <2>2. at' \in [Requests -> Stages] /\ polls' \in [Requests -> 0 .. MaxPolls - 1]
      BY <1>0, <1>9, <1>b, <1>t DEF Waits, HandlerOK
    <2>3. el' \in [Requests -> BOOLEAN]
      BY <1>0, <1>9 DEF Waits, HandlerOK
    <2>4. UNCHANGED <<via, btn, audio>>
      BY <1>9 DEF Waits
    <2>5. HandlerOK'
      BY <1>0, <2>2, <2>3, <2>4 DEF HandlerOK
    <2> QED  BY <1>9, <1>d, <1>p, <1>r, <1>s, <2>1, <2>5 DEF Waits
  <1>10. ASSUME NEW r \in Requests, AnswerFails(r) PROVE TypeOK'
    BY <1>10, FailsType DEF AnswerFails
  <1>11. ASSUME NEW r \in Requests, Poll(r) PROVE TypeOK'
    <2>1. CASE Ready(r)
      <3>1. RecorderOK' /\ PageOK' /\ ServerOK'
        BY <1>0, <1>p, <1>s, <2>1 DEF Ready, Done, tape, RecorderOK
      <3>2. card' \in Cards
        BY <1>0, <2>1 DEF Ready, Cards
      <3>3. HandlerOK'
        BY <1>0, <2>1, SettleType DEF Ready
      <3> QED  BY <1>d, <3>1, <3>2, <3>3
    <2>2. CASE /\ polls[r] + 1 < MaxPolls
               /\ polls' = [polls EXCEPT ![r] = @ + 1]
               /\ UNCHANGED <<rec, page, at, via, btn, audio, el, card, server>>
      <3>1. polls' \in [Requests -> 0 .. MaxPolls - 1]
        <4>1. polls \in [Requests -> 0 .. MaxPolls - 1]
          BY <1>0 DEF HandlerOK
        <4>2. polls[r] + 1 \in 0 .. MaxPolls - 1
          BY <2>2, <4>1, Bounds
        <4> QED  BY <2>2, <4>1, <4>2
      <3>2. UNCHANGED <<at, via, btn, audio, el, card>> /\ UNCHANGED page /\ UNCHANGED rec
              /\ UNCHANGED server
        BY <2>2
      <3>3. HandlerOK'
        BY <1>0, <3>1, <3>2 DEF HandlerOK
      <3> QED  BY <1>0, <1>d, <1>p, <1>r, <1>s, <3>2, <3>3
    <2>3. CASE Fails(r)
      BY <2>3, FailsType
    <2> QED  BY <1>11, <2>1, <2>2, <2>3 DEF Poll
  <1>12. CASE UNCHANGED vars
    <2>1. UNCHANGED rec /\ UNCHANGED client /\ UNCHANGED server
      BY <1>12 DEF vars
    <2> QED  BY <1>c, <1>d, <1>r, <1>s, <2>1
  <1> QED
    BY <1>1, <1>2, <1>3, <1>4, <1>5, <1>6, <1>7, <1>8, <1>9, <1>10, <1>11, <1>12
    DEF Next, Answered

\* Every reachable state of VoiceReports is well typed (voice.js, voice_report.py),
\* for every value of the constants.
THEOREM TypeCorrect == Spec => []TypeOK
  <1> QED  BY TypeInit, TypeNext, PTL DEF Spec

---------------------------------------------------------------------------
(* The recorder: a stream is recorded once and uploaded once. *)

\* What records can be stopped; a stop click is told by one recorder, which will stop.
Armed ==
  /\ recording => /\ recorder \in Mics
                  /\ \/ mic[recorder] = "on"
                     \/ mic[recorder] = "stopping" /\ onstop[recorder] # None
  /\ \A m \in Mics : asked[m] # "settled" => mic[m] = "none"
  /\ \A m \in Mics : onstop[m] # None => mic[m] = "stopping" /\ at[onstop[m]] = "stopping"
  /\ \A m, n \in Mics : m # n /\ onstop[m] # None => onstop[n] # onstop[m]

\* Without an overlap only the latest recorder runs: nobody has its stream yet, and
\* there are no chunks of another.
Recorder ==
  ~overlap =>
    /\ \A m \in Mics : Running(m) => m = recorder /\ chunks = {}
    /\ \A r \in Requests :
         /\ audio[r] = {} \/ \E m \in Mics : audio[r] = {m}
         /\ \A m \in audio[r] : mic[m] = "done"
    /\ \A r, s \in Requests : r # s => audio[r] \cap audio[s] = {}

\* A step of a handler leaves the recorder alone, and no stop click was waiting in it.
Apart(r) ==
  /\ UNCHANGED <<asked, mic, streams, recorder, onstop, chunks, overlap, audio>>
  /\ UNCHANGED recording \/ ~recording'
  /\ at[r] # "stopping" /\ \A q \in Requests \ {r} : at'[q] = at[q]

\* Every action but those of the recorder is such a step.
LEMMA HandlersApart ==
  ASSUME TypeOK, NEW r \in Requests, Answered(r) \/ ChooseFile(r) \/ ClickClarify(r)
  PROVE  Apart(r)
  <1>0. HandlerOK
    BY TypeParts
  <1>1. at[r] # "stopping"
    BY DEF Answered, Generate, Clarify, Asks, Waits, AnswerFails, Poll, ChooseFile, NextRequest,
           ClickClarify
  <1>2. \A q \in Requests \ {r} : at'[q] = at[q]
    BY <1>0 DEF HandlerOK, Answered, Generate, Clarify, Queue, Asks, Waits, AnswerFails, Poll,
                Ready, Fails, Settle, ChooseFile, ClickClarify
  <1>3. UNCHANGED tape /\ UNCHANGED audio
    BY DEF Answered, Generate, Clarify, Asks, Waits, AnswerFails, Poll, Ready, Fails, ChooseFile,
           ClickClarify, rec
  <1>4. UNCHANGED recording \/ ~recording'
    BY DEF Answered, Generate, Clarify, Asks, Waits, AnswerFails, Poll, Ready, Fails, Forget,
           ChooseFile, ClickClarify, rec
  <1> QED  BY <1>1, <1>2, <1>3, <1>4 DEF Apart, tape

\* Every step keeps a stop click and its recorder together.
LEMMA ArmedNext == TypeOK /\ Armed /\ [Next]_vars => Armed'
  <1> SUFFICES ASSUME TypeOK, Armed, [Next]_vars PROVE Armed'
    OBVIOUS
  <1>0. RecorderOK /\ HandlerOK
    BY TypeParts
  <1>u. ASSUME UNCHANGED <<asked, mic, recorder, recording, onstop, at>> PROVE Armed'
    BY <1>u DEF Armed
  <1>h. ASSUME NEW r \in Requests, Apart(r) PROVE Armed'
    <2>1. \A m \in Mics : onstop[m] # None => onstop[m] \in Requests /\ onstop[m] # r
      BY <1>0, <1>h DEF Apart, Armed, RecorderOK
    <2> QED  BY <1>h, <2>1 DEF Apart, Armed
  <1>1. ASSUME NEW m \in Mics, ClickStart(m) \/ Denied(m) PROVE Armed'
    <2>1. /\ \A n \in Mics : asked'[n] # "settled" => asked[n] # "settled"
          /\ UNCHANGED <<mic, recorder, onstop, at>> /\ (UNCHANGED recording \/ ~recording')
      BY <1>0, <1>1 DEF ClickStart, NextMic, Denied, Forget, client, RecorderOK
    <2> QED  BY <2>1 DEF Armed
  <1>2. ASSUME NEW m \in Mics, Granted(m) PROVE Armed'
    <2>1. /\ asked' = [asked EXCEPT ![m] = "settled"] /\ mic' = [mic EXCEPT ![m] = "on"]
          /\ recorder' = m /\ UNCHANGED <<onstop, at>>
      BY <1>2 DEF Granted, client
    <2>2. mic[m] = "none" /\ onstop[m] = None
      BY <1>2 DEF Granted, Armed
    <2>3. /\ mic'[m] = "on" /\ \A n \in Mics \ {m} : mic'[n] = mic[n]
          /\ asked'[m] = "settled" /\ \A n \in Mics \ {m} : asked'[n] = asked[n]
      BY <1>0, <2>1 DEF RecorderOK
    <2> QED  BY <2>1, <2>2, <2>3 DEF Armed
  <1>3. ASSUME NEW r \in Requests, ClickStop(r) PROVE Armed'
    <2>1. recorder \in Mics /\ mic[recorder] \in {"on", "stopping"} /\ at[r] = "idle"
      BY <1>3 DEF ClickStop, NextRequest, Armed
    <2>2. \A m \in Mics : onstop[m] # r
      BY <2>1, VoiceReportsAssumption DEF Armed
    <2>3. /\ onstop' = [onstop EXCEPT ![recorder] = r] /\ at' = [at EXCEPT ![r] = "stopping"]
          /\ mic' = [mic EXCEPT ![recorder] = IF @ = "on" THEN "stopping" ELSE @]
          /\ UNCHANGED <<asked, recorder, recording>>
      BY <1>3 DEF ClickStop
    <2>4. /\ onstop'[recorder] = r /\ \A m \in Mics \ {recorder} : onstop'[m] = onstop[m]
          /\ mic'[recorder] = "stopping" /\ \A m \in Mics \ {recorder} : mic'[m] = mic[m]
          /\ at'[r] = "stopping" /\ \A q \in Requests \ {r} : at'[q] = at[q]
      BY <1>0, <2>1, <2>3 DEF RecorderOK, HandlerOK
    <2>5. r # None /\ \A m \in Mics : onstop[m] # None => onstop[m] \in Requests \ {r}
      BY <1>0, <2>2, VoiceReportsAssumption DEF RecorderOK
    <2>6. asked[recorder] = "settled"
      BY <2>1 DEF Armed
    <2> QED  BY <2>2, <2>3, <2>4, <2>5, <2>6 DEF Armed
  <1>4. ASSUME NEW m \in Mics, Stopped(m) PROVE Armed'
    <2>1. /\ mic[m] = "stopping" /\ onstop' = [onstop EXCEPT ![m] = None]
          /\ UNCHANGED <<asked, recorder>>
      BY <1>4 DEF Stopped
    <2>2. onstop'[m] = None /\ \A n \in Mics \ {m} : onstop'[n] = onstop[n]
      BY <1>0, <2>1 DEF RecorderOK
    <2>3. asked[m] = "settled"
      BY <2>1 DEF Armed
    <2>4. CASE onstop[m] = None
      <3>1. mic' = [mic EXCEPT ![m] = "done"] /\ UNCHANGED <<recording, at>>
        BY <1>4, <2>4 DEF Stopped
      <3>2. mic'[m] = "done" /\ \A n \in Mics \ {m} : mic'[n] = mic[n]
        BY <1>0, <3>1 DEF RecorderOK
      <3>3. recording => recorder # m
        BY <2>1, <2>4 DEF Armed
      <3> QED  BY <2>1, <2>2, <2>3, <3>1, <3>2, <3>3 DEF Armed
    <2>5. CASE onstop[m] # None
      <3>1. ~recording' /\ Resolved(onstop[m])
            /\ mic' = [n \in Mics |-> CASE n = m -> "done"
                                      [] n # m /\ n = recorder /\ mic[n] = "on" -> "stopping"
                                      [] OTHER -> mic[n]]
        BY <1>4, <2>5 DEF Stopped
      <3>2. \A n \in Mics : /\ mic[n] = "none" => mic'[n] = "none"
                            /\ n # m /\ mic[n] = "stopping" => mic'[n] = "stopping"
        BY <2>1, <3>1
      <3>3. \A q \in Requests \ {onstop[m]} : at'[q] = at[q]
        BY <1>0, <3>1 DEF Resolved, HandlerOK
      <3>4. \A n \in Mics \ {m} : onstop[n] # None => onstop[n] \in Requests \ {onstop[m]}
        BY <1>0, <2>5 DEF Armed, RecorderOK
      <3> QED  BY <2>1, <2>2, <3>1, <3>2, <3>3, <3>4 DEF Armed
    <2> QED  BY <2>4, <2>5
  <1>5. ASSUME NEW r \in Requests, Answered(r) \/ ChooseFile(r) \/ ClickClarify(r) PROVE Armed'
    BY <1>5, <1>h, HandlersApart
  <1>6. CASE Leave \/ Return
    <2>1. /\ \A n \in Mics : asked'[n] # "settled" => asked[n] # "settled"
          /\ UNCHANGED <<mic, recorder, recording, onstop, at>>
      BY <1>6 DEF Leave, Return, rec, tape
    <2> QED  BY <2>1 DEF Armed
  <1>7. ASSUME NEW r \in Requests, TaskEnds(r) PROVE Armed'
    BY <1>7, <1>u DEF TaskEnds, rec, tape, client
  <1>8. CASE UNCHANGED vars
    BY <1>8, <1>u DEF vars, rec, tape, client
  <1> QED  BY <1>1, <1>2, <1>3, <1>4, <1>5, <1>6, <1>7, <1>8 DEF Next

\* Every step keeps the recorder's streams apart.
LEMMA RecorderNext == TypeOK /\ Armed /\ Recorder /\ [Next]_vars => Recorder'
  <1> SUFFICES ASSUME TypeOK, Armed, Recorder, [Next]_vars, ~overlap' PROVE Recorder'
    BY DEF Recorder
  <1>0. RecorderOK /\ HandlerOK
    BY TypeParts
  <1>a. \A r \in Requests : audio[r] \subseteq Mics
    BY <1>0 DEF HandlerOK
  <1>u. ASSUME UNCHANGED <<mic, recorder, chunks, overlap, audio>> PROVE Recorder'
    BY <1>u DEF Recorder, Running
  <1>1. ASSUME NEW m \in Mics, ClickStart(m) \/ Denied(m) PROVE Recorder'
    BY <1>1, <1>u DEF ClickStart, Denied, client
  <1>2. ASSUME NEW m \in Mics, Granted(m) PROVE Recorder'
    <2>1. /\ mic' = [mic EXCEPT ![m] = "on"] /\ recorder' = m /\ chunks' = {} /\ audio' = audio
          /\ ~overlap /\ \A n \in Mics : ~Running(n)
      BY <1>2 DEF Granted, client
    <2>2. mic[m] = "none"
      BY <1>2 DEF Granted, Armed
    <2>3. mic'[m] = "on" /\ \A n \in Mics \ {m} : mic'[n] = mic[n]
      BY <1>0, <2>1 DEF RecorderOK
    <2> QED  BY <1>a, <2>1, <2>2, <2>3 DEF Recorder, Running
  <1>3. ASSUME NEW r \in Requests, ClickStop(r) PROVE Recorder'
    <2>1. mic' = [mic EXCEPT ![recorder] = IF @ = "on" THEN "stopping" ELSE @]
          /\ UNCHANGED <<recorder, chunks, overlap, audio>>
      BY <1>3 DEF ClickStop
    <2>2. \A n \in Mics : /\ mic[n] = "done" => mic'[n] = "done"
                          /\ mic'[n] \in {"on", "stopping"} => mic[n] \in {"on", "stopping"}
      BY <1>0, <2>1 DEF RecorderOK
    <2> QED  BY <1>a, <2>1, <2>2 DEF Recorder, Running
  <1>4. ASSUME NEW m \in Mics, Stopped(m) PROVE Recorder'
    <2>1. mic[m] = "stopping" /\ chunks' = chunks \cup {m} /\ ~overlap /\ recorder' = recorder
      BY <1>4 DEF Stopped
    <2>2. m = recorder /\ chunks' = {m} /\ \A n \in Mics \ {m} : ~Running(n)
      BY <2>1 DEF Recorder, Running
    <2>3. mic'[m] = "done" /\ \A n \in Mics \ {m} : mic'[n] = mic[n]
      BY <1>0, <1>4, <2>2 DEF Stopped, RecorderOK
    <2>4. \A s \in Requests : m \notin audio[s]
      BY <2>1 DEF Recorder
    <2>5. CASE audio' = audio
      BY <1>a, <2>1, <2>2, <2>3, <2>5 DEF Recorder, Running
    <2>6. ASSUME NEW r \in Requests, audio' = [audio EXCEPT ![r] = chunks'] PROVE Recorder'
      <3>1. audio'[r] = {m} /\ \A s \in Requests \ {r} : audio'[s] = audio[s]
        BY <1>0, <2>2, <2>6 DEF HandlerOK
      <3> QED  BY <1>a, <2>1, <2>2, <2>3, <2>4, <3>1 DEF Recorder, Running
    <2>7. audio' = audio \/ \E r \in Requests : audio' = [audio EXCEPT ![r] = chunks']
      BY <1>0, <1>4 DEF Stopped, Resolved, RecorderOK
    <2> QED  BY <2>5, <2>6, <2>7
  <1>5. ASSUME NEW r \in Requests, Answered(r) \/ ChooseFile(r) \/ ClickClarify(r)
        PROVE  Recorder'
    BY <1>5, <1>u, HandlersApart DEF Apart
  <1>6. CASE Leave \/ Return
    BY <1>6, <1>u DEF Leave, Return, rec, tape
  <1>7. ASSUME NEW r \in Requests, TaskEnds(r) PROVE Recorder'
    BY <1>7, <1>u DEF TaskEnds, rec, tape, client
  <1>8. CASE UNCHANGED vars
    BY <1>8, <1>u DEF vars, rec, tape, client
  <1> QED  BY <1>1, <1>2, <1>3, <1>4, <1>5, <1>6, <1>7, <1>8 DEF Next

\* What is uploaded comes from one stream, and nothing is uploaded twice, as long as no
\* recording begins before the last recorder has stopped (voice.js: mediaRecorder,
\* audioChunks and recording are the module's).
THEOREM AudioSentOnceAlways == Spec => []AudioSentOnce
  <1>1. Init => Armed /\ Recorder
    BY DEF Init, Armed, Recorder, Running
  <1>2. Recorder => AudioSentOnce
    <2> SUFFICES ASSUME Recorder, ~overlap PROVE AudioSentOnce
      BY DEF AudioSentOnce
    <2>1. \A r \in Requests : Cardinality(audio[r]) <= 1
      <3> SUFFICES ASSUME NEW r \in Requests PROVE Cardinality(audio[r]) <= 1
        OBVIOUS
      <3>1. CASE audio[r] = {}
        BY <3>1, FS_EmptySet
      <3>2. ASSUME NEW m \in Mics, audio[r] = {m} PROVE Cardinality(audio[r]) <= 1
        BY <3>2, FS_Singleton
      <3> QED  BY <3>1, <3>2 DEF Recorder
    <2> QED  BY <2>1 DEF Recorder, AudioSentOnce
  <1> QED  BY <1>1, <1>2, TypeCorrect, ArmedNext, RecorderNext, PTL DEF Spec

\* Every step that keeps a recording from its button says so.
LEMMA MicReleasedNext == TypeOK /\ MicReleased /\ [Next]_vars => MicReleased'
  <1> SUFFICES ASSUME TypeOK, MicReleased, [Next]_vars PROVE MicReleased'
    OBVIOUS
  <1>0. RecorderOK
    BY TypeParts
  <1>u. ASSUME UNCHANGED <<streams, recorder, recording, lapsed>> PROVE MicReleased'
    BY <1>u DEF MicReleased
  \* The catch clause of the record button.
  <1>g. ASSUME NEW v, Forget(v), streams' = streams PROVE MicReleased'
    BY <1>0, <1>g DEF Forget, MicReleased, RecorderOK
  <1>f. ASSUME NEW r \in Requests, Fails(r) PROVE MicReleased'
    BY <1>f, <1>g, <1>u DEF Fails, tape
  <1>1. ASSUME NEW m \in Mics, ClickStart(m) \/ Granted(m) \/ Denied(m) PROVE MicReleased'
    <2>1. CASE ClickStart(m)
      BY <1>u, <2>1 DEF ClickStart
    <2>2. CASE Granted(m)
      <3>1. /\ streams' = streams \cup {m} /\ recorder' = m /\ recording'
            /\ lapsed' = (lapsed \/ recording)
        BY <2>2 DEF Granted
      <3>2. ~lapsed' => streams = {}
        BY <1>0, <3>1 DEF MicReleased, RecorderOK
      <3> QED  BY <3>1, <3>2 DEF MicReleased
    <2>3. CASE Denied(m)
      BY <1>g, <2>3 DEF Denied
    <2> QED  BY <1>1, <2>1, <2>2, <2>3
  <1>2. ASSUME NEW r \in Requests, ClickStop(r) PROVE MicReleased'
    BY <1>2, <1>u DEF ClickStop
  <1>3. ASSUME NEW m \in Mics, Stopped(m) PROVE MicReleased'
    <2>1. CASE onstop[m] = None
      BY <1>3, <1>u, <2>1 DEF Stopped
    <2>2. CASE onstop[m] # None
      <3>1. streams' = streams \ {recorder} /\ ~recording' /\ lapsed' = lapsed
        BY <1>3, <2>2 DEF Stopped
      <3> QED  BY <3>1 DEF MicReleased
    <2> QED  BY <2>1, <2>2
  <1>4. ASSUME NEW r \in Requests, ChooseFile(r) \/ ClickClarify(r) PROVE MicReleased'
    BY <1>4, <1>u DEF ChooseFile, ClickClarify, rec, tape
  <1>5. CASE Leave \/ Return
    BY <1>5, <1>u DEF Leave, Return, rec, tape
  <1>6. ASSUME NEW r \in Requests, Answered(r) PROVE MicReleased'
    BY <1>6, <1>f, <1>u
    DEF Answered, Generate, Clarify, Asks, Waits, AnswerFails, Poll, Ready, rec, tape
  <1>7. ASSUME NEW r \in Requests, TaskEnds(r) PROVE MicReleased'
    BY <1>7, <1>u DEF TaskEnds, rec, tape
  <1>8. CASE UNCHANGED vars
    BY <1>8, <1>u DEF vars, rec, tape
  <1> QED  BY <1>1, <1>2, <1>3, <1>4, <1>5, <1>6, <1>7, <1>8 DEF Next

\* A microphone is open only while its recording can be stopped, unless another
\* prompt or a failure took the recording's place (voice.js).
THEOREM MicReleasedAlways == Spec => []MicReleased
  <1>1. Init => MicReleased
    BY DEF Init, MicReleased
  <1> QED  BY <1>1, TypeCorrect, MicReleasedNext, PTL DEF Spec

---------------------------------------------------------------------------
(* The server: sessions, slots and tasks of a request. *)

\* A request pays for its task and what the broker wasted; it has no task as long
\* as it can be answered, and neither before it is uploaded.
Ledger ==
  \A r \in Requests :
    /\ slots[r] = unsent[r] + (IF task[r] = None THEN 0 ELSE 1)
    /\ session[r] => task[r] = None
    /\ at[r] \in {"idle", "stopping", "upload"} => ~session[r] /\ task[r] = None
Finished == card.shows = "ready" => card.of \in Requests /\ task[card.of] = "success"

\* What a slot and a message do to the books of a request that has no task yet.
LEMMA QueueEffect ==
  ASSUME ServerOK, HandlerOK, NEW r \in Requests, Queue(r), task[r] = None,
         slots[r] = unsent[r] + (IF task[r] = None THEN 0 ELSE 1)
  PROVE  /\ slots'[r] = unsent'[r] + (IF task'[r] = None THEN 0 ELSE 1)
         /\ \A q \in Requests \ {r} :
              /\ slots'[q] = slots[q] /\ unsent'[q] = unsent[q] /\ task'[q] = task[q]
              /\ at'[q] = at[q]
         /\ \/ task'[r] = "queued" /\ at'[r] = "queued"
            \/ task'[r] = None /\ at'[r] = "denied"
  <1> USE DEF ServerOK, HandlerOK
  <1>1. slots'[r] = slots[r] + 1 /\ \A q \in Requests \ {r} : slots'[q] = slots[q]
    BY DEF Queue
  <1>2. CASE /\ task' = [task EXCEPT ![r] = "queued"] /\ at' = [at EXCEPT ![r] = "queued"]
             /\ UNCHANGED unsent
    <2>1. "queued" # None
      BY DEF None
    <2> QED  BY <1>1, <1>2, <2>1
  <1>3. CASE /\ unsent' = [unsent EXCEPT ![r] = @ + 1] /\ at' = [at EXCEPT ![r] = "denied"]
             /\ UNCHANGED task
    BY <1>1, <1>3
  <1> QED  BY <1>2, <1>3 DEF Queue

\* Every step keeps the books of every request.
LEMMA LedgerNext == TypeOK /\ Armed /\ Ledger /\ [Next]_vars => Ledger'
  <1> SUFFICES ASSUME TypeOK, Armed, Ledger, [Next]_vars PROVE Ledger'
    OBVIOUS
  <1>0. RecorderOK /\ HandlerOK /\ ServerOK
    BY TypeParts
  \* A step of the handler of r that the server knows nothing of.
  <1>h. ASSUME NEW r \in Requests, UNCHANGED server,
               \A q \in Requests \ {r} : at'[q] = at[q],
               at'[r] \in {"idle", "stopping", "upload"} => at[r] \in {"idle", "stopping", "upload"}
        PROVE  Ledger'
    <2>1. UNCHANGED <<session, task, slots, unsent>>
      BY <1>h DEF server
    <2> QED  BY <1>h, <2>1 DEF Ledger
  <1>u. ASSUME UNCHANGED <<at, server>> PROVE Ledger'
    BY <1>u DEF server, Ledger
  <1>1. ASSUME NEW m \in Mics, ClickStart(m) \/ Granted(m) \/ Denied(m) PROVE Ledger'
    BY <1>1, <1>u DEF ClickStart, Granted, Denied, client
  <1>2. ASSUME NEW r \in Requests, ClickStop(r) \/ ChooseFile(r) \/ ClickClarify(r) PROVE Ledger'
    <2>1. /\ \A q \in Requests \ {r} : at'[q] = at[q]
          /\ at[r] = "idle" \/ at'[r] = "clarify"
          /\ UNCHANGED server
      BY <1>0, <1>2 DEF ClickStop, ChooseFile, ClickClarify, NextRequest, HandlerOK
    <2> QED  BY <1>h, <2>1
  <1>3. ASSUME NEW m \in Mics, Stopped(m) PROVE Ledger'
    <2>1. UNCHANGED server
      BY <1>3 DEF Stopped
    <2>2. CASE onstop[m] = None
      BY <1>3, <1>u, <2>1, <2>2 DEF Stopped
    <2>3. CASE onstop[m] # None
      <3>1. onstop[m] \in Requests /\ at[onstop[m]] = "stopping" /\ Resolved(onstop[m])
        BY <1>0, <1>3, <2>3 DEF Stopped, Armed, RecorderOK
      <3>2. \A q \in Requests \ {onstop[m]} : at'[q] = at[q]
        BY <1>0, <3>1 DEF Resolved, HandlerOK
      <3> QED  BY <1>h, <2>1, <3>1, <3>2
    <2> QED  BY <2>2, <2>3
  <1>4. CASE Leave \/ Return
    BY <1>4, <1>u DEF Leave, Return
  <1>5. ASSUME NEW r \in Requests, Generate(r) PROVE Ledger'
    <2>1. /\ at[r] = "upload" /\ ~session[r] /\ task[r] = None
          /\ slots[r] = unsent[r] + (IF task[r] = None THEN 0 ELSE 1)
      BY <1>5 DEF Generate, Ledger
    <2>2. CASE /\ at' = [at EXCEPT ![r] = "question"]
               /\ session' = [session EXCEPT ![r] = TRUE]
               /\ UNCHANGED <<task, slots, unsent>>
      BY <1>0, <2>1, <2>2 DEF Ledger, HandlerOK, ServerOK
    <2>3. CASE Queue(r) /\ UNCHANGED session
      BY <1>0, <2>1, <2>3, QueueEffect DEF Ledger
    <2>4. CASE at' = [at EXCEPT ![r] = "denied"] /\ UNCHANGED <<session, task, slots, unsent>>
      BY <1>0, <2>1, <2>4 DEF Ledger, HandlerOK
    <2> QED  BY <1>5, <2>2, <2>3, <2>4 DEF Generate
  <1>6. ASSUME NEW r \in Requests, Clarify(r) PROVE Ledger'
    <2>1. /\ at[r] = "clarify"
          /\ slots[r] = unsent[r] + (IF task[r] = None THEN 0 ELSE 1)
          /\ session[r] => task[r] = None
      BY <1>6 DEF Clarify, Ledger
    <2>2. CASE /\ session[r] /\ at' = [at EXCEPT ![r] = "question"]
               /\ UNCHANGED <<session, task, slots, unsent>>
      BY <1>0, <2>1, <2>2 DEF Ledger, HandlerOK, ServerOK
    <2>3. CASE session[r] /\ session' = [session EXCEPT ![r] = FALSE] /\ Queue(r)
      <3>1. ~session'[r] /\ \A q \in Requests \ {r} : session'[q] = session[q]
        BY <1>0, <2>3 DEF ServerOK
      <3> QED  BY <1>0, <2>1, <2>3, <3>1, QueueEffect DEF Ledger
    <2>4. CASE /\ at' = [at EXCEPT ![r] = "denied"]
               /\ session' \in {session, [session EXCEPT ![r] = FALSE]}
               /\ UNCHANGED <<task, slots, unsent>>
      <3>1. \A q \in Requests : session'[q] => session[q]
        BY <1>0, <2>4 DEF ServerOK
      <3> QED  BY <1>0, <2>1, <2>4, <3>1 DEF Ledger, HandlerOK
    <2> QED  BY <1>6, <2>2, <2>3, <2>4 DEF Clarify
  <1>7. ASSUME NEW r \in Requests, TaskEnds(r) PROVE Ledger'
    <2>1. task[r] # None /\ task'[r] # None /\ \A q \in Requests \ {r} : task'[q] = task[q]
      BY <1>0, <1>7 DEF TaskEnds, ServerOK, None
    <2>2. UNCHANGED <<at, session, slots, unsent>>
      BY <1>7 DEF TaskEnds, client
    <2> QED  BY <2>1, <2>2 DEF Ledger
  <1>8. ASSUME NEW r \in Requests, Asks(r) \/ Waits(r) \/ AnswerFails(r) \/ Poll(r)
        PROVE  Ledger'
    <2>1. UNCHANGED server
      BY <1>8 DEF Asks, Waits, AnswerFails, Poll, Ready, Fails
    <2>2. at' = at \/ \E stage \in {"card", "over", "poll"} : at' = [at EXCEPT ![r] = stage]
      BY <1>8 DEF Asks, Waits, AnswerFails, Poll, Ready, Fails, Settle
    <2>3. CASE at' = at
      BY <1>u, <2>1, <2>3
    <2>4. ASSUME NEW stage \in {"card", "over", "poll"}, at' = [at EXCEPT ![r] = stage]
          PROVE  Ledger'
      BY <1>0, <1>h, <2>1, <2>4 DEF HandlerOK
    <2> QED  BY <2>2, <2>3, <2>4
  <1>9. CASE UNCHANGED vars
    BY <1>9, <1>u DEF vars, client
  <1> QED
    BY <1>1, <1>2, <1>3, <1>4, <1>5, <1>6, <1>7, <1>8, <1>9 DEF Next, Answered

\* A slot and a message, for a request without a task, are a step of its order.
LEMMA QueueOrders ==
  ASSUME NEW r \in Requests, Queue(r), task[r] = None
  PROVE  Order!Make(r) \/ Order!Waste(r)
  BY DEF Queue, Order!Make, Order!Waste, Order!Takes

\* Every step of the page, the endpoints and the worker is a step of the order of
\* some request, or none.
LEMMA OrderNext == Ledger /\ [Next]_vars => [Order!Next]_Order!vars
  <1> SUFFICES ASSUME Ledger, [Next]_vars PROVE [Order!Next]_Order!vars
    OBVIOUS
  <1>u. ASSUME UNCHANGED <<task, slots, unsent>> PROVE UNCHANGED Order!vars
    BY <1>u DEF Order!vars
  <1>1. ASSUME NEW r \in Requests, Generate(r) \/ Clarify(r) PROVE [Order!Next]_Order!vars
    <2>1. UNCHANGED <<task, slots, unsent>> \/ (Queue(r) /\ task[r] = None)
      BY <1>1 DEF Generate, Clarify, Ledger
    <2> QED  BY <1>u, <2>1, QueueOrders DEF Order!Next
  <1>2. ASSUME NEW r \in Requests, TaskEnds(r) PROVE Order!Next
    <2>1. Order!Finish(r)
      BY <1>2 DEF TaskEnds, Order!Finish
    <2> QED  BY <2>1 DEF Order!Next
  <1>3. ASSUME NEW r \in Requests, Asks(r) \/ Waits(r) \/ AnswerFails(r) \/ Poll(r)
        PROVE  UNCHANGED server
    BY <1>3 DEF Asks, Waits, AnswerFails, Poll, Ready, Fails
  <1>4. ASSUME \/ \E m \in Mics : ClickStart(m) \/ Granted(m) \/ Denied(m) \/ Stopped(m)
               \/ \E r \in Requests : ClickStop(r) \/ ChooseFile(r) \/ ClickClarify(r)
               \/ Leave \/ Return \/ UNCHANGED vars
        PROVE  UNCHANGED server
    BY <1>4 DEF ClickStart, Granted, Denied, Stopped, ClickStop, ChooseFile, ClickClarify, Leave,
                Return, vars
  <1>5. UNCHANGED server => UNCHANGED Order!vars
    BY <1>u DEF server
  <1> QED  BY <1>1, <1>2, <1>3, <1>4, <1>5 DEF Next, Answered

\* For any requests and bounds, a voice request is an order: however often it is
\* answered, and whatever is refused or lost (routers/voice_report.py).
THEOREM VoiceOrdersKeptAlways == Spec => VoiceOrdersKept
  <1>1. Init => Armed /\ Ledger /\ Order!Init
    BY DEF Init, Armed, Ledger, None, Order!Init
  <1> QED
    BY <1>1, TypeCorrect, ArmedNext, LedgerNext, OrderNext, PTL
    DEF Spec, VoiceOrdersKept, Order!Spec

\* One slot for a report and none without, as its holder counts them.
OnceCounted ==
  /\ task \in [Requests -> {None, "queued", "success", "failure"}]
  /\ slots \in [Requests -> Nat] /\ unsent \in [Requests -> Nat]
  /\ Order!PaidOnce

\* An order that is never opened again is paid for once.
THEOREM VoiceOrderPaidOnce == Order!Spec => []Order!PaidOnce
  <1>1. Order!Init => OnceCounted
    BY DEF Order!Init, OnceCounted, Order!PaidOnce
  <1>2. OnceCounted /\ [Order!Next]_Order!vars => OnceCounted'
    <2> SUFFICES ASSUME OnceCounted, [Order!Next]_Order!vars PROVE OnceCounted'
      OBVIOUS
    <2> USE DEF OnceCounted, Order!PaidOnce
    <2>1. ASSUME NEW o \in Requests, Order!Make(o) PROVE OnceCounted'
      BY <2>1 DEF Order!Make, Order!Takes, None
    <2>2. ASSUME NEW o \in Requests, Order!Waste(o) PROVE OnceCounted'
      BY <2>2 DEF Order!Waste, Order!Takes, None
    <2>3. ASSUME NEW o \in Requests, Order!Finish(o) PROVE OnceCounted'
      BY <2>3 DEF Order!Finish, None
    <2>4. ASSUME NEW o \in Requests, Order!Reopen(o) PROVE FALSE
      BY <2>4 DEF Order!Reopen
    <2>5. CASE UNCHANGED Order!vars
      BY <2>5 DEF Order!vars
    <2> QED  BY <2>1, <2>2, <2>3, <2>4, <2>5 DEF Order!Next
  <1>3. OnceCounted => Order!PaidOnce
    BY DEF OnceCounted
  <1> QED  BY <1>1, <1>2, <1>3, PTL DEF Order!Spec

\* So a voice request takes one slot besides those the broker wasted.
THEOREM VoicePaidOnceAlways == Spec => []VoicePaidOnce
  <1>1. TypeOK /\ Order!PaidOnce => VoicePaidOnce
    <2> SUFFICES ASSUME TypeOK, Order!PaidOnce, NEW r \in Requests
                 PROVE  slots[r] - unsent[r] <= 1
      BY DEF VoicePaidOnce
    <2>1. unsent[r] \in Nat /\ slots[r] \in Nat
      BY TypeParts DEF ServerOK
    <2>2. slots[r] = unsent[r] \/ slots[r] = unsent[r] + 1
      BY DEF Order!PaidOnce
    <2> QED  BY <2>1, <2>2
  <1> QED
    BY <1>1, TypeCorrect, VoiceOrdersKeptAlways, VoiceOrderPaidOnce, PTL DEF VoiceOrdersKept

\* A task that succeeded is not queued again, and only such a task is shown as ready.
LEMMA FinishedNext == TypeOK /\ Ledger /\ Finished /\ [Next]_vars => Finished'
  <1> SUFFICES ASSUME TypeOK, Ledger, Finished, [Next]_vars PROVE Finished'
    OBVIOUS
  <1>0. ServerOK /\ "success" # None
    BY TypeParts DEF None
  <1>u. ASSUME UNCHANGED card, \A q \in Requests : task[q] = "success" => task'[q] = "success"
        PROVE  Finished'
    BY <1>u DEF Finished
  <1>n. ASSUME NEW r, NEW s, s # "ready", card' = [of |-> r, shows |-> s] PROVE Finished'
    BY <1>n DEF Finished
  <1>f. ASSUME NEW r \in Requests, Fails(r) PROVE Finished'
    BY <1>f, <1>u DEF Fails, server
  <1>q. ASSUME NEW r \in Requests, task[r] = None, Queue(r)
        PROVE  \A q \in Requests : task[q] = "success" => task'[q] = "success"
    BY <1>0, <1>q DEF Queue, ServerOK
  <1>1. ASSUME NEW m \in Mics, ClickStart(m) \/ Granted(m) \/ Denied(m) \/ Stopped(m)
        PROVE  Finished'
    BY <1>1, <1>u DEF ClickStart, Granted, Denied, Stopped, client, server
  <1>2. ASSUME NEW r \in Requests, ClickStop(r) \/ ChooseFile(r) \/ ClickClarify(r)
        PROVE  Finished'
    BY <1>2, <1>u DEF ClickStop, ChooseFile, ClickClarify, server
  <1>3. CASE Leave \/ Return
    <2>1. CASE Leave
      <3>1. card' = [of |-> None, shows |-> "nothing"]
        BY <2>1 DEF Leave, NoCard
      <3> QED  BY <1>n, <3>1
    <2>2. CASE Return
      BY <1>u, <2>2 DEF Return, server
    <2> QED  BY <1>3, <2>1, <2>2
  <1>4. ASSUME NEW r \in Requests, Generate(r) \/ Clarify(r) PROVE Finished'
    <2>1. card' = card
      BY <1>4 DEF Generate, Clarify
    <2>2. UNCHANGED task \/ (Queue(r) /\ task[r] = None)
      BY <1>4 DEF Generate, Clarify, Ledger
    <2> QED  BY <1>q, <1>u, <2>1, <2>2
  <1>5. ASSUME NEW r \in Requests, TaskEnds(r) PROVE Finished'
    <2>1. task[r] = "queued" /\ \A q \in Requests \ {r} : task'[q] = task[q]
      BY <1>0, <1>5 DEF TaskEnds, ServerOK
    <2>2. card' = card
      BY <1>5 DEF TaskEnds, client
    <2> QED  BY <1>u, <2>1, <2>2
  <1>6. ASSUME NEW r \in Requests, Asks(r) \/ Waits(r) PROVE Finished'
    <2>1. UNCHANGED server
      BY <1>6 DEF Asks, Waits
    <2>2. card' = card \/ \E s \in {"question", "waiting"} : card' = [of |-> r, shows |-> s]
      BY <1>6 DEF Asks, Waits
    <2> QED  BY <1>n, <1>u, <2>1, <2>2 DEF server
  <1>7. ASSUME NEW r \in Requests, AnswerFails(r) PROVE Finished'
    BY <1>7, <1>f DEF AnswerFails
  <1>8. ASSUME NEW r \in Requests, Poll(r) PROVE Finished'
    <2>1. CASE task[r] = "success" /\ Ready(r)
      <3>1. card' = IF el[r] THEN [of |-> r, shows |-> "ready"] ELSE card
        BY <2>1 DEF Ready
      <3>2. task' = task
        BY <2>1 DEF Ready, server
      <3> QED  BY <2>1, <3>1, <3>2 DEF Finished
    <2>2. CASE Fails(r)
      BY <1>f, <2>2
    <2>3. CASE UNCHANGED <<rec, page, at, via, btn, audio, el, card, server>>
      BY <1>u, <2>3 DEF server
    <2> QED  BY <1>8, <2>1, <2>2, <2>3 DEF Poll
  <1>9. CASE UNCHANGED vars
    BY <1>9, <1>u DEF vars, client, server
  <1> QED
    BY <1>1, <1>2, <1>3, <1>4, <1>5, <1>6, <1>7, <1>8, <1>9 DEF Next, Answered

\* "The report is ready" is said of a task that succeeded, whatever page is on the
\* screen and however many requests share it (voice.js: pollVoiceTask).
THEOREM ReadyIsTrueAlways == Spec => []ReadyIsTrue
  <1>1. Init => Armed /\ Ledger /\ Finished
    <2>1. Init => Armed /\ Ledger
      BY DEF Init, Armed, Ledger, None
    <2>2. Init => card.shows = "nothing"
      BY DEF Init, NoCard
    <2> QED  BY <2>1, <2>2 DEF Finished
  <1>2. Finished => ReadyIsTrue
    BY DEF Finished, ReadyIsTrue
  <1> QED  BY <1>1, <1>2, TypeCorrect, ArmedNext, LedgerNext, FinishedNext, PTL DEF Spec

=============================================================================
