--------------------------- MODULE ConsoleProofs ---------------------------
(***************************************************************************)
(* Proofs about Console, for any tables, rows and bounds.                  *)
(*                                                                         *)
(* All rests on what a request in flight may be (Fit): an operation of the *)
(* page it names, on a row of that page; and on four ways its slot changes *)
(* (sent, answered by the server, lost, taken by its handler).             *)
(***************************************************************************)
EXTENDS Console, FiniteSetTheorems, TLAPS

USE DEF server

---------------------------------------------------------------------------
(* Operations. *)

Effects == {"new", "rotate", "unsent", "revoke", "none", "refused", "remove", "flip",
            "off", "on", "clear"}

\* What the table of operations says of each.
Sound(op) ==
  /\ op.page \in Tables
  /\ op.asks \in {"no", "confirm", "form"}
  /\ op.effect \in Effects
  /\ op.then \in {"show", "stay", "reload"}
  /\ op.page = "/keys" => op.effect \in {"new", "rotate", "unsent", "revoke"}
  /\ op.page = "/admin/users" => op.effect \in {"off", "on", "remove"}
  /\ op.effect = "rotate" => op.page = "/keys"
  /\ op.effect = "flip" <=> op.name \in {"toggle", "save"}
  /\ op.effect = "flip" => op.asks = "no" /\ op.then = "stay" /\ op.when = Present
  /\ op.then = "stay" => op.effect \in {"unsent", "refused", "none", "flip"}
  /\ op.then = "show" => op.effect = "none" \/ op.page = "/keys"

\* Every operation is sound.
LEMMA OpFacts == \A op \in Ops : Sound(op)
  <1> USE DEF Sound, Op, Tables, Effects, Present, States
  <1>1. \A op \in KeyOps : Sound(op)
    BY DEF KeyOps
  <1>2. \A op \in ReportOps : Sound(op)
    BY DEF ReportOps, DownloadOp
  <1>3. \A op \in WebhookOps : Sound(op)
    BY DEF WebhookOps
  <1>4. \A op \in SubscriptionOps \cup PreferenceOps : Sound(op)
    BY DEF SubscriptionOps, PreferenceOps
  <1>5. \A op \in UserOps : Sound(op)
    BY DEF UserOps
  <1>6. \A op \in PaymentOps \cup CeleryOps : Sound(op)
    BY DEF PaymentOps, CeleryOps
  <1>7. \A op \in HealingOps : Sound(op)
    BY DEF HealingOps
  <1> QED  BY <1>1, <1>2, <1>3, <1>4, <1>5, <1>6, <1>7 DEF Ops

\* A row has a state of its own after every operation on it.
LEMMA ResultTyped ==
  ASSUME NEW p \in Tables, NEW op, NEW r \in [Items[p] -> States], NEW i \in Items[p],
         NEW to \in States, NEW q \in Results(op, r, i, to)
  PROVE  q \in [Items[p] -> States]
  BY DEF Results, Rotate, RotateNew, States

\* No operation reaches anything but tables, and only one on a user reaches others.
LEMMA ReachesTables ==
  \A op, i : /\ Reaches(op, i) \subseteq Tables
             /\ Reaches(op, i) # {} =>
                  /\ op.page = "/admin/users" /\ i = Account
                  /\ \/ op.effect = "off" /\ Reaches(op, i) = {"/keys"}
                     \/ op.effect = "remove" /\ Reaches(op, i) = Owned
  BY DEF Reaches, Owned, ForUsers, Tables

RowsOK(rs) == DOMAIN rs = Tables /\ \A p \in Tables : rs[p] \in [Items[p] -> States]

\* So have all the tables after an operation, which leaves those alone that it does
\* not reach.
LEMMA TabledTyped ==
  ASSUME RowsOK(rows), NEW op, op.page \in Tables, NEW i \in Items[op.page],
         NEW to \in States, NEW rs \in Tabled(op, i, to)
  PROVE  /\ RowsOK(rs) /\ rs[op.page] \in Results(op, rows[op.page], i, to)
         /\ \A p \in Tables \ (Reaches(op, i) \cup {op.page}) : rs[p] = rows[p]
         /\ \A p \in Reaches(op, i) \ {op.page} :
              rs[p] = IF op.effect = "remove" THEN Emptied(p) ELSE Revoked(rows[p])
  <1>1. PICK r \in Results(op, rows[op.page], i, to) :
          rs = [p \in Tables |-> IF p = op.page THEN r
                  ELSE IF p \notin Reaches(op, i) THEN rows[p]
                  ELSE IF op.effect = "remove" THEN Emptied(p) ELSE Revoked(rows[p])]
    BY DEF Tabled
  <1>2. r \in [Items[op.page] -> States]
    BY ResultTyped DEF RowsOK
  <1>3. ASSUME NEW p \in Tables PROVE rs[p] \in [Items[p] -> States]
    <2>1. Emptied(p) \in [Items[p] -> States]
      BY DEF Emptied, States
    <2>2. p \in Reaches(op, i) /\ op.effect # "remove" => p = "/keys"
      BY ReachesTables
    <2>3. p = "/keys" => Revoked(rows[p]) \in [Items[p] -> States]
      BY DEF Revoked, RowsOK, States
    <2>4. rows[p] \in [Items[p] -> States]
      BY DEF RowsOK
    <2> QED  BY <1>1, <1>2, <2>1, <2>2, <2>3, <2>4
  <1>4. RowsOK(rs)
    BY <1>1, <1>3 DEF RowsOK
  <1>5. Reaches(op, i) \subseteq Tables
    BY ReachesTables
  <1> QED  BY <1>1, <1>4, <1>5

\* What may become of the keys r: nothing, a new one, one less of several, or one in
\* the place of another.
Turns(r, q) ==
  \/ q = r
  \/ \E n \in Items["/keys"] : r[n] = "absent" /\ q = [r EXCEPT ![n] = "on"]
  \/ \E i \in Items["/keys"] : r[i] = "on" /\ Live(r) # {i} /\ q = [r EXCEPT ![i] = "off"]
  \/ \E i, n \in Items["/keys"] : r[i] # "absent" /\ r[n] = "absent" /\ q = Rotate(r, i, n)

\* A revocation leaves an active key, because it finds two; one of a key that is
\* revoked changes nothing.
LEMMA RevokeTurns ==
  ASSUME NEW r \in [Items["/keys"] -> States], NEW i \in Items["/keys"],
         r[i] # "absent", Cardinality(Live(r)) > 1
  PROVE  Turns(r, [r EXCEPT ![i] = "off"])
  <1>1. Live(r) # {i}
    <2>1. Cardinality({i}) = 1
      BY FS_Singleton
    <2> QED  BY <2>1
  <1>2. r[i] = "on" \/ r[i] = "off"
    BY DEF States
  <1>3. r[i] = "off" => [r EXCEPT ![i] = "off"] = r
    OBVIOUS
  <1> QED  BY <1>1, <1>2, <1>3 DEF Turns

\* That is all the operations do that the server permits.
LEMMA ResultTurns ==
  ASSUME NEW op \in Ops, op.page = "/keys", NEW r \in [Items["/keys"] -> States],
         NEW i \in Items["/keys"], NEW to, Permits(op, r, i),
         NEW q \in Results(op, r, i, to)
  PROVE  Turns(r, q)
  <1>0. op.effect \in {"new", "rotate", "unsent", "revoke"}
    BY OpFacts DEF Sound
  <1>1. CASE op.effect = "revoke"
    <2>1. r[i] # "absent" /\ Cardinality(Live(r)) > 1 /\ q = [r EXCEPT ![i] = "off"]
      BY <1>1 DEF Permits, Results
    <2> QED  BY <2>1, RevokeTurns
  <1>2. CASE op.effect = "new"
    <2>1. \E n \in Items["/keys"] : r[n] = "absent" /\ q = [r EXCEPT ![n] = "on"]
      BY <1>2 DEF Results
    <2> QED  BY <2>1 DEF Turns
  <1>3. CASE op.effect = "rotate"
    <2>1. PICK n \in Items["/keys"] : r[n] = "absent" /\ q = Rotate(r, i, n)
      BY <1>3 DEF Results
    <2>2. r[i] # "absent"
      BY <1>3 DEF Permits
    <2> QED  BY <2>1, <2>2 DEF Turns
  <1>4. CASE op.effect = "unsent"
    BY <1>4 DEF Results, Turns
  <1> QED  BY <1>0, <1>1, <1>2, <1>3, <1>4

---------------------------------------------------------------------------
(* Requests in flight. *)

\* What a request is about.
Apt(c) ==
  /\ c.does = "act" => c.op \in Ops /\ c.path = c.op.page /\ c.item \in Items[c.path]
  /\ c.does # "act" => c.op = NoOp /\ c.item = None
  /\ c.does = "list" =>
       c.path \in Tables /\ (c.got = "ok" => c.rows \in [Items[c.path] -> States])
  /\ c.does \in {"first", "poll"} => c.path = Health
  /\ c.does = "logs" => c.path = Logs

Fit(cs) ==
  /\ cs \in [Slots -> Call \cup {NoCall}]
  /\ \A s \in Slots : cs[s] # NoCall => Apt(cs[s])

Does == {"list", "act", "first", "poll", "logs"}

\* A request's fields.
LEMMA CallParts ==
  \A c : c \in Call <=>
    /\ c = [does |-> c.does, path |-> c.path, op |-> c.op, item |-> c.item, to |-> c.to,
            view |-> c.view, got |-> c.got, rows |-> c.rows]
    /\ c.does \in Does /\ c.path \in Paths /\ c.op \in Ops \cup {NoOp}
    /\ c.item \in AllItems \cup {None} /\ c.to \in States /\ c.view \in Nat
    /\ c.got \in {"sent", "ok", "failed", "refused"} /\ c.rows \in Rows
  BY DEF Call, Does

\* An empty slot holds no request.
LEMMA NoCallApart == NoCall \notin Call /\ \A c \in Call : c # NoCall
  BY DEF NoCall, None, Call

\* The addresses are apart.
LEMMA TablePaths == Tables \subseteq Paths /\ Health \in Paths \ Tables /\ Logs \in Paths \ Tables
                    /\ "/login" \in Paths \ Tables /\ "/keys" \in Tables /\ Health # Logs
                    /\ Health # "/login" /\ Logs # "/login"
  BY DEF Paths, Tables, Health, Logs

\* A new request for a page is one.
LEMMA RequestFit ==
  ASSUME NEW does \in Does \ {"act"}, NEW p \in Paths, NEW v \in Nat,
         does = "list" => p \in Tables, does \in {"first", "poll"} => p = Health,
         does = "logs" => p = Logs
  PROVE  /\ Request(does, p) \in Call /\ Apt(Request(does, p))
         /\ [Request(does, p) EXCEPT !.view = v] \in Call
         /\ Apt([Request(does, p) EXCEPT !.view = v])
  BY CallParts DEF Request, Apt, Does, States, Rows

\* So is a new request for an operation.
LEMMA ActFit ==
  ASSUME NEW op \in Ops, NEW i \in Items[op.page], NEW to \in States
  PROVE  /\ ActRequest(op, i, to) \in Call /\ Apt(ActRequest(op, i, to))
         /\ ActRequest(op, i, to).does = "act" /\ ActRequest(op, i, to).op = op
         /\ ActRequest(op, i, to).item = i /\ ActRequest(op, i, to).path = op.page
         /\ ActRequest(op, i, to).to = to
  <1>1. op.page \in Tables /\ op.page \in Paths
    BY OpFacts, TablePaths DEF Sound
  <1>2. i \in AllItems
    BY <1>1 DEF AllItems
  <1> DEFINE a == Request("act", op.page)
  <1>3. ActRequest(op, i, to) = [does |-> "act", path |-> op.page, op |-> op, item |-> i,
                                 to |-> to, view |-> 0, got |-> "sent", rows |-> NoRows]
    <2>1. a = [does |-> "act", path |-> op.page, op |-> NoOp, item |-> None,
               to |-> "on", view |-> 0, got |-> "sent", rows |-> NoRows]
      BY DEF Request
    <2>2. ActRequest(op, i, to) = [a EXCEPT !.op = op, !.item = i, !.to = to]
      BY DEF ActRequest
    <2> HIDE DEF a
    <2> QED  BY <2>1, <2>2
  <1> QED  BY <1>1, <1>2, <1>3, CallParts DEF Apt, Does, Rows

\* Sending takes an empty slot.
LEMMA Sending ==
  ASSUME NEW cs, Fit(cs), NEW c, Send(cs, c)
  PROVE  \E t \in Slots : cs[t] = NoCall /\ calls' = [cs EXCEPT ![t] = c]
  <1>1. \E t \in Slots : t \notin Busy(cs)
    BY DEF Send, Busy
  <1>2. FreeSlot(cs) \in Slots /\ FreeSlot(cs) \notin Busy(cs)
    BY <1>1 DEF FreeSlot
  <1> QED  BY <1>2 DEF Send, Busy

\* So all requests stay apt when one is sent, or taken.
LEMMA SendFit ==
  ASSUME NEW cs, Fit(cs), NEW c \in Call, Apt(c), Send(cs, c), mixed \subseteq Tables
  PROVE  Fit(calls') /\ mixed' \subseteq Tables
  BY Sending DEF Fit, Send

\* They stay so when one is taken from its slot.
LEMMA WithoutFit ==
  ASSUME NEW s, Fit(calls)
  PROVE  Fit(Without(s))
  BY DEF Fit, Without

\* The server's answer leaves the rest of a request alone.
LEMMA GotFit ==
  ASSUME Fit(calls), NEW s \in Busy(calls), NEW got \in {"sent", "ok", "failed", "refused"},
         got # "ok" \/ calls[s].does # "list", Got(s, got)
  PROVE  /\ Fit(calls') /\ calls'[s] # NoCall /\ calls'[s].got = got
         /\ calls'[s].does = calls[s].does /\ calls'[s].path = calls[s].path
         /\ calls'[s].op = calls[s].op /\ calls'[s].item = calls[s].item
         /\ calls'[s].to = calls[s].to
         /\ \A t \in Slots \ {s} : calls'[t] = calls[t]
  <1>1. s \in Slots /\ calls[s] \in Call /\ Apt(calls[s])
    BY NoCallApart DEF Fit, Busy
  <1>2. calls' = [calls EXCEPT ![s] = [calls[s] EXCEPT !.got = got]]
    BY DEF Got
  <1> DEFINE d == [calls[s] EXCEPT !.got = got]
  <1>3. /\ d = [does |-> d.does, path |-> d.path, op |-> d.op, item |-> d.item, to |-> d.to,
                view |-> d.view, got |-> d.got, rows |-> d.rows]
        /\ d.does = calls[s].does /\ d.path = calls[s].path /\ d.op = calls[s].op
        /\ d.item = calls[s].item /\ d.to = calls[s].to /\ d.view = calls[s].view
        /\ d.rows = calls[s].rows /\ d.got = got
    BY <1>1, CallParts
  <1>4. d \in Call /\ d # NoCall /\ Apt(d)
    <2> HIDE DEF d
    <2>1. d \in Call
      BY <1>1, <1>3, CallParts
    <2> QED  BY <1>1, <1>3, <2>1, NoCallApart DEF Apt
  <1>5. calls'[s] = d /\ \A t \in Slots \ {s} : calls'[t] = calls[t]
    BY <1>1, <1>2 DEF Fit
  <1> HIDE DEF d
  <1> QED  BY <1>1, <1>2, <1>3, <1>4, <1>5 DEF Fit

---------------------------------------------------------------------------
(* Type correctness. *)

\* What the router may be asked for while there is a session.
Places == Tables \cup {Health, Logs}

AddressOK ==
  /\ hash \in Paths /\ due \in BOOLEAN /\ signed \in BOOLEAN
  /\ signed => hash \in Places
  /\ timer \in BOOLEAN /\ acts \in 0 .. MaxActs

\* Only rows of a table on the screen have a switch that was moved.
ScreenOK(s) ==
  /\ s \in [path : Paths, shows : {"spinner", "data", "error"}, rows : Rows,
            held : SUBSET AllItems, view : Nat]
  /\ s.path \in Tables /\ s.shows = "data" =>
       s.rows \in [Items[s.path] -> States] /\ s.held \subseteq Items[s.path]
  /\ s.held # {} => s.path \in Tables /\ s.shows = "data"

DialogsOK(ds) ==
  /\ ds \in SUBSET [op : Ops, item : AllItems, kind : {"ask", "secret"}]
  /\ \A d \in ds : d.item \in Items[d.op.page] /\ (d.kind = "ask" => d.op.asks # "no")

StreamOK(st) == st \in [abort : BOOLEAN, views : 0 .. MaxViews, tails : [Views -> Nat],
                        on : [Views -> BOOLEAN]]

HistoryOK == expired \subseteq Expiring /\ mixed \in SUBSET Tables

Shape ==
  /\ AddressOK /\ ScreenOK(screen) /\ DialogsOK(dialogs) /\ Fit(calls)
  /\ StreamOK(stream) /\ RowsOK(rows) /\ HistoryOK

\* The shape of the state is more than its type.
LEMMA ShapeTypes == Shape => TypeOK
  BY DEF Shape, TypeOK, AddressOK, ScreenOK, DialogsOK, Fit, StreamOK, RowsOK, HistoryOK, Paths

\* The bounds are numbers, and the user goes to places only.
LEMMA Bounds == MaxActs \in Nat /\ MaxViews \in Nat /\ Visits \subseteq Places
                /\ Places \subseteq Paths
  BY ConsoleAssumption DEF Places, Paths

\* What a page starts with, and what is drawn.
LEMMA SpinnerOK == \A p \in Paths : ScreenOK(Spinner(p)) /\ Spinner(p).shows = "spinner"
                                    /\ Spinner(p).path = p
  BY DEF ScreenOK, Spinner, Rows
\* So has a page that is drawn.
LEMMA DataOK ==
  ASSUME NEW p \in Paths, NEW r, NEW v \in Nat,
         IF p \in Tables THEN r \in [Items[p] -> States] ELSE r = NoRows
  PROVE  /\ ScreenOK(Data(p, r)) /\ ScreenOK([Data(p, r) EXCEPT !.view = v])
         /\ Data(p, r).path = p /\ Data(p, r).rows = r /\ Data(p, r).shows = "data"
         /\ Data(p, r).held = {}
  BY DEF ScreenOK, Data, Rows
\* So has one that shows an error, or the login form.
LEMMA SpinnerTurnsOK ==
  ASSUME NEW p \in Paths, NEW how \in {"data", "error"}, how = "data" => p \notin Tables
  PROVE  ScreenOK([Spinner(p) EXCEPT !.shows = how])
  BY DEF ScreenOK, Spinner, Rows

\* The initial state has the shape.
LEMMA ShapeInit == Init => Shape
  <1> SUFFICES ASSUME Init PROVE Shape
    OBVIOUS
  <1>1. AddressOK
    <2>1. hash \in Places /\ acts = 0 /\ 0 \in 0 .. MaxActs
      BY Bounds DEF Init
    <2> QED  BY <2>1, Bounds DEF Init, AddressOK
  <1>2. ScreenOK(screen)
    BY SpinnerOK, TablePaths DEF Init
  <1>3. Fit(calls)
    BY DEF Init, Fit
  <1>4. StreamOK(stream)
    <2>1. 0 \in 0 .. MaxViews
      BY Bounds
    <2> QED  BY <2>1 DEF Init, StreamOK
  <1>5. RowsOK(rows)
    BY DEF Init, RowsOK, States
  <1> QED  BY <1>1, <1>2, <1>3, <1>4, <1>5 DEF Init, Shape, DialogsOK, HistoryOK

\* Rendering a page keeps the shape.
LEMMA Mounting ==
  ASSUME NEW p \in Places, NEW cs, Fit(cs), StreamOK(stream), mixed \subseteq Tables, Mount(p, cs)
  PROVE  /\ ScreenOK(screen') /\ Fit(calls') /\ StreamOK(stream') /\ mixed' \subseteq Tables
         /\ \E t \in Slots : /\ cs[t] = NoCall /\ calls'[t].does \in Does \ {"act"}
                             /\ calls'[t].path = p /\ calls'[t] \in Call
                             /\ p = Health => calls'[t].does = "first"
                             /\ calls'[t].got = "sent"
                             /\ calls' = [cs EXCEPT ![t] = calls'[t]]
         /\ mixed \subseteq mixed'
         /\ p \in Tables /\ (\E s \in Busy(cs) : cs[s].path = p) => p \in mixed'
  <1>0. p \in Paths /\ screen' = Spinner(p)
    BY Bounds DEF Mount
  <1>1. PICK c \in Call : /\ Apt(c) /\ Send(cs, c) /\ StreamOK(stream')
                          /\ c.does \in Does \ {"act"} /\ c.path = p /\ c.got = "sent"
                          /\ p = Health => c.does = "first"
    <2>1. CASE p = Logs
      <3> DEFINE r == Request("logs", Logs)
                 c == [r EXCEPT !.view = stream'.views]
      <3>1. StreamOK(stream') /\ stream'.views \in Nat /\ Send(cs, c)
        <4>1. MountLogs(cs)
          BY <2>1 DEF Mount
        <4>2. /\ stream.views < MaxViews /\ stream.views \in 0 .. MaxViews
              /\ stream' = [stream EXCEPT !.abort = TRUE, !.views = stream.views + 1]
          BY <4>1 DEF MountLogs, StreamOK
        <4>3. stream'.views = stream.views + 1 /\ stream.views + 1 \in 0 .. MaxViews
          BY <4>2, Bounds DEF StreamOK
        <4>4. stream'.views \in Nat /\ Send(cs, c)
          BY <4>1, <4>3, Bounds DEF MountLogs
        <4>5. StreamOK(stream')
          BY <4>2, <4>3 DEF StreamOK
        <4> QED  BY <4>4, <4>5
      <3>2. c.does = "logs" /\ c.path = Logs /\ c.got = "sent"
        BY DEF Request
      <3>3. c \in Call /\ Apt(c)
        BY <3>1, RequestFit, TablePaths DEF Does
      <3> HIDE DEF c
      <3> QED  BY <2>1, <3>1, <3>2, <3>3, TablePaths DEF Does
    <2>2. CASE p # Logs
      <3> DEFINE does == IF p = Health THEN "first" ELSE "list"
                 c == Request(does, p)
      <3>1. Send(cs, c) /\ UNCHANGED stream
        BY <2>2 DEF Mount
      <3>2. c.does = does /\ c.path = p /\ c.got = "sent"
        BY DEF Request
      <3>3. does \in Does \ {"act"} /\ (does = "list" => p \in Tables)
        BY <2>2 DEF Does, Places
      <3>4. c \in Call /\ Apt(c)
        BY <1>0, <3>3, RequestFit
      <3> HIDE DEF c
      <3> QED  BY <3>1, <3>2, <3>3, <3>4
    <2> QED  BY <2>1, <2>2
  <1>2. PICK t \in Slots : cs[t] = NoCall /\ calls' = [cs EXCEPT ![t] = c]
    BY <1>1, Sending
  <1>3. calls'[t] = c
    BY <1>2 DEF Fit
  <1>4. /\ mixed \subseteq mixed'
        /\ p \in Tables /\ (\E s \in Busy(cs) : cs[s].path = p) => p \in mixed'
    BY <1>1 DEF Send
  <1> QED  BY <1>0, <1>1, <1>2, <1>3, <1>4, SpinnerOK, SendFit

\* The screen keeps its shape when a row and the switches that wait change.
LEMMA RowChangeOK ==
  ASSUME NEW s, ScreenOK(s), s.path \in Tables, s.shows = "data",
         NEW i \in Items[s.path], NEW to \in States, NEW held \in SUBSET Items[s.path]
  PROVE  ScreenOK([s EXCEPT !.rows = [s.rows EXCEPT ![i] = to], !.held = held])
  <1> DEFINE r == [s.rows EXCEPT ![i] = to]
  <1>1. r \in [Items[s.path] -> States]
    BY DEF ScreenOK
  <1>2. r \in Rows /\ held \in SUBSET AllItems
    BY <1>1 DEF Rows, AllItems
  <1> HIDE DEF r
  <1> DEFINE t == [s EXCEPT !.rows = r, !.held = held]
  <1>3. /\ t = [path |-> s.path, shows |-> s.shows, rows |-> r, held |-> held, view |-> s.view]
        /\ s.path \in Paths /\ s.view \in Nat
    <2>1. s = [path |-> s.path, shows |-> s.shows, rows |-> s.rows, held |-> s.held,
               view |-> s.view]
      BY DEF ScreenOK
    <2>2. PICK path, shows, old, was, view :
            s = [path |-> path, shows |-> shows, rows |-> old, held |-> was, view |-> view]
      BY <2>1, Zenon
    <2>3. PICK u : u = [s EXCEPT !.rows = r]
      OBVIOUS
    <2>5. u = [path |-> path, shows |-> shows, rows |-> r, held |-> was, view |-> view]
      BY <2>2, <2>3
    <2>6. t = [u EXCEPT !.held = held]
      BY <2>3
    <2>7. t = [path |-> path, shows |-> shows, rows |-> r, held |-> held, view |-> view]
      BY <2>5, <2>6
    <2>4. s.path \in Paths /\ s.view \in Nat
      BY DEF ScreenOK
    <2> QED  BY <2>2, <2>4, <2>7
  <1>4. ScreenOK(t)
    BY <1>1, <1>2, <1>3 DEF ScreenOK
  <1> QED  BY <1>4 DEF r

\* A switch has a state.
LEMMA FlippedState == \A x : Flipped(x) \in States
  BY DEF Flipped, States

\* So it does in what a handler's catch leaves.
LEMMA CaughtOK ==
  ASSUME ScreenOK(screen), NEW c \in Call
  PROVE  ScreenOK(Caught(c))
  <1>1. CASE c.does = "list" /\ c.path = "/subscription"
    <2>1. Caught(c) = [Spinner(c.path) EXCEPT !.shows = "error"] /\ c.path \in Paths
      BY <1>1, CallParts DEF Caught
    <2> QED  BY <2>1, SpinnerTurnsOK
  <1>2. CASE /\ ~(c.does = "list" /\ c.path = "/subscription")
             /\ c.op.name = "toggle" /\ screen.path = c.path /\ c.item \in screen.held
    <2> DEFINE i == c.item
               to == Flipped(screen.rows[i])
    <2>1. screen.path \in Tables /\ screen.shows = "data" /\ i \in Items[screen.path]
          /\ screen.held \ {i} \in SUBSET Items[screen.path] /\ to \in States
      BY <1>2, FlippedState DEF ScreenOK
    <2>2. Caught(c) = [screen EXCEPT !.rows = [screen.rows EXCEPT ![i] = to],
                                     !.held = screen.held \ {i}]
      BY <1>2 DEF Caught
    <2> HIDE DEF i, to
    <2>3. ScreenOK([screen EXCEPT !.rows = [screen.rows EXCEPT ![i] = to],
                                  !.held = screen.held \ {i}])
      BY <2>1, RowChangeOK
    <2> QED  BY <2>2, <2>3
  <1>3. CASE /\ ~(c.does = "list" /\ c.path = "/subscription")
             /\ ~(c.op.name = "toggle" /\ screen.path = c.path /\ c.item \in screen.held)
    BY <1>3 DEF Caught
  <1> QED  BY <1>1, <1>2, <1>3

\* The router and the user's navigation keep the shape.
LEMMA RoutingShape ==
  ASSUME Shape, HashChange \/ Filter \/ \E p \in Visits : Visit(p)
  PROVE  Shape'
  <1>0. /\ AddressOK /\ ScreenOK(screen) /\ DialogsOK(dialogs) /\ Fit(calls)
        /\ StreamOK(stream) /\ RowsOK(rows) /\ HistoryOK
    BY DEF Shape
  <1>1. CASE HashChange /\ signed
    <2>1. /\ due' = FALSE /\ timer' = FALSE /\ Mount(hash, calls) /\ hash \in Places
          /\ UNCHANGED <<hash, dialogs, rows, signed, acts, expired>>
      BY <1>0, <1>1 DEF HashChange, AddressOK
    <2>2. ScreenOK(screen') /\ Fit(calls') /\ StreamOK(stream') /\ mixed' \subseteq Tables
      BY <1>0, <2>1, Mounting DEF HistoryOK
    <2> QED  BY <1>0, <2>1, <2>2 DEF Shape, AddressOK, HistoryOK
  <1>2. CASE HashChange /\ ~signed
    <2>1. /\ hash' = "/login" /\ due' \in BOOLEAN /\ timer' \in BOOLEAN /\ ~signed'
          /\ screen' = screen \/ screen' = [Spinner("/login") EXCEPT !.shows = "data"]
          /\ UNCHANGED <<dialogs, rows, signed, acts, expired, calls, stream, mixed>>
      BY <1>2 DEF HashChange
    <2>2. ScreenOK(screen')
      BY <1>0, <2>1, SpinnerTurnsOK, TablePaths
    <2>3. AddressOK'
      BY <1>0, <2>1, TablePaths DEF AddressOK
    <2> QED  BY <1>0, <2>1, <2>2, <2>3 DEF Shape, HistoryOK
  <1>3. CASE Filter \/ \E p \in Visits : Visit(p)
    <2>1. hash' \in Places /\ due' = TRUE /\ acts' \in 0 .. MaxActs
      <3>1. CASE Filter
        BY <1>0, <1>3, <3>1, Bounds DEF Filter, Filtered, Act, AddressOK, Places, Tables
      <3>2. CASE \E p \in Visits : Visit(p)
        BY <1>0, <1>3, <3>2, Bounds DEF Visit, Act, AddressOK
      <3> QED  BY <1>3, <3>1, <3>2
    <2>2. UNCHANGED <<screen, dialogs, calls, timer, stream, rows, signed, expired, mixed>>
      BY <1>3 DEF Filter, Visit
    <2>3. AddressOK'
      BY <1>0, <2>1, <2>2, Bounds DEF AddressOK
    <2> QED  BY <1>0, <2>2, <2>3 DEF Shape, HistoryOK
  <1> QED  BY <1>1, <1>2, <1>3

\* An operation is asked for, or done by the user's other device.
LEMMA ClickShape ==
  ASSUME Shape, NEW op \in Ops, NEW i \in AllItems,
         ClickAsks(op, i) \/ ClickActs(op, i) \/ Elsewhere(op, i)
  PROVE  Shape'
  <1>0. /\ AddressOK /\ ScreenOK(screen) /\ DialogsOK(dialogs) /\ Fit(calls)
        /\ StreamOK(stream) /\ RowsOK(rows) /\ HistoryOK /\ op.page \in Tables
    BY OpFacts DEF Shape, Sound
  <1>1. acts' \in 0 .. MaxActs /\ UNCHANGED <<hash, due, signed, timer, stream, expired>>
    BY <1>0, Bounds DEF AddressOK, ClickAsks, ClickActs, Elsewhere, Act, address
  <1>2. AddressOK' /\ StreamOK(stream')
    BY <1>0, <1>1 DEF AddressOK
  <1>3. CASE ClickAsks(op, i)
    <2>1. /\ UNCHANGED <<screen, calls, rows, mixed>> /\ i \in Items[op.page]
          /\ dialogs' = dialogs \cup {[op |-> op, item |-> i, kind |-> "ask"]}
          /\ op.asks # "no"
      BY <1>3 DEF ClickAsks, Offers
    <2>2. DialogsOK(dialogs')
      BY <1>0, <2>1 DEF DialogsOK
    <2> QED  BY <1>0, <1>1, <1>2, <2>1, <2>2 DEF Shape, HistoryOK
  <1>4. CASE ClickActs(op, i)
    <2> DEFINE to == Flipped(screen.rows[i])
    <2>1. /\ UNCHANGED <<dialogs, rows>> /\ i \in Items[op.page] /\ to \in States
          /\ screen.path = op.page /\ screen.shows = "data"
          /\ Send(calls, ActRequest(op, i, to))
          /\ screen' = screen
               \/ screen' = [screen EXCEPT !.rows[i] = Flipped(@), !.held = @ \cup {i}]
      BY <1>4, FlippedState DEF ClickActs, Offers
    <2>2. Fit(calls') /\ mixed' \subseteq Tables
      <3>1. ActRequest(op, i, to) \in Call /\ Apt(ActRequest(op, i, to))
        BY <2>1, ActFit
      <3> QED  BY <1>0, <2>1, <3>1, SendFit DEF HistoryOK
    <2>3. screen' = screen \/
          screen' = [screen EXCEPT !.rows = [screen.rows EXCEPT ![i] = to],
                                   !.held = screen.held \cup {i}]
      BY <2>1
    <2>4. screen.held \cup {i} \in SUBSET Items[screen.path] /\ screen.path \in Tables
      BY <1>0, <2>1 DEF ScreenOK
    <2> HIDE DEF to
    <2>5. ScreenOK([screen EXCEPT !.rows = [screen.rows EXCEPT ![i] = to],
                                  !.held = screen.held \cup {i}])
      <3>1. screen.path \in Tables /\ i \in Items[screen.path] /\ screen.shows = "data"
        BY <1>0, <2>1
      <3> QED  BY <1>0, <2>1, <2>4, <3>1, RowChangeOK
    <2>6. ScreenOK(screen')
      BY <1>0, <2>3, <2>5
    <2> QED  BY <1>0, <1>1, <1>2, <2>1, <2>2, <2>6 DEF Shape, HistoryOK
  <1>5. CASE Elsewhere(op, i)
    <2>1. /\ i \in Items[op.page] /\ mixed' = mixed \cup {op.page} \cup Reaches(op, i)
          /\ rows' \in Tabled(op, i, "on") /\ UNCHANGED <<screen, dialogs, calls>>
      BY <1>5 DEF Elsewhere
    <2>2. "on" \in States
      BY DEF States
    <2>3. RowsOK(rows') /\ mixed' \subseteq Tables
      BY <1>0, <2>1, <2>2, TabledTyped, ReachesTables DEF HistoryOK
    <2> QED  BY <1>0, <1>1, <1>2, <2>1, <2>3 DEF Shape, HistoryOK
  <1> QED  BY <1>3, <1>4, <1>5

\* A dialog is answered or closed.
LEMMA DialogShape ==
  ASSUME Shape, NEW d \in dialogs,
         CloseSecret(d) \/ \E answer \in {"true", "false", None} : AnswerDialog(d, answer)
  PROVE  Shape'
  <1>0. /\ AddressOK /\ ScreenOK(screen) /\ DialogsOK(dialogs) /\ Fit(calls)
        /\ StreamOK(stream) /\ RowsOK(rows) /\ HistoryOK
    BY DEF Shape
  <1>1. /\ d.op \in Ops /\ d.item \in Items[d.op.page] /\ d.item \in AllItems
        /\ DialogsOK(dialogs \ {d})
    BY <1>0 DEF DialogsOK
  <1>2. CASE CloseSecret(d)
    <2>1. /\ dialogs' = dialogs \ {d} /\ UNCHANGED <<address, timer, rows, acts, expired>>
          /\ Mount("/keys", calls) \/ UNCHANGED <<screen, calls, stream, mixed>>
      BY <1>2 DEF CloseSecret
    <2>2. ScreenOK(screen') /\ Fit(calls') /\ StreamOK(stream') /\ mixed' \subseteq Tables
      <3>1. "/keys" \in Places
        BY TablePaths DEF Places
      <3> QED  BY <1>0, <2>1, <3>1, Mounting DEF HistoryOK
    <2> QED  BY <1>0, <1>1, <2>1, <2>2 DEF Shape, AddressOK, HistoryOK, address
  <1>3. ASSUME NEW answer, AnswerDialog(d, answer) PROVE Shape'
    <2>1. /\ dialogs' = dialogs \ {d}
          /\ UNCHANGED <<address, screen, timer, stream, rows, expired>>
          /\ acts < MaxActs /\ acts' = acts + 1
          /\ Send(calls, ActRequest(d.op, d.item, "on")) \/ UNCHANGED <<calls, mixed>>
      BY <1>3 DEF AnswerDialog, Act
    <2>2. Fit(calls') /\ mixed' \subseteq Tables
      <3>1. "on" \in States
        BY DEF States
      <3>2. /\ ActRequest(d.op, d.item, "on") \in Call
            /\ Apt(ActRequest(d.op, d.item, "on"))
        BY <1>1, <3>1, ActFit
      <3> QED  BY <1>0, <2>1, <3>2, SendFit DEF HistoryOK
    <2>3. AddressOK'
      BY <1>0, <2>1, Bounds DEF AddressOK, address
    <2> QED  BY <1>0, <1>1, <2>1, <2>2, <2>3 DEF Shape, HistoryOK
  <1> QED  BY <1>2, <1>3

\* The answer to a request for a table carries its rows.
LEMMA ListedFit ==
  ASSUME Fit(calls), NEW s \in Busy(calls), calls[s].does # "act", NEW r \in Rows,
         calls[s].path \in Tables => r \in [Items[calls[s].path] -> States],
         calls' = [calls EXCEPT ![s].got = "ok", ![s].rows = r]
  PROVE  /\ Fit(calls') /\ calls'[s] # NoCall /\ calls'[s].got = "ok"
         /\ calls'[s].does = calls[s].does /\ calls'[s].path = calls[s].path
         /\ calls'[s].rows = r
         /\ \A t \in Slots \ {s} : calls'[t] = calls[t]
  <1> DEFINE c == calls[s]
             d == [does |-> c.does, path |-> c.path, op |-> c.op, item |-> c.item,
                   to |-> c.to, view |-> c.view, got |-> "ok", rows |-> r]
  <1>1. s \in Slots /\ c \in Call /\ Apt(c)
    BY NoCallApart DEF Fit, Busy
  <1>2. PICK u : u = [calls EXCEPT ![s].got = "ok"]
    OBVIOUS
  <1>3. PICK g : g = [c EXCEPT !.got = "ok"]
    OBVIOUS
  <1>4. u[s] = g /\ DOMAIN u = Slots /\ \A t \in Slots \ {s} : u[t] = calls[t]
    BY <1>1, <1>2, <1>3 DEF Fit
  <1>5. calls' = [u EXCEPT ![s].rows = r]
    BY <1>2
  <1>6. calls'[s] = [g EXCEPT !.rows = r] /\ DOMAIN calls' = Slots
        /\ calls' = [t \in Slots |-> calls'[t]]
        /\ \A t \in Slots \ {s} : calls'[t] = calls[t]
    BY <1>1, <1>4, <1>5
  <1>7. g = [does |-> c.does, path |-> c.path, op |-> c.op, item |-> c.item,
             to |-> c.to, view |-> c.view, got |-> "ok", rows |-> c.rows]
    BY <1>1, <1>3, CallParts
  <1>8. calls'[s] = d
    BY <1>6, <1>7
  <1>9. d \in Call /\ Apt(d)
    <2>1. d.does = c.does /\ d.path = c.path /\ d.op = c.op /\ d.item = c.item
          /\ d.to = c.to /\ d.view = c.view /\ d.got = "ok" /\ d.rows = r
      OBVIOUS
    <2> HIDE DEF d
    <2>2. d \in Call
      BY <1>1, <2>1, CallParts DEF d
    <2> QED  BY <1>1, <2>1, <2>2 DEF Apt
  <1>10. d # NoCall /\ d.does = c.does /\ d.path = c.path /\ d.got = "ok" /\ d.rows = r
    BY <1>9, NoCallApart
  <1> HIDE DEF d
  <1> QED  BY <1>1, <1>6, <1>8, <1>9, <1>10 DEF Fit

\* The server answers, or what it is sent is lost.
LEMMA ServerShape ==
  ASSUME Shape, NEW s \in Slots, Server(s)
  PROVE  Shape'
  <1>0. /\ AddressOK /\ ScreenOK(screen) /\ DialogsOK(dialogs) /\ Fit(calls)
        /\ StreamOK(stream) /\ RowsOK(rows) /\ HistoryOK
    BY DEF Shape
  <1>1. /\ s \in Busy(calls) /\ calls[s] \in Call /\ Apt(calls[s])
        /\ UNCHANGED <<address, screen, dialogs, timer, stream, acts, expired>>
    BY <1>0, NoCallApart
    DEF Server, ServeList, ServeAct, Lose, RotateHalf, Fit, Busy
  <1>2. AddressOK' /\ ScreenOK(screen') /\ DialogsOK(dialogs') /\ StreamOK(stream')
    BY <1>0, <1>1 DEF AddressOK, address
  <1>3. CASE ServeList(s)
    <2>1. UNCHANGED <<rows, mixed>> /\ calls[s].does # "act"
      BY <1>3 DEF ServeList
    <2>2. Fit(calls')
      <3>1. CASE Got(s, "refused")
        BY <1>0, <1>1, <3>1, GotFit
      <3>2. CASE ~Got(s, "refused")
        <4> DEFINE r == IF calls[s].path \in Tables THEN rows[calls[s].path] ELSE NoRows
        <4>1. calls' = [calls EXCEPT ![s].got = "ok", ![s].rows = r]
          BY <1>3, <3>2 DEF ServeList
        <4>2. r \in Rows /\ (calls[s].path \in Tables => r \in [Items[calls[s].path] -> States])
          BY <1>0 DEF Rows, RowsOK
        <4> HIDE DEF r
        <4> QED  BY <1>0, <1>1, <2>1, <4>1, <4>2, ListedFit
      <3> QED  BY <3>1, <3>2
    <2> QED  BY <1>0, <1>1, <1>2, <2>1, <2>2 DEF Shape, HistoryOK
  <1>4. CASE ServeAct(s)
    <2> DEFINE c == calls[s]
    <2>1. /\ c.op \in Ops /\ c.path = c.op.page /\ c.item \in Items[c.op.page]
          /\ c.op.page \in Tables /\ c.to \in States /\ c.does = "act"
      BY <1>1, <1>4, OpFacts, CallParts DEF ServeAct, Apt, Sound
    <2>2. /\ Got(s, "refused") \/ Got(s, "failed") \/ Got(s, "ok")
          /\ UNCHANGED rows \/ rows' \in Tabled(c.op, c.item, c.to)
          /\ mixed' = mixed \/ mixed' = mixed \cup Reaches(c.op, c.item)
      BY <1>4 DEF ServeAct
    <2>3. Fit(calls')
      BY <1>0, <1>1, <2>1, <2>2, GotFit
    <2> HIDE DEF c
    <2>4. RowsOK(rows') /\ mixed' \subseteq Tables
      BY <1>0, <2>1, <2>2, TabledTyped, ReachesTables DEF HistoryOK
    <2> QED  BY <1>0, <1>1, <1>2, <2>1, <2>3, <2>4 DEF Shape, HistoryOK
  <1>5. CASE Lose(s)
    <2>1. /\ Got(s, "failed") /\ UNCHANGED rows
          /\ mixed' = mixed \/ (calls[s].does = "act" /\ mixed' = mixed \cup {calls[s].path})
      BY <1>5 DEF Lose
    <2>2. mixed' \subseteq Tables
      BY <1>0, <1>1, <2>1, OpFacts DEF HistoryOK, Apt, Sound
    <2>3. Fit(calls')
      BY <1>0, <1>1, <2>1, GotFit
    <2> QED  BY <1>0, <1>1, <1>2, <2>1, <2>2, <2>3 DEF Shape, HistoryOK
  <1>6. ASSUME NEW n \in Items["/keys"], RotateHalf(s, n) PROVE Shape'
    <2>1. /\ Got(s, "failed") /\ mixed' = mixed \cup {"/keys"}
          /\ rows' = [rows EXCEPT !["/keys"] = RotateNew(rows["/keys"], calls[s].item, n)]
      BY <1>6 DEF RotateHalf
    <2>2. Fit(calls')
      BY <1>0, <1>1, <2>1, GotFit
    <2>3. RotateNew(rows["/keys"], calls[s].item, n) \in [Items["/keys"] -> States]
      BY <1>0, TablePaths DEF RotateNew, RowsOK, States
    <2>4. RowsOK(rows')
      BY <1>0, <2>1, <2>3, TablePaths DEF RowsOK
    <2> QED  BY <1>0, <1>1, <1>2, <2>1, <2>2, <2>4, TablePaths DEF Shape, HistoryOK
  <1> QED  BY <1>3, <1>4, <1>5, <1>6 DEF Server

\* One field of the screen changes.
LEMMA RowOnlyOK ==
  ASSUME NEW s, ScreenOK(s), s.path \in Tables, s.shows = "data",
         NEW i \in Items[s.path], NEW to \in States
  PROVE  ScreenOK([s EXCEPT !.rows = [s.rows EXCEPT ![i] = to]])
  <1> DEFINE r == [s.rows EXCEPT ![i] = to]
  <1>1. r \in [Items[s.path] -> States]
    BY DEF ScreenOK
  <1>2. r \in Rows
    BY <1>1 DEF Rows
  <1> HIDE DEF r
  <1>3. ScreenOK([s EXCEPT !.rows = r])
    BY <1>1, <1>2 DEF ScreenOK
  <1> QED  BY <1>3 DEF r
\* So it does when a switch is let go.
LEMMA HeldOnlyOK ==
  ASSUME NEW s, ScreenOK(s), NEW h, h \subseteq s.held
  PROVE  ScreenOK([s EXCEPT !.held = h])
  BY DEF ScreenOK

\* One field of the streams changes.
LEMMA AbortOK ==
  ASSUME NEW st, StreamOK(st), NEW b \in BOOLEAN
  PROVE  StreamOK([st EXCEPT !.abort = b]) /\ [st EXCEPT !.abort = b].tails = st.tails
  BY DEF StreamOK
\* A button of the streams changes.
LEMMA OnOK ==
  ASSUME NEW st, StreamOK(st), NEW v, NEW b \in BOOLEAN
  PROVE  StreamOK([st EXCEPT !.on[v] = b]) /\ [st EXCEPT !.on[v] = b].tails = st.tails
  BY DEF StreamOK
\* A stream starts or ends.
LEMMA TailsOK ==
  ASSUME NEW st, StreamOK(st), NEW v, NEW n, v \in Views => n \in Nat
  PROVE  StreamOK([st EXCEPT !.tails[v] = n])
  BY DEF StreamOK

\* A handler goes on with the answer it got.
LEMMA HandlerShape ==
  ASSUME Shape, NEW s \in Slots, Goes(s)
  PROVE  Shape'
  <1> DEFINE c == calls[s]
  <1>0. /\ AddressOK /\ ScreenOK(screen) /\ DialogsOK(dialogs) /\ Fit(calls)
        /\ StreamOK(stream) /\ RowsOK(rows) /\ HistoryOK
    BY DEF Shape
  <1>1. s \in Busy(calls) /\ c \in Call /\ Apt(c) /\ UNCHANGED <<rows, acts, expired>>
    BY <1>0, NoCallApart
    DEF Goes, Refused, ListAnswered, ActFailed, ActDone, FirstLoaded, Polled, HealthAnswered,
        LogsAnswered, Answered, Fit, Busy
  <1>2. Fit(Without(s)) /\ ScreenOK(Caught(c)) /\ c.path \in Paths
    BY <1>0, <1>1, WithoutFit, CaughtOK, CallParts
  <1>3. CASE Refused(s)
    <2>1. /\ calls' = Without(s) /\ signed' = FALSE /\ hash' = "/login"
          /\ due' = (due \/ hash # "/login") /\ screen' = Caught(c)
          /\ UNCHANGED <<dialogs, timer, stream, mixed>>
      BY <1>3 DEF Refused
    <2>2. AddressOK'
      BY <1>0, <1>1, <2>1, TablePaths DEF AddressOK
    <2> QED  BY <1>0, <1>1, <1>2, <2>1, <2>2 DEF Shape, HistoryOK
  <1>4. CASE ListAnswered(s)
    <2>1. /\ calls' = Without(s) /\ c.does = "list"
          /\ screen' = IF c.got = "ok" THEN Data(c.path, c.rows) ELSE Caught(c)
          /\ UNCHANGED <<address, dialogs, timer, stream, mixed>>
      BY <1>4 DEF ListAnswered
    <2>2. c.got = "ok" => c.path \in Tables /\ c.rows \in [Items[c.path] -> States]
      BY <1>1, <2>1 DEF Apt
    <2> HIDE DEF c
    <2>3. ScreenOK(screen')
      <3>1. 0 \in Nat
        OBVIOUS
      <3>2. c.got = "ok" => ScreenOK(Data(c.path, c.rows))
        BY <1>2, <2>2, <3>1, DataOK
      <3> QED  BY <1>2, <2>1, <3>2
    <2> QED  BY <1>0, <1>1, <1>2, <2>1, <2>3 DEF Shape, AddressOK, HistoryOK, address
  <1>5. CASE ActFailed(s)
    <2>1. /\ calls' = Without(s) /\ screen' = Caught(c)
          /\ UNCHANGED <<address, dialogs, timer, stream, mixed>>
      BY <1>5 DEF ActFailed
    <2> HIDE DEF c
    <2> QED  BY <1>0, <1>1, <1>2, <2>1 DEF Shape, AddressOK, HistoryOK, address
  <1>6. CASE ActDone(s)
    <2>1. /\ c.op \in Ops /\ c.path = c.op.page /\ c.item \in Items[c.path] /\ c.path \in Tables
          /\ c.item \in AllItems /\ c.to \in States /\ c.path \in Places
          /\ c.op.then \in {"show", "stay", "reload"}
      BY <1>1, <1>6, OpFacts, CallParts DEF ActDone, Apt, Sound, AllItems, Places
    <2>2. UNCHANGED <<address, timer>>
      BY <1>6 DEF ActDone
    <2>3. CASE c.op.then = "reload"
      <3>1. Mount(c.path, Without(s)) /\ UNCHANGED dialogs
        BY <1>6, <2>3 DEF ActDone
      <3>2. ScreenOK(screen') /\ Fit(calls') /\ StreamOK(stream') /\ mixed' \subseteq Tables
        BY <1>0, <1>2, <2>1, <3>1, Mounting DEF HistoryOK
      <3> HIDE DEF c
      <3> QED  BY <1>0, <1>1, <2>2, <3>1, <3>2 DEF Shape, AddressOK, HistoryOK, address
    <2>4. CASE c.op.then = "show"
      <3>1. /\ dialogs' = dialogs \cup {[op |-> c.op, item |-> c.item, kind |-> "secret"]}
            /\ calls' = Without(s) /\ UNCHANGED <<screen, stream, mixed>>
        BY <1>6, <2>4 DEF ActDone
      <3> HIDE DEF c
      <3>2. DialogsOK(dialogs')
        BY <1>0, <2>1, <3>1 DEF DialogsOK
      <3> QED  BY <1>0, <1>1, <1>2, <2>2, <3>1, <3>2 DEF Shape, AddressOK, HistoryOK, address
    <2>5. CASE c.op.then = "stay"
      <3>1. /\ screen' = IF screen.path # c.path \/ screen.shows # "data" THEN screen
                         ELSE IF c.op.name = "save"
                           THEN [screen EXCEPT !.rows = [screen.rows EXCEPT ![c.item] = c.to]]
                         ELSE [screen EXCEPT !.held = screen.held \ {c.item}]
            /\ calls' = Without(s) /\ UNCHANGED <<dialogs, stream, mixed>>
        BY <1>6, <2>5 DEF ActDone
      <3> HIDE DEF c
      <3>2. screen.path = c.path /\ screen.shows = "data"
              => ScreenOK([screen EXCEPT !.rows = [screen.rows EXCEPT ![c.item] = c.to]])
        BY <1>0, <2>1, RowOnlyOK
      <3>3. ScreenOK([screen EXCEPT !.held = screen.held \ {c.item}])
        BY <1>0, HeldOnlyOK
      <3>4. ScreenOK(screen')
        BY <1>0, <3>1, <3>2, <3>3
      <3> QED  BY <1>0, <1>1, <1>2, <2>2, <3>1, <3>4 DEF Shape, AddressOK, HistoryOK, address
    <2> QED  BY <2>1, <2>3, <2>4, <2>5
  <1>7. CASE FirstLoaded(s) \/ Polled(s)
    <2>1. /\ calls' = Without(s)
          /\ screen' = screen \/ screen' = Data(Health, NoRows)
          /\ timer' = TRUE \/ timer' = timer
          /\ UNCHANGED <<address, dialogs, stream, mixed>>
      BY <1>7 DEF FirstLoaded, Polled, HealthAnswered
    <2>2. ScreenOK(Data(Health, NoRows))
      <3>1. 0 \in Nat
        OBVIOUS
      <3> QED  BY <3>1, DataOK, TablePaths
    <2>3. ScreenOK(screen')
      BY <1>0, <2>1, <2>2
    <2>4. AddressOK'
      <3>1. timer' \in BOOLEAN
        BY <1>0, <2>1 DEF AddressOK
      <3> QED  BY <1>0, <1>1, <2>1, <3>1 DEF AddressOK, address
    <2> HIDE DEF c
    <2> QED  BY <1>0, <1>1, <1>2, <2>1, <2>3, <2>4 DEF Shape, HistoryOK
  <1>8. CASE LogsAnswered(s)
    <2>1. /\ calls' = Without(s)
          /\ screen' = screen \/ screen' = [Data(Logs, NoRows) EXCEPT !.view = c.view]
          /\ UNCHANGED <<address, dialogs, timer, stream, mixed>>
      BY <1>8 DEF LogsAnswered, ShowLogs
    <2>2. ScreenOK([Data(Logs, NoRows) EXCEPT !.view = c.view])
      <3>1. c.view \in Nat
        BY <1>1, CallParts
      <3> QED  BY <3>1, DataOK, TablePaths
    <2>3. ScreenOK(screen')
      BY <1>0, <2>1, <2>2
    <2> HIDE DEF c
    <2> QED  BY <1>0, <1>1, <1>2, <2>1, <2>3 DEF Shape, AddressOK, HistoryOK, address
  <1> QED  BY <1>3, <1>4, <1>5, <1>6, <1>7, <1>8 DEF Goes

\* The health page and the logs, on their own.
LEMMA WatchShape ==
  ASSUME Shape, \/ Poll \/ ReloadLogs \/ ClickStream
                \/ \E v \in Views : Entry(v) \/ StreamBreaks(v)
  PROVE  Shape'
  <1>0. /\ AddressOK /\ ScreenOK(screen) /\ DialogsOK(dialogs) /\ Fit(calls)
        /\ StreamOK(stream) /\ RowsOK(rows) /\ HistoryOK
    BY DEF Shape
  <1>1. acts' \in 0 .. MaxActs /\ UNCHANGED <<address, timer, dialogs, rows, expired>>
    BY <1>0, Bounds
    DEF AddressOK, Poll, ReloadLogs, ClickStream, Entry, StreamBreaks, Act
  <1>2. AddressOK'
    BY <1>0, <1>1 DEF AddressOK, address
  <1>3. CASE Poll \/ ReloadLogs
    <2>1. PICK c \in Call : Apt(c) /\ Send(calls, c)
      <3>1. CASE Poll
        <4>1. "poll" \in Does \ {"act"} /\ 0 \in Nat
          BY DEF Does
        <4>2. Request("poll", Health) \in Call /\ Apt(Request("poll", Health))
          BY <4>1, RequestFit, TablePaths
        <4> QED  BY <3>1, <4>2 DEF Poll
      <3>2. CASE ReloadLogs
        <4>1. "logs" \in Does \ {"act"} /\ screen.view \in Nat
          BY <1>0 DEF Does, ScreenOK
        <4> DEFINE c == [Request("logs", Logs) EXCEPT !.view = screen.view]
        <4>2. c \in Call /\ Apt(c)
          BY <4>1, RequestFit, TablePaths
        <4>3. Send(calls, c)
          BY <3>2 DEF ReloadLogs
        <4> HIDE DEF c
        <4> QED  BY <4>2, <4>3
      <3> QED  BY <1>3, <3>1, <3>2
    <2>2. Fit(calls') /\ mixed' \subseteq Tables
      BY <1>0, <2>1, SendFit DEF HistoryOK
    <2>3. UNCHANGED <<screen, stream>>
      BY <1>3 DEF Poll, ReloadLogs
    <2> QED  BY <1>0, <1>1, <1>2, <2>2, <2>3 DEF Shape, HistoryOK
  <1>4. CASE ClickStream
    <2> DEFINE v == screen.view
    <2>1. /\ UNCHANGED <<screen, calls, mixed>>
          /\ \/ stream' = [stream EXCEPT !.abort = TRUE, !.on[v] = FALSE]
             \/ stream' = [stream EXCEPT !.abort = FALSE, !.on[v] = TRUE,
                                         !.tails[v] = stream.tails[v] + 1]
      BY <1>4 DEF ClickStream
    <2> HIDE DEF v
    <2>2. ASSUME stream' = [stream EXCEPT !.abort = TRUE, !.on[v] = FALSE]
          PROVE  StreamOK(stream')
      <3>1. PICK a : a = [stream EXCEPT !.abort = TRUE]
        OBVIOUS
      <3>2. stream' = [a EXCEPT !.on[v] = FALSE]
        BY <2>2, <3>1
      <3>3. StreamOK(a)
        BY <1>0, <3>1, AbortOK
      <3> QED  BY <3>2, <3>3, OnOK
    <2>3. ASSUME stream' = [stream EXCEPT !.abort = FALSE, !.on[v] = TRUE,
                                          !.tails[v] = stream.tails[v] + 1]
          PROVE  StreamOK(stream')
      <3>1. PICK a : a = [stream EXCEPT !.abort = FALSE]
        OBVIOUS
      <3>2. PICK b : b = [a EXCEPT !.on[v] = TRUE]
        OBVIOUS
      <3>3. stream' = [b EXCEPT !.tails[v] = stream.tails[v] + 1]
        BY <2>3, <3>1, <3>2
      <3>4. StreamOK(a)
        BY <1>0, <3>1, AbortOK
      <3>5. StreamOK(b)
        BY <3>2, <3>4, OnOK
      <3>6. v \in Views => stream.tails[v] + 1 \in Nat
        BY <1>0 DEF StreamOK
      <3> QED  BY <3>3, <3>5, <3>6, TailsOK
    <2> QED  BY <1>0, <1>1, <1>2, <2>1, <2>2, <2>3 DEF Shape, HistoryOK
  <1>5. ASSUME NEW v \in Views, Entry(v) \/ StreamBreaks(v) PROVE Shape'
    <2>1. /\ UNCHANGED <<calls, mixed>> /\ stream.tails[v] > 0
          /\ screen' = screen \/ screen' = [Data(Logs, NoRows) EXCEPT !.view = v]
          /\ UNCHANGED stream \/ TailEnds(v)
      BY <1>5 DEF Entry, StreamBreaks, ShowLogs
    <2>2. ScreenOK(screen')
      <3>1. v \in Nat
        BY DEF Views
      <3>2. ScreenOK([Data(Logs, NoRows) EXCEPT !.view = v])
        BY <3>1, DataOK, TablePaths
      <3> QED  BY <1>0, <2>1, <3>2
    <2>3. ASSUME TailEnds(v) PROVE StreamOK(stream')
      <3>1. PICK a : a = [stream EXCEPT !.tails[v] = stream.tails[v] - 1]
        OBVIOUS
      <3>2. stream' = [a EXCEPT !.on[v] = FALSE]
        BY <2>3, <3>1 DEF TailEnds
      <3>3. stream.tails[v] - 1 \in Nat
        BY <1>0, <2>1 DEF StreamOK
      <3>4. StreamOK(a)
        BY <1>0, <3>1, <3>3, TailsOK
      <3> QED  BY <3>2, <3>4, OnOK
    <2> QED  BY <1>0, <1>1, <1>2, <2>1, <2>2, <2>3 DEF Shape, HistoryOK
  <1> QED  BY <1>3, <1>4, <1>5

\* Every step keeps the shape.
LEMMA ShapeNext == Shape /\ [Next]_vars => Shape'
  <1> SUFFICES ASSUME Shape, [Next]_vars PROVE Shape'
    OBVIOUS
  <1>1. CASE UNCHANGED vars
    BY <1>1 DEF vars, Shape, AddressOK, HistoryOK
  <1>2. CASE Next
    <2>1. ASSUME NEW k \in Expiring, Expire(k) PROVE Shape'
      <3>1. /\ acts < MaxActs /\ acts' = acts + 1 /\ expired' \subseteq Expiring
            /\ UNCHANGED <<address, screen, dialogs, calls, timer, stream, rows, mixed>>
        BY <2>1 DEF Expire, Act, Shape, HistoryOK
      <3>2. acts' \in 0 .. MaxActs
        BY <3>1, Bounds DEF Shape, AddressOK
      <3> QED  BY <3>1, <3>2 DEF Shape, AddressOK, HistoryOK, address
    <2> QED
      BY <1>2, <2>1, RoutingShape, ClickShape, DialogShape, ServerShape, HandlerShape, WatchShape
      DEF Next
  <1> QED  BY <1>1, <1>2

\* Every reachable state is well typed, whatever the tables, the rows, the pages
\* that are visited and the bounds: requests name rows of the page they are about.
THEOREM TypeCorrect == Spec => []TypeOK
  <1>1. Spec => []Shape
    BY ShapeInit, ShapeNext, PTL DEF Spec
  <1> QED  BY <1>1, ShapeTypes, PTL

---------------------------------------------------------------------------
(* Access. *)

Off(r) == {k \in Items["/keys"] : r[k] = "off"}

There == rows["/admin/users"][Account] # "absent"

\* A step of the holder's, of the administrator's who blocks or deletes the user, or
\* of time.
Held == /\ UNCHANGED expired /\ Turns(rows["/keys"], rows'["/keys"])
        /\ rows'["/keys"] # rows["/keys"] => Enabled
        /\ There' <=> There
        /\ Enabled => Enabled'
Blocked == /\ UNCHANGED expired /\ There /\ There' /\ ~Enabled'
           /\ rows'["/keys"] = Revoked(rows["/keys"])
Deleted == /\ UNCHANGED expired /\ There /\ ~There'
           /\ rows'["/keys"] = Emptied("/keys")
Dated   == /\ UNCHANGED rows
           /\ \E k \in Expiring \ expired :
                rows["/keys"][k] = "on" /\ expired' = expired \cup {k}

\* Only keys of a user that is there have dates, none works of one that is blocked,
\* and none is left of one that is deleted.
Kept ==
  /\ There => \A k \in expired : rows["/keys"][k] # "absent"
  /\ ~There => \A k \in Items["/keys"] : rows["/keys"][k] = "absent"
  /\ ~Enabled => \A k \in Items["/keys"] : rows["/keys"][k] # "on"

\* The pages and rows this is about are there.
LEMMA RingPlaces ==
  /\ "/keys" \in Tables /\ "/admin/users" \in Tables /\ "/keys" # "/admin/users"
  /\ Account \in Items["/admin/users"] /\ Expiring \subseteq Items["/keys"]
  /\ "/admin/users" \notin Owned /\ "/keys" \in Owned
  BY ConsoleAssumption DEF Tables, Owned, ForUsers

\* An operation that the server permits is one of these.
LEMMA OpTurn ==
  ASSUME RowsOK(rows), NEW op \in Ops, NEW i \in Items[op.page], NEW to \in States,
         Permits(op, rows[op.page], i), op.page = "/keys" => Enabled,
         rows' \in Tabled(op, i, to), UNCHANGED expired
  PROVE  Held \/ Blocked \/ Deleted
  <1> DEFINE r == rows["/keys"]
             users == rows["/admin/users"]
  <1>1. /\ Sound(op) /\ op.page \in Tables /\ rows'[op.page] \in Results(op, rows[op.page], i, to)
        /\ \A p \in Tables \ (Reaches(op, i) \cup {op.page}) : rows'[p] = rows[p]
        /\ \A p \in Reaches(op, i) \ {op.page} :
             rows'[p] = IF op.effect = "remove" THEN Emptied(p) ELSE Revoked(rows[p])
    BY OpFacts, TabledTyped DEF Sound
  <1>2. r \in [Items["/keys"] -> States] /\ users \in [Items["/admin/users"] -> States]
    BY RingPlaces DEF RowsOK
  <1>3. CASE op.page = "/keys"
    <2>1. rows'["/admin/users"] = users
      BY <1>1, <1>3, RingPlaces, ReachesTables
    <2>2. Turns(r, rows'["/keys"])
      BY <1>1, <1>2, <1>3, ResultTurns
    <2> QED  BY <1>3, <2>1, <2>2 DEF Held, There, Enabled
  <1>4. CASE op.page = "/admin/users"
    <2>1. op.effect \in {"off", "on", "remove"} /\ users[i] # "absent"
      BY <1>1, <1>4 DEF Sound, Permits
    <2>2. rows'["/admin/users"] = [users EXCEPT ![i] = IF op.effect = "remove" THEN "absent"
                                                       ELSE op.effect]
      BY <1>1, <1>4, <2>1 DEF Results
    <2>3. CASE i # Account \/ op.effect = "on"
      <3>1. Reaches(op, i) = {}
        BY <2>1, <2>3 DEF Reaches
      <3>2. rows'["/keys"] = r
        BY <1>1, <1>4, <3>1, RingPlaces
      <3>3. (There' <=> There) /\ (Enabled => Enabled')
        BY <1>2, <1>4, <2>1, <2>2, <2>3, RingPlaces DEF There, Enabled
      <3> QED  BY <3>2, <3>3 DEF Held, Turns
    <2>4. CASE i = Account /\ op.effect = "off"
      <3>1. Reaches(op, i) = {"/keys"}
        BY <1>4, <2>4 DEF Reaches
      <3>2. rows'["/keys"] = Revoked(r)
        BY <1>1, <1>4, <2>4, <3>1, RingPlaces
      <3>3. There /\ There' /\ ~Enabled'
        BY <1>2, <2>1, <2>2, <2>4, RingPlaces DEF There, Enabled
      <3> QED  BY <3>2, <3>3 DEF Blocked
    <2>5. CASE i = Account /\ op.effect = "remove"
      <3>1. Reaches(op, i) = Owned
        BY <1>4, <2>5 DEF Reaches
      <3>2. rows'["/keys"] = Emptied("/keys")
        BY <1>1, <1>4, <2>5, <3>1, RingPlaces
      <3>3. There /\ ~There'
        BY <1>2, <2>1, <2>2, <2>5, RingPlaces DEF There
      <3> QED  BY <3>2, <3>3 DEF Deleted
    <2> QED  BY <2>1, <2>3, <2>4, <2>5
  <1>5. CASE op.page \notin {"/keys", "/admin/users"}
    <2>1. Reaches(op, i) = {}
      BY <1>5 DEF Reaches
    <2>2. rows'["/keys"] = r /\ rows'["/admin/users"] = users
      BY <1>1, <1>5, <2>1, RingPlaces
    <2> QED  BY <2>2 DEF Held, Turns, There, Enabled
  <1> QED  BY <1>3, <1>4, <1>5

\* Every step of the console is one of these.
LEMMA KeysTurn == Shape /\ [Next]_vars => Held \/ Blocked \/ Deleted \/ Dated
  <1> SUFFICES ASSUME Shape, [Next]_vars PROVE Held \/ Blocked \/ Deleted \/ Dated
    OBVIOUS
  <1>0. /\ RowsOK(rows) /\ Fit(calls) /\ "/keys" \in Tables
        /\ rows["/keys"] \in [Items["/keys"] -> States]
    BY TablePaths DEF Shape, RowsOK
  <1>1. "/keys" \in ForUsers
    BY DEF ForUsers
  <1>2. CASE UNCHANGED <<rows, expired>>
    BY <1>2 DEF Held, Turns, There, Enabled
  <1>3. ASSUME NEW s \in Slots, ServeAct(s) PROVE Held \/ Blocked \/ Deleted
    <2> DEFINE c == calls[s]
    <2>1. c.op \in Ops /\ c.path = c.op.page /\ c.item \in Items[c.op.page] /\ c.to \in States
      BY <1>0, <1>3, CallParts, NoCallApart DEF ServeAct, Busy, Fit, Apt
    <2>2. /\ UNCHANGED expired
          /\ \/ UNCHANGED rows
             \/ /\ Accepts(c.path) /\ Permits(c.op, rows[c.path], c.item)
                /\ rows' \in Tabled(c.op, c.item, c.to)
      BY <1>3 DEF ServeAct
    <2> HIDE DEF c
    <2>3. CASE UNCHANGED rows
      BY <2>2, <2>3 DEF Held, Turns, There, Enabled
    <2>4. CASE ~UNCHANGED rows
      <3>1. c.op.page = "/keys" => Enabled
        BY <1>1, <2>1, <2>2, <2>4 DEF Accepts
      <3> QED  BY <1>0, <2>1, <2>2, <2>4, <3>1, OpTurn
    <2> QED  BY <2>3, <2>4
  <1>4. ASSUME NEW s \in Slots, NEW n \in Items["/keys"], RotateHalf(s, n)
        PROVE  Held
    <2>1. /\ rows["/keys"][n] = "absent" /\ calls[s].op.effect = "rotate" /\ UNCHANGED expired
          /\ rows' = [rows EXCEPT !["/keys"] = RotateNew(rows["/keys"], calls[s].item, n)]
          /\ Accepts(calls[s].path)
      BY <1>4 DEF RotateHalf
    <2>2. calls[s].path = "/keys"
      BY <1>0, <1>4, <2>1, OpFacts DEF RotateHalf, Busy, Fit, Apt, Sound
    <2>3. Enabled
      BY <1>1, <2>1, <2>2 DEF Accepts
    <2>4. /\ rows'["/keys"] = [rows["/keys"] EXCEPT ![n] = "on"]
          /\ rows'["/admin/users"] = rows["/admin/users"]
      BY <1>0, <2>1, RingPlaces DEF RotateNew, RowsOK
    <2> QED  BY <2>1, <2>3, <2>4 DEF Held, Turns, There, Enabled
  <1>5. ASSUME NEW op \in Ops, NEW i, Elsewhere(op, i)
        PROVE  Held \/ Blocked \/ Deleted
    <2>1. /\ i \in Items[op.page] /\ Permits(op, rows[op.page], i) /\ UNCHANGED expired
          /\ rows' \in Tabled(op, i, "on") /\ (op.page = "/keys" => Enabled)
      BY <1>1, <1>5 DEF Elsewhere
    <2>2. "on" \in States
      BY DEF States
    <2> QED  BY <1>0, <2>1, <2>2, OpTurn
  <1>6. ASSUME NEW k \in Expiring, Expire(k) PROVE Dated
    BY <1>6 DEF Expire, Dated
  <1>7. ASSUME NEW s \in Slots, ServeList(s) \/ Lose(s) \/ Goes(s)
        PROVE  UNCHANGED <<rows, expired>>
    BY <1>7 DEF ServeList, Lose, Goes, Refused, ListAnswered, ActFailed, ActDone, FirstLoaded,
                Polled, LogsAnswered
  <1>8. ASSUME NEW op, NEW i, ClickAsks(op, i) \/ ClickActs(op, i)
        PROVE  UNCHANGED <<rows, expired>>
    BY <1>8 DEF ClickAsks, ClickActs
  <1>9. ASSUME NEW d, CloseSecret(d) \/ \E answer : AnswerDialog(d, answer)
        PROVE  UNCHANGED <<rows, expired>>
    BY <1>9 DEF CloseSecret, AnswerDialog
  <1>10. ASSUME \/ HashChange \/ Filter \/ Poll \/ ClickStream \/ ReloadLogs
                \/ \E p \in Visits : Visit(p)
                \/ \E v \in Views : Entry(v) \/ StreamBreaks(v)
         PROVE  UNCHANGED <<rows, expired>>
    BY <1>10 DEF HashChange, Filter, Poll, ClickStream, ReloadLogs, Visit, Entry, StreamBreaks
  <1>11. CASE UNCHANGED vars
    BY <1>2, <1>11 DEF vars
  <1> QED
    BY <1>2, <1>3, <1>4, <1>5, <1>6, <1>7, <1>8, <1>9, <1>10, <1>11 DEF Next, Server

\* What is kept of keys stays so.
LEMMA KeptNext == Shape /\ Shape' /\ Kept /\ [Next]_vars => Kept'
  <1> SUFFICES ASSUME Shape, Shape', Kept, [Next]_vars PROVE Kept'
    OBVIOUS
  <1> DEFINE r == rows["/keys"]
             q == rows'["/keys"]
  <1>0. r \in [Items["/keys"] -> States] /\ q \in [Items["/keys"] -> States]
        /\ expired \subseteq Items["/keys"]
    BY RingPlaces DEF Shape, RowsOK, HistoryOK
  <1>1. CASE Held
    <2>1. CASE q = r
      BY <1>1, <2>1 DEF Held, Kept
    <2>2. CASE q # r
      <3>1. Enabled /\ There /\ There' /\ Enabled' /\ UNCHANGED expired
        BY <1>1, <2>2 DEF Held, Enabled, There
      <3>2. \A k \in Items["/keys"] : r[k] # "absent" => q[k] # "absent"
        BY <1>0, <1>1 DEF Held, Turns, Rotate, RotateNew
      <3> QED  BY <1>0, <3>1, <3>2 DEF Kept
    <2> QED  BY <2>1, <2>2
  <1>2. CASE Blocked
    BY <1>0, <1>2 DEF Blocked, Kept, Revoked
  <1>3. CASE Deleted
    BY <1>0, <1>3 DEF Deleted, Kept, Emptied
  <1>4. CASE Dated
    BY <1>0, <1>4 DEF Dated, Kept, There, Enabled
  <1> QED  BY <1>1, <1>2, <1>3, <1>4, KeysTurn

LEMMA KeptInit == Init => Kept
  BY RingPlaces, ConsoleAssumption DEF Init, Kept, There, Enabled

\* And each of them is a step of the ring, or none.
LEMMA TurnsInRing ==
  ASSUME Shape, Shape', Kept, [Next]_vars
  PROVE  [Ring!Next]_Ring!vars
  <1> DEFINE r == rows["/keys"]
             q == rows'["/keys"]
  <1>0. r \in [Items["/keys"] -> States] /\ q \in [Items["/keys"] -> States]
        /\ expired \subseteq Items["/keys"]
    BY RingPlaces DEF Shape, RowsOK, HistoryOK
  <1>1. CASE Held
    <2>1. CASE q = r
      <3>1. UNCHANGED expired /\ (There' <=> There) /\ Live(rows["/keys"])' = Live(r)
        BY <1>1, <2>1 DEF Held, Live
      <3>2. CASE Enabled' = Enabled
        BY <2>1, <3>1, <3>2 DEF Ring!vars, There
      <3>3. CASE Enabled' # Enabled
        <4>1. ~Enabled /\ Enabled' = TRUE
          BY <1>1, <3>3 DEF Held, Enabled
        <4>2. Ring!Reopen
          BY <2>1, <3>1, <4>1 DEF Ring!Reopen, There
        <4> QED  BY <4>2 DEF Ring!Next
      <3> QED  BY <3>2, <3>3
    <2>2. CASE q # r
      <3>0. There /\ There' /\ UNCHANGED expired /\ Enabled /\ Enabled' = Enabled
        BY <1>1, <2>2 DEF Held, Enabled, There
      <3> DEFINE L(x) == {k \in Items["/keys"] : x[k] = "on" /\ k \notin expired}
      <3>1. /\ Live(r) = L(r) /\ Live(rows["/keys"])' = L(q)
        BY <3>0 DEF Live
      <3>2. ASSUME NEW n \in Items["/keys"], r[n] = "absent", q = [r EXCEPT ![n] = "on"]
            PROVE  Ring!New(n)
        <4>1. n \notin expired
          BY <3>0, <3>2 DEF Kept
        <4>2. L(q) = L(r) \cup {n} /\ Off(q) = Off(r)
          BY <1>0, <3>2, <4>1 DEF Off
        <4>3. n \notin L(r) \cup Off(r)
          BY <3>2 DEF Off
        <4> QED  BY <3>0, <3>1, <4>1, <4>2, <4>3 DEF Ring!New, Ring!Fresh, Ring!Ended, Off, There
      <3>3. ASSUME NEW i \in Items["/keys"], r[i] = "on", Live(r) # {i},
                   q = [r EXCEPT ![i] = "off"]
            PROVE  Ring!Revoke(i)
        <4>1. Off(q) = Off(r) \cup {i} /\ L(q) = L(r) \ {i}
          BY <1>0, <3>3 DEF Off
        <4>2. i \in L(r) \cup expired /\ L(r) # {i}
          BY <3>1, <3>3
        <4> QED  BY <3>0, <3>1, <4>1, <4>2 DEF Ring!Revoke, Off, There
      <3>4. ASSUME NEW i \in Items["/keys"], NEW n \in Items["/keys"],
                   r[i] # "absent", r[n] = "absent", q = Rotate(r, i, n)
            PROVE  Ring!Replace(i, n)
        <4>1. n \notin expired
          BY <3>0, <3>4 DEF Kept
        <4>2. \A k \in Items["/keys"] :
                q[k] = IF k = i THEN "off" ELSE IF k = n THEN "on" ELSE r[k]
          BY <1>0, <3>4 DEF Rotate, RotateNew
        <4>3. L(q) = (L(r) \ {i}) \cup {n} /\ Off(q) = Off(r) \cup {i}
          BY <3>4, <4>1, <4>2 DEF Off
        <4>4. i \in L(r) \cup Off(r) \cup expired /\ n \notin L(r) \cup Off(r)
          BY <1>0, <3>4 DEF Off, States
        <4> QED  BY <3>0, <3>1, <4>1, <4>3, <4>4 DEF Ring!Replace, Ring!Fresh, Ring!Ended, Off, There
      <3> QED  BY <1>1, <2>2, <3>2, <3>3, <3>4 DEF Held, Turns, Ring!Next
    <2> QED  BY <2>1, <2>2
  <1>2. CASE Blocked
    <2>1. Off(q) = Off(r) \cup {k \in Items["/keys"] : r[k] = "on"}
          /\ \A k \in Items["/keys"] : q[k] # "on"
      BY <1>0, <1>2 DEF Blocked, Revoked, Off
    <2>2. Live(rows["/keys"])' = {}
      BY <2>1 DEF Live
    <2>3. Off(q) = Off(r) \cup Live(r) \cup expired
      BY <1>0, <1>2, <2>1 DEF Blocked, Kept, Live, Off, States
    <2>4. Ring!Close
      BY <1>2, <2>2, <2>3 DEF Blocked, Ring!Close, Off, There, Enabled
    <2> QED  BY <2>4 DEF Ring!Next
  <1>3. CASE Deleted
    <2>1. Live(rows["/keys"])' = {}
      BY <1>3 DEF Deleted, Emptied, Live
    <2>2. Ring!Close
      BY <1>3, <2>1 DEF Deleted, Ring!Close, There, Enabled
    <2> QED  BY <2>2 DEF Ring!Next
  <1>4. CASE Dated
    <2>1. PICK k \in Expiring \ expired :
            r[k] = "on" /\ expired' = expired \cup {k} /\ UNCHANGED rows
      BY <1>4 DEF Dated
    <2>2. There /\ There' /\ k \in Items["/keys"]
      BY <2>1, RingPlaces DEF Kept, There
    <2>3. k \in Live(r) /\ Live(rows["/keys"])' = Live(r) \ {k}
      BY <2>1, <2>2 DEF Live
    <2>4. Ring!Expire(k)
      BY <2>1, <2>2, <2>3 DEF Ring!Expire, There, Enabled
    <2> QED  BY <2>2, <2>4 DEF Ring!Next
  <1> QED  BY <1>1, <1>2, <1>3, <1>4, KeysTurn

\* The keys of an account implement the ring, for any number of them: no step of any
\* device, handler, administrator or dying server brings back a key that was revoked
\* or expired, and none of the owner's takes the last that works.
THEOREM KeysKeptAlways == Spec => KeysKept
  <1>1. Init => Ring!Init
    <2> SUFFICES ASSUME Init PROVE Ring!Init
      OBVIOUS
    <2>1. /\ Current \in Items["/keys"] /\ "/keys" \in Tables /\ Current \in AtFirst["/keys"]
      BY ConsoleAssumption, TablePaths
    <2>2. \A k \in Items["/keys"] :
            rows["/keys"][k] = IF k \in AtFirst["/keys"] THEN "on" ELSE "absent"
      BY <2>1 DEF Init
    <2>3. Current \in Live(rows["/keys"]) /\ Off(rows["/keys"]) = {} /\ expired = {}
      BY <2>1, <2>2 DEF Live, Off, Init
    <2>4. Live(rows["/keys"]) \in (SUBSET Items["/keys"]) \ {{}}
      BY <2>3 DEF Live
    <2>5. There /\ Enabled = TRUE
      BY RingPlaces, ConsoleAssumption DEF Init, There, Enabled
    <2> QED  BY <2>3, <2>4, <2>5 DEF Ring!Init, Off, There
  <1>2. Spec => [](Shape /\ Kept)
    BY ShapeInit, ShapeNext, KeptInit, KeptNext, PTL DEF Spec
  <1>3. (Shape /\ Kept) /\ (Shape /\ Kept)' /\ [Next]_vars => [Ring!Next]_Ring!vars
    BY TurnsInRing
  <1> QED  BY <1>1, <1>2, <1>3, PTL DEF Spec, KeysKept, Ring!Spec

\* And the ring keeps its promise: no key works that has ended, none that has ended is
\* forgotten, and while the account is open the last that works goes by its date only.
THEOREM RingNeverAgain == Ring!Spec => Ring!NeverAgain
  <1> DEFINE live    == Live(rows["/keys"])
             revoked == IF rows["/admin/users"][Account] = "absent" THEN Items["/keys"]
                        ELSE {k \in Items["/keys"] : rows["/keys"][k] = "off"}
             Apart == live \cap Ring!Ended = {} /\ live \cup Ring!Ended \subseteq Items["/keys"]
             Kind  == /\ Ring!Ended \subseteq Ring!Ended'
                      /\ live # {} /\ live' = {} => expired' # expired \/ ~Enabled'
  <1>1. Ring!Init => Apart
    BY DEF Ring!Init, Ring!Ended
  <1>2. Apart /\ [Ring!Next]_Ring!vars => Apart' /\ Kind
    <2> SUFFICES ASSUME Apart, [Ring!Next]_Ring!vars PROVE Apart' /\ Kind
      OBVIOUS
    <2>1. PICK l, e, x, m, f, y : /\ l = live /\ e = revoked /\ x = expired
                                  /\ m = live' /\ f = revoked' /\ y = expired'
      OBVIOUS
    <2> DEFINE Go == /\ m \cap (f \cup y) = {} /\ e \cup x \subseteq f \cup y
                     /\ m \cup f \cup y \subseteq Items["/keys"]
                     /\ l # {} /\ m = {} => y # x \/ ~Enabled'
    <2>2. Go => Apart' /\ Kind
      BY <2>1 DEF Ring!Ended
    <2>3. l \cap (e \cup x) = {} /\ l \cup e \cup x \subseteq Items["/keys"]
      BY <2>1 DEF Ring!Ended
    <2>4. ASSUME NEW k \in Items["/keys"], Ring!New(k) PROVE Go
      <3>1. m = l \cup {k} /\ f = e /\ y = x /\ k \notin l \cup e \cup x
        BY <2>1, <2>4 DEF Ring!New, Ring!Fresh, Ring!Ended
      <3> QED  BY <2>3, <3>1
    <2>5. ASSUME NEW k \in Items["/keys"], Ring!Revoke(k) PROVE Go
      <3>1. m = l \ {k} /\ f = e \cup {k} /\ y = x /\ l # {k}
        BY <2>1, <2>5 DEF Ring!Revoke
      <3> QED  BY <2>3, <3>1
    <2>6. ASSUME NEW k \in Items["/keys"], Ring!Expire(k) PROVE Go
      <3>1. m = l \ {k} /\ f = e /\ y = x \cup {k} /\ k \in l
        BY <2>1, <2>6 DEF Ring!Expire
      <3> QED  BY <2>3, <3>1
    <2>7. ASSUME NEW k \in Items["/keys"], NEW n \in Items["/keys"], Ring!Replace(k, n) PROVE Go
      <3>1. /\ m = (l \ {k}) \cup {n} /\ f = e \cup {k} /\ y = x
            /\ n \notin l \cup e \cup x /\ k \in l \cup e \cup x
        BY <2>1, <2>7 DEF Ring!Replace, Ring!Fresh, Ring!Ended
      <3> QED  BY <2>3, <3>1
    <2>8. ASSUME Ring!Close PROVE Go
      <3>1. /\ m = {} /\ (f = e \cup l \cup x \/ f = Items["/keys"]) /\ y = x /\ ~Enabled'
        BY <2>1, <2>8 DEF Ring!Close
      <3> QED  BY <2>3, <3>1
    <2>9. ASSUME Ring!Reopen \/ UNCHANGED Ring!vars PROVE Go
      <3>1. m = l /\ f = e /\ y = x
        BY <2>1, <2>9 DEF Ring!vars, Ring!Reopen
      <3> QED  BY <2>3, <3>1
    <2> HIDE DEF Go
    <2>10. Go
      BY <2>4, <2>5, <2>6, <2>7, <2>8, <2>9 DEF Ring!Next
    <2> QED  BY <2>2, <2>10
  <1>3. Apart /\ [Ring!Next]_Ring!vars =>
          /\ Apart' /\ [Ring!Ended \subseteq Ring!Ended']_Ring!vars
          /\ [live # {} /\ live' = {} => expired' # expired \/ ~Enabled']_Ring!vars
    BY <1>2
  <1> QED  BY <1>1, <1>3, PTL DEF Ring!Spec, Ring!NeverAgain

\* So for any number of keys, whatever is revoked and rotated from any device and
\* wherever a rotation is cut short, the last key that works goes only when its date
\* passes, or when the administrator changes the user.
THEOREM KeepsAccessAlways == Spec => KeepsAccess
  <1>1. Shape /\ Shape' /\ Kept /\ [Next]_vars =>
          (Live(rows["/keys"]) # {} /\ Live(rows["/keys"])' = {}
             => expired' # expired \/ rows'["/admin/users"] # rows["/admin/users"])
    <2> SUFFICES ASSUME Shape, Shape', Kept, [Next]_vars, Live(rows["/keys"]) # {},
                        Live(rows["/keys"])' = {}, UNCHANGED expired,
                        rows'["/admin/users"] = rows["/admin/users"]
                 PROVE  FALSE
      OBVIOUS
    <2> DEFINE r == rows["/keys"]
               q == rows'["/keys"]
    <2>0. /\ r \in [Items["/keys"] -> States] /\ q \in [Items["/keys"] -> States]
          /\ \A k \in Items["/keys"] : q[k] = "on" => k \in expired
          /\ Live(r) # {} /\ Live(r) = {k \in Items["/keys"] : r[k] = "on" /\ k \notin expired}
      BY RingPlaces DEF Shape, RowsOK, Live
    <2>1. Enabled /\ There
      BY <2>0 DEF Kept, Enabled, There
    <2>2. CASE Held
      <3>1. CASE q = r
        BY <2>0, <3>1
      <3>2. ASSUME NEW n \in Items["/keys"], r[n] = "absent",
                   q[n] = "on"
            PROVE  FALSE
        BY <2>0, <2>1, <3>2 DEF Kept
      <3>3. ASSUME NEW i \in Items["/keys"], Live(r) # {i}, q = [r EXCEPT ![i] = "off"]
            PROVE  FALSE
        <4>1. PICK k \in Live(r) : k # i
          BY <2>0, <3>3
        <4> QED  BY <2>0, <3>3, <4>1
      <3>4. ASSUME NEW i \in Items["/keys"], NEW n \in Items["/keys"],
                   r[i] # "absent", r[n] = "absent", q = Rotate(r, i, n)
            PROVE  q[n] = "on"
        BY <2>0, <3>4 DEF Rotate, RotateNew
      <3>5. ASSUME NEW n \in Items["/keys"], q = [r EXCEPT ![n] = "on"]
            PROVE  q[n] = "on"
        BY <2>0, <3>5
      <3> QED  BY <2>2, <3>1, <3>2, <3>3, <3>4, <3>5 DEF Held, Turns
    <2>3. CASE Blocked \/ Deleted \/ Dated
      BY <2>1, <2>3 DEF Blocked, Deleted, Dated, Enabled, There
    <2> QED  BY <2>2, <2>3, KeysTurn
  <1>2. Spec => [](Shape /\ Kept)
    BY ShapeInit, ShapeNext, KeptInit, KeptNext, PTL DEF Spec
  <1>3. (Shape /\ Kept) /\ (Shape /\ Kept)' /\ [Next]_vars =>
          [Live(rows["/keys"]) # {} /\ Live(rows["/keys"])' = {}
             => expired' # expired \/ rows'["/admin/users"] # rows["/admin/users"]]_vars
    BY <1>1
  <1> QED  BY <1>2, <1>3, PTL DEF Spec, KeepsAccess

---------------------------------------------------------------------------
(* Health. *)

Loading(cs) == \E s \in Slots : cs[s] # NoCall /\ cs[s].does = "first"

\* A load that is under way stays so when another request is sent, and when one
\* that is no load is answered.
LEMMA SendLoading ==
  ASSUME NEW cs, Fit(cs), Loading(cs), NEW c, Send(cs, c)
  PROVE  Loading(calls')
  BY Sending DEF Loading, Fit
\* It stays so when another request is taken.
LEMMA WithoutLoading ==
  ASSUME Fit(calls), Loading(calls), NEW s, calls[s].does # "first"
  PROVE  Loading(Without(s))
  BY DEF Loading, Fit, Without
\* Rendering a page keeps it, or is it.
LEMMA MountLoading ==
  ASSUME NEW p \in Places, NEW cs, Fit(cs), StreamOK(stream), mixed \subseteq Tables,
         Mount(p, cs), Loading(cs) \/ p = Health
  PROVE  Loading(calls')
  <1>1. PICK t \in Slots : /\ cs[t] = NoCall /\ calls'[t] \in Call
                           /\ p = Health => calls'[t].does = "first"
                           /\ calls' = [cs EXCEPT ![t] = calls'[t]]
    BY Mounting
  <1> QED  BY <1>1, NoCallApart DEF Loading, Fit

\* The health page stays watched.
LEMMA WatchedNext == Shape /\ HealthWatched /\ [Next]_vars => HealthWatched'
  <1> SUFFICES ASSUME Shape, HealthWatched, [Next]_vars, hash' = Health, ~due'
               PROVE  timer' \/ Loading(calls')
    BY NoCallApart DEF HealthWatched, Loading, Busy
  <1>0. /\ AddressOK /\ DialogsOK(dialogs) /\ Fit(calls) /\ StreamOK(stream)
        /\ mixed \subseteq Tables
        /\ hash = Health /\ ~due => timer \/ Loading(calls)
    BY DEF Shape, HistoryOK, HealthWatched, Loading, Busy
  <1>1. CASE UNCHANGED <<hash, due, timer, calls>>
    BY <1>0, <1>1
  <1>2. CASE HashChange
    <2>1. hash \in Places /\ Mount(hash, calls) /\ hash = Health
      BY <1>0, <1>2, TablePaths DEF HashChange, AddressOK
    <2> QED  BY <1>0, <2>1, MountLoading
  <1>3. ASSUME NEW c, Send(calls, c), UNCHANGED <<hash, due, timer>>
        PROVE  timer' \/ Loading(calls')
    BY <1>0, <1>3, SendLoading
  <1>4. ASSUME NEW op, NEW i, ClickAsks(op, i) \/ ClickActs(op, i) \/ Elsewhere(op, i)
        PROVE  timer' \/ Loading(calls')
    BY <1>1, <1>3, <1>4 DEF ClickAsks, ClickActs, Elsewhere, address
  <1>5. ASSUME NEW d \in dialogs, CloseSecret(d) PROVE timer' \/ Loading(calls')
    <2>1. "/keys" \in Places
      BY TablePaths DEF Places
    <2> QED  BY <1>0, <1>1, <1>5, <2>1, MountLoading DEF CloseSecret, address
  <1>6. ASSUME NEW d, NEW answer, AnswerDialog(d, answer) PROVE timer' \/ Loading(calls')
    BY <1>1, <1>3, <1>6 DEF AnswerDialog, address
  <1>7. ASSUME NEW s \in Slots, Server(s) PROVE timer' \/ Loading(calls')
    <2>1. s \in Busy(calls) /\ UNCHANGED <<hash, due, timer>> /\ calls[s] # NoCall
      BY <1>7 DEF Server, ServeList, ServeAct, Lose, RotateHalf, address, Busy
    <2>2. calls'[s].does = calls[s].does /\ calls'[s] # NoCall
          /\ \A t \in Slots \ {s} : calls'[t] = calls[t]
      <3>1. ASSUME NEW got \in {"ok", "failed", "refused"}, Got(s, got),
                   got # "ok" \/ calls[s].does # "list"
            PROVE  /\ calls'[s].does = calls[s].does /\ calls'[s] # NoCall
                   /\ \A t \in Slots \ {s} : calls'[t] = calls[t]
        BY <1>0, <2>1, <3>1, GotFit
      <3>2. CASE ServeList(s) /\ ~Got(s, "refused")
        <4> DEFINE r == IF calls[s].path \in Tables THEN rows[calls[s].path] ELSE NoRows
        <4>1. calls[s].does # "act" /\ calls' = [calls EXCEPT ![s].got = "ok", ![s].rows = r]
          BY <3>2 DEF ServeList
        <4>2. r \in Rows /\ (calls[s].path \in Tables => r \in [Items[calls[s].path] -> States])
          BY DEF Rows, Shape, RowsOK
        <4> HIDE DEF r
        <4> QED  BY <1>0, <2>1, <4>1, <4>2, ListedFit
      <3> QED  BY <1>7, <3>1, <3>2 DEF Server, ServeList, ServeAct, Lose, RotateHalf
    <2> QED  BY <1>0, <2>1, <2>2 DEF Loading
  <1>8. ASSUME NEW s \in Slots, Goes(s) PROVE timer' \/ Loading(calls')
    <2>1. CASE Refused(s)
      BY <2>1, TablePaths DEF Refused
    <2>2. CASE FirstLoaded(s)
      BY <2>2 DEF FirstLoaded
    <2>3. CASE ListAnswered(s) \/ ActFailed(s) \/ Polled(s) \/ LogsAnswered(s)
      <3>1. /\ calls' = Without(s) /\ UNCHANGED <<hash, due, timer>> /\ calls[s].does # "first"
        BY <2>3 DEF ListAnswered, ActFailed, Polled, HealthAnswered, LogsAnswered, address
      <3> QED  BY <1>0, <3>1, WithoutLoading
    <2>4. CASE ActDone(s)
      <3>1. /\ calls[s].path \in Places /\ calls[s].op.then \in {"show", "stay", "reload"}
            /\ calls[s].does # "first" /\ UNCHANGED <<hash, due, timer>>
        BY <1>0, <2>4, OpFacts, TablePaths
        DEF ActDone, Answered, Busy, Fit, Apt, Sound, Places, address
      <3>2. calls' = Without(s) \/ Mount(calls[s].path, Without(s))
        BY <2>4, <3>1 DEF ActDone
      <3>3. Fit(Without(s)) /\ (Loading(calls) => Loading(Without(s)))
        BY <1>0, <3>1, WithoutFit, WithoutLoading
      <3> QED  BY <1>0, <3>1, <3>2, <3>3, MountLoading
    <2> QED  BY <1>8, <2>1, <2>2, <2>3, <2>4 DEF Goes
  <1>9. CASE Poll \/ ReloadLogs
    BY <1>3, <1>9 DEF Poll, ReloadLogs, address
  <1>10. ASSUME \/ Filter \/ ClickStream \/ \E p \in Visits : Visit(p)
                \/ \E v \in Views : Entry(v) \/ StreamBreaks(v)
                \/ \E k \in Expiring : Expire(k)
         PROVE  due' \/ UNCHANGED <<hash, due, timer, calls>>
    BY <1>10 DEF Filter, ClickStream, Visit, Entry, StreamBreaks, Expire, address
  <1>11. CASE UNCHANGED vars
    BY <1>1, <1>11 DEF vars
  <1> QED
    BY <1>1, <1>2, <1>4, <1>5, <1>6, <1>7, <1>8, <1>9, <1>10, <1>11 DEF Next

\* While its address is shown the health page is loading or polled, for any number
\* of requests in flight and any navigation.
THEOREM HealthWatchedAlways == Spec => []HealthWatched
  <1>1. Init => Shape /\ HealthWatched
    BY ShapeInit DEF Init, HealthWatched
  <1>2. Shape /\ HealthWatched /\ [Next]_vars => (Shape /\ HealthWatched)'
    BY ShapeNext, WatchedNext
  <1>3. Spec => [](Shape /\ HealthWatched)
    BY <1>1, <1>2, PTL DEF Spec
  <1> QED  BY <1>3, PTL

---------------------------------------------------------------------------
(* Freshness. *)

\* Two requests for one table make it mixed.
Alone(cs, mx) ==
  \A s, t \in Slots :
    cs[s] # NoCall /\ cs[t] # NoCall /\ cs[s].path = cs[t].path /\ cs[s].path \in Tables \ mx
      => s = t

\* A table that was read is still what the server has.
Loaded(cs, mx, rs) ==
  \A s \in Slots :
    cs[s] # NoCall /\ cs[s].does = "list" /\ cs[s].got = "ok" /\ cs[s].path \in Tables \ mx
      => cs[s].rows = rs[cs[s].path]

\* A new key is to be noted, and the table of keys loads again after that.
Unnoted(ds, p) == p = "/keys" /\ \E d \in ds : d.kind = "secret" /\ d.op.page = "/keys"

\* How the table sc shows and the server's, r, differ while the operation c is in
\* flight: by the switch until it is served, by the switch that is to follow after.
Pending(c, sc, r) ==
  IF c.got = "ok"
    THEN \/ c.op.then = "reload" \/ (c.op.then = "show" /\ c.op.page = "/keys")
         \/ c.op.name = "save" /\ r = [sc.rows EXCEPT ![c.item] = c.to]
         \/ c.op.name # "save" /\ sc.rows = r
    ELSE IF c.op.name = "toggle"
      THEN c.item \in sc.held /\ sc.rows = [r EXCEPT ![c.item] = c.to]
             /\ Flipped(c.to) = r[c.item]
      ELSE sc.rows = r /\ (c.op.name = "save" => c.to \in States)

Drawn(cs, mx, rs, sc, ds) ==
  sc.path \in Tables \ mx /\ sc.shows = "data" /\ ~Unnoted(ds, sc.path) =>
    /\ \A s \in Slots : cs[s] # NoCall /\ cs[s].path = sc.path
                          => cs[s].does = "act" /\ Pending(cs[s], sc, rs[sc.path])
    /\ (\A s \in Slots : cs[s] # NoCall => cs[s].path # sc.path) => sc.rows = rs[sc.path]

Fresh ==
  /\ Alone(calls, mixed) /\ Loaded(calls, mixed, rows)
  /\ Drawn(calls, mixed, rows, screen, dialogs)

\* Fresh is stronger than the property.
LEMMA FreshShows == Fresh => TableFresh
  <1> SUFFICES ASSUME Fresh, screen.path \in Tables \ mixed, screen.shows = "data",
                      About(screen.path) = {}, \A d \in dialogs : d.kind = "ask"
               PROVE  screen.rows = rows[screen.path]
    BY DEF TableFresh
  <1>1. ~Unnoted(dialogs, screen.path)
    BY DEF Unnoted
  <1>2. \A s \in Slots : calls[s] # NoCall => calls[s].path # screen.path
    BY DEF About, Busy
  <1> QED  BY <1>1, <1>2 DEF Fresh, Drawn

\* The first two parts, by the ways requests come and go.
LEMMA SendAlone ==
  ASSUME NEW cs, Fit(cs), Alone(cs, mixed), Loaded(cs, mixed, rows), NEW c, Send(cs, c),
         c.got = "sent"
  PROVE  Alone(calls', mixed') /\ Loaded(calls', mixed', rows) /\ mixed \subseteq mixed'
  <1>1. PICK t \in Slots : cs[t] = NoCall /\ calls' = [cs EXCEPT ![t] = c]
    BY Sending
  <1>2. /\ mixed \subseteq mixed'
        /\ c.path \in Tables /\ (\E s \in Slots : cs[s] # NoCall /\ cs[s].path = c.path)
             => c.path \in mixed'
    BY DEF Send, Busy
  <1>3. calls'[t] = c /\ \A s \in Slots \ {t} : calls'[s] = cs[s]
    BY <1>1 DEF Fit
  <1>4. Alone(calls', mixed')
    BY <1>2, <1>3 DEF Alone
  <1>5. Loaded(calls', mixed', rows)
    BY <1>2, <1>3 DEF Loaded
  <1> QED  BY <1>2, <1>4, <1>5
\* A request that is taken leaves the others as they are.
LEMMA WithoutAlone ==
  ASSUME Fit(calls), Alone(calls, mixed), Loaded(calls, mixed, rows), NEW s
  PROVE  Alone(Without(s), mixed) /\ Loaded(Without(s), mixed, rows)
  BY DEF Alone, Loaded, Fit, Without
\* Rendering a page draws nothing that could be stale.
LEMMA MountFresh ==
  ASSUME NEW p \in Places, NEW cs, Fit(cs), StreamOK(stream), mixed \subseteq Tables,
         Alone(cs, mixed), Loaded(cs, mixed, rows), Mount(p, cs), UNCHANGED rows
  PROVE  Fresh'
  <1>1. PICK t \in Slots : /\ cs[t] = NoCall /\ calls'[t].path = p /\ calls'[t].got = "sent"
                           /\ calls' = [cs EXCEPT ![t] = calls'[t]]
    BY Mounting
  <1>2. /\ mixed \subseteq mixed'
        /\ p \in Tables /\ (\E s \in Slots : cs[s] # NoCall /\ cs[s].path = p) => p \in mixed'
    BY Mounting DEF Busy
  <1>3. \A s \in Slots \ {t} : calls'[s] = cs[s]
    BY <1>1 DEF Fit
  <1>4. Alone(calls', mixed')
    BY <1>1, <1>2, <1>3 DEF Alone
  <1>5. Loaded(calls', mixed', rows')
    BY <1>1, <1>2, <1>3 DEF Loaded
  <1>6. screen'.shows # "data"
    BY Bounds, SpinnerOK DEF Mount
  <1> QED  BY <1>4, <1>5, <1>6 DEF Fresh, Drawn

\* What the router and the user's navigation do.
LEMMA RoutingFresh ==
  ASSUME Shape, Fresh, HashChange \/ Filter \/ \E p \in Visits : Visit(p)
  PROVE  Fresh'
  <1>0. /\ AddressOK /\ Fit(calls) /\ StreamOK(stream) /\ mixed \subseteq Tables
        /\ Alone(calls, mixed) /\ Loaded(calls, mixed, rows)
        /\ Drawn(calls, mixed, rows, screen, dialogs)
    BY DEF Shape, HistoryOK, Fresh
  <1>1. CASE HashChange /\ signed
    BY <1>0, <1>1, MountFresh DEF HashChange, AddressOK
  <1>2. CASE HashChange /\ ~signed
    <2>1. /\ UNCHANGED <<dialogs, rows, calls, mixed>>
          /\ screen' = screen \/ screen' = [Spinner("/login") EXCEPT !.shows = "data"]
      BY <1>2 DEF HashChange
    <2>2. [Spinner("/login") EXCEPT !.shows = "data"].path \notin Tables
      BY TablePaths DEF Spinner
    <2> QED  BY <1>0, <2>1, <2>2 DEF Fresh, Drawn
  <1>3. CASE Filter \/ \E p \in Visits : Visit(p)
    BY <1>0, <1>3 DEF Filter, Visit, Fresh
  <1> QED  BY <1>1, <1>2, <1>3

\* What a click on a row and another device do.
LEMMA ClickFresh ==
  ASSUME Shape, Fresh, NEW op \in Ops, NEW i \in AllItems,
         ClickAsks(op, i) \/ ClickActs(op, i) \/ Elsewhere(op, i)
  PROVE  Fresh'
  <1>0. /\ ScreenOK(screen) /\ Fit(calls) /\ RowsOK(rows) /\ mixed \subseteq Tables
        /\ Alone(calls, mixed) /\ Loaded(calls, mixed, rows)
        /\ Drawn(calls, mixed, rows, screen, dialogs)
        /\ op.page \in Tables /\ Sound(op)
    BY OpFacts DEF Shape, HistoryOK, Fresh, Sound
  <1>1. CASE ClickAsks(op, i)
    <2>1. /\ UNCHANGED <<screen, calls, rows, mixed>>
          /\ dialogs' = dialogs \cup {[op |-> op, item |-> i, kind |-> "ask"]}
      BY <1>1 DEF ClickAsks
    <2>2. \A p : Unnoted(dialogs', p) <=> Unnoted(dialogs, p)
      BY <2>1 DEF Unnoted
    <2> QED  BY <1>0, <2>1, <2>2 DEF Fresh, Drawn
  <1>2. CASE ClickActs(op, i)
    <2> DEFINE to == Flipped(screen.rows[i])
               c  == ActRequest(op, i, to)
    <2>1. /\ UNCHANGED rows /\ dialogs = {} /\ dialogs' = {} /\ i \in Items[op.page]
          /\ screen.path = op.page /\ screen.shows = "data" /\ screen.rows[i] \in op.when
          /\ op.asks = "no" /\ Send(calls, c)
          /\ screen' = IF op.name = "toggle"
                         THEN [screen EXCEPT !.rows[i] = Flipped(@), !.held = @ \cup {i}]
                         ELSE screen
      BY <1>2 DEF ClickActs, Offers
    <2>2. /\ c.got = "sent" /\ c.path = op.page /\ c.does = "act" /\ c.op = op
          /\ c.item = i /\ c.to = to /\ c # NoCall
      <3>1. c.got = "sent"
        BY DEF ActRequest, Request
      <3> QED  BY <2>1, <3>1, ActFit, FlippedState, NoCallApart
    <2> HIDE DEF c
    <2>3. Alone(calls', mixed') /\ Loaded(calls', mixed', rows) /\ mixed \subseteq mixed'
      BY <1>0, <2>1, <2>2, SendAlone
    <2>4. PICK t \in Slots : calls' = [calls EXCEPT ![t] = c] /\ calls[t] = NoCall
      BY <1>0, <2>1, Sending
    <2>5. calls'[t] = c /\ \A s \in Slots \ {t} : calls'[s] = calls[s]
      BY <1>0, <2>4 DEF Fit
    <2>6. ASSUME op.page \notin mixed'
          PROVE  /\ \A s \in Slots : calls[s] # NoCall => calls[s].path # op.page
                 /\ screen.rows = rows[op.page]
      <3>1. \A s \in Slots : calls[s] # NoCall => calls[s].path # op.page
        BY <1>0, <2>1, <2>2, <2>6 DEF Send, Busy
      <3>2. ~Unnoted(dialogs, op.page)
        BY <2>1 DEF Unnoted
      <3> QED  BY <1>0, <2>1, <2>3, <2>6, <3>1, <3>2 DEF Drawn
    <2>7. screen'.path = op.page
      <3>1. screen'.path = screen.path
        BY <1>0, <2>1 DEF ScreenOK
      <3> QED  BY <2>1, <3>1
    <2>8. op.page \notin mixed' => Pending(c, screen', rows[op.page])
      <3>1. CASE op.name = "toggle"
        <4>1. PICK u : u = [screen EXCEPT !.rows[i] = to]
          OBVIOUS
        <4>2. screen' = [u EXCEPT !.held = screen.held \cup {i}]
          BY <2>1, <3>1, <4>1 DEF ScreenOK
        <4>3. u.rows = [screen.rows EXCEPT ![i] = to] /\ DOMAIN u = DOMAIN screen
          BY <1>0, <4>1 DEF ScreenOK
        <4>4. screen'.rows = u.rows /\ i \in screen'.held
          BY <1>0, <4>2, <4>3 DEF ScreenOK
        <4>5. Flipped(to) = screen.rows[i]
          BY <1>0, <2>1, <3>1 DEF Sound, Flipped, Present
        <4> HIDE DEF to
        <4> QED  BY <2>2, <2>6, <3>1, <4>3, <4>4, <4>5 DEF Pending
      <3>2. CASE op.name # "toggle"
        BY <2>1, <2>2, <2>6, <3>2, FlippedState DEF Pending
      <3> QED  BY <3>1, <3>2
    <2>9. Drawn(calls', mixed', rows', screen', dialogs')
      BY <2>1, <2>2, <2>5, <2>6, <2>7, <2>8 DEF Drawn
    <2> QED  BY <2>1, <2>3, <2>9 DEF Fresh
  <1>3. CASE Elsewhere(op, i)
    <2>1. /\ mixed' = mixed \cup {op.page} \cup Reaches(op, i) /\ i \in Items[op.page]
          /\ rows' \in Tabled(op, i, "on") /\ UNCHANGED <<screen, dialogs, calls>>
      BY <1>3 DEF Elsewhere
    <2>2. mixed \subseteq mixed' /\ UNCHANGED <<screen, dialogs, calls>> /\ "on" \in States
      BY <2>1 DEF States
    <2>3. \A p \in Tables \ mixed' : rows'[p] = rows[p] /\ p \in Tables \ mixed
      BY <1>0, <2>1, <2>2, TabledTyped
    <2>4. Alone(calls', mixed')
      BY <1>0, <2>2 DEF Alone
    <2>5. Loaded(calls', mixed', rows')
      BY <1>0, <2>2, <2>3 DEF Loaded
    <2>6. Drawn(calls', mixed', rows', screen', dialogs')
      BY <1>0, <2>2, <2>3 DEF Drawn
    <2> QED  BY <2>4, <2>5, <2>6 DEF Fresh
  <1> QED  BY <1>1, <1>2, <1>3

\* What an answered or closed dialog does.
LEMMA DialogFresh ==
  ASSUME Shape, Fresh, NEW d \in dialogs,
         CloseSecret(d) \/ \E answer \in {"true", "false", None} : AnswerDialog(d, answer)
  PROVE  Fresh'
  <1>0. /\ Fit(calls) /\ StreamOK(stream) /\ mixed \subseteq Tables /\ DialogsOK(dialogs)
        /\ Alone(calls, mixed) /\ Loaded(calls, mixed, rows)
        /\ Drawn(calls, mixed, rows, screen, dialogs)
    BY DEF Shape, HistoryOK, Fresh
  <1>1. CASE CloseSecret(d) /\ d.op.page = "/keys"
    <2>1. "/keys" \in Places
      BY TablePaths DEF Places
    <2> QED  BY <1>0, <1>1, <2>1, MountFresh DEF CloseSecret
  <1>2. CASE CloseSecret(d) /\ d.op.page # "/keys"
    <2>1. UNCHANGED <<screen, calls, rows, mixed>> /\ dialogs' = dialogs \ {d}
      BY <1>2 DEF CloseSecret
    <2>2. \A p : Unnoted(dialogs', p) <=> Unnoted(dialogs, p)
      BY <1>2, <2>1 DEF Unnoted
    <2> QED  BY <1>0, <2>1, <2>2 DEF Fresh, Drawn
  <1>3. ASSUME NEW answer, AnswerDialog(d, answer) PROVE Fresh'
    <2> DEFINE c == ActRequest(d.op, d.item, "on")
    <2>1. /\ UNCHANGED <<screen, rows>> /\ dialogs' = dialogs \ {d} /\ d.kind = "ask"
          /\ Send(calls, c) \/ UNCHANGED <<calls, mixed>>
      BY <1>3 DEF AnswerDialog
    <2>2. \A p : Unnoted(dialogs', p) <=> Unnoted(dialogs, p)
      BY <2>1 DEF Unnoted
    <2>3. /\ d.op.name \notin {"toggle", "save"} /\ c.got = "sent" /\ c.path = d.op.page
          /\ c.does = "act" /\ c.op = d.op
      <3>1. d.op \in Ops /\ d.item \in Items[d.op.page] /\ d.op.asks # "no" /\ "on" \in States
        BY <1>0, <2>1 DEF DialogsOK, States
      <3>2. d.op.name \notin {"toggle", "save"}
        BY <3>1, OpFacts DEF Sound
      <3>3. c.got = "sent"
        BY DEF ActRequest, Request
      <3> QED  BY <3>1, <3>2, <3>3, ActFit
    <2> HIDE DEF c
    <2>4. CASE UNCHANGED <<calls, mixed>>
      BY <1>0, <2>1, <2>2, <2>4 DEF Fresh, Drawn
    <2>5. CASE Send(calls, c)
      <3>1. Alone(calls', mixed') /\ Loaded(calls', mixed', rows) /\ mixed \subseteq mixed'
        BY <1>0, <2>3, <2>5, SendAlone
      <3>2. PICK t \in Slots : calls' = [calls EXCEPT ![t] = c] /\ calls[t] = NoCall
        BY <1>0, <2>5, Sending
      <3>3. calls'[t] = c /\ \A s \in Slots \ {t} : calls'[s] = calls[s]
        BY <1>0, <3>2 DEF Fit
      <3>4. ASSUME screen.path = c.path, screen.path \in Tables \ mixed'
            PROVE  \A s \in Slots : calls[s] # NoCall => calls[s].path # screen.path
        BY <2>5, <3>4 DEF Send, Busy
      <3>5. ASSUME screen.path \in Tables \ mixed', screen.shows = "data",
                   ~Unnoted(dialogs, screen.path)
            PROVE  /\ \A s \in Slots : calls'[s] # NoCall /\ calls'[s].path = screen.path
                        => calls'[s].does = "act" /\ Pending(calls'[s], screen, rows[screen.path])
                   /\ (\A s \in Slots : calls'[s] # NoCall => calls'[s].path # screen.path)
                        => screen.rows = rows[screen.path]
        <4>1. /\ \A s \in Slots : calls[s] # NoCall /\ calls[s].path = screen.path
                   => calls[s].does = "act" /\ Pending(calls[s], screen, rows[screen.path])
              /\ (\A s \in Slots : calls[s] # NoCall => calls[s].path # screen.path)
                   => screen.rows = rows[screen.path]
          BY <1>0, <3>1, <3>5 DEF Drawn
        <4>2. CASE screen.path = c.path
          <5>1. screen.rows = rows[screen.path]
            BY <3>4, <3>5, <4>1, <4>2
          <5>2. Pending(c, screen, rows[screen.path])
            BY <2>3, <5>1 DEF Pending
          <5> QED  BY <2>3, <3>3, <3>4, <3>5, <4>2, <5>1, <5>2
        <4>3. CASE screen.path # c.path
          <5>1. \A s \in Slots : calls'[s] # NoCall /\ calls'[s].path = screen.path
                  => calls[s] # NoCall /\ calls'[s] = calls[s]
            BY <3>3, <4>3
          <5>2. \A s \in Slots : calls[s] # NoCall => calls'[s] = calls[s]
            BY <3>2, <3>3
          <5> QED  BY <4>1, <5>1, <5>2
        <4> QED  BY <4>2, <4>3
      <3>6. Drawn(calls', mixed', rows', screen', dialogs')
        BY <2>1, <2>2, <3>5 DEF Drawn
      <3> QED  BY <2>1, <3>1, <3>6 DEF Fresh
    <2> QED  BY <2>1, <2>4, <2>5
  <1> QED  BY <1>1, <1>2, <1>3

\* What the server does to a table an operation is under way for.
LEMMA ServedPending ==
  ASSUME NEW op, Sound(op), NEW p \in Tables, op.page = p, NEW i \in Items[p], NEW to,
         NEW c, NEW d, c.op = op, c.item = i, c.to = to, c.got = "sent",
         d.op = op, d.item = i, d.to = to, d.got = "ok",
         NEW r \in [Items[p] -> States], Permits(op, r, i), NEW q \in Results(op, r, i, to),
         NEW sc, Pending(c, sc, r)
  PROVE  Pending(d, sc, q)
  <1>1. CASE op.then = "reload"
    <2>1. d.got = "ok" /\ d.op.then = "reload"
      BY <1>1
    <2> QED  BY <2>1, Zenon DEF Pending
  <1>2. CASE op.then # "reload" /\ op.effect = "flip"
    <2>1. q = [r EXCEPT ![i] = to] /\ op.name \in {"toggle", "save"}
      BY <1>2 DEF Results, Sound
    <2> QED  BY <2>1 DEF Pending
  <1>3. CASE op.then # "reload" /\ op.effect # "flip"
    <2>1. op.name \notin {"toggle", "save"}
      BY <1>3 DEF Sound
    <2>2. \/ op.then = "show" /\ op.page = "/keys"
          \/ op.effect \in {"unsent", "none", "refused"}
      BY <1>3 DEF Sound
    <2>3. CASE op.effect \in {"unsent", "none", "refused"}
      <3>1. q = r
        BY <2>3 DEF Results
      <3> QED  BY <2>1, <3>1 DEF Pending
    <2> QED  BY <2>2, <2>3 DEF Pending
  <1> QED  BY <1>1, <1>2, <1>3

\* What the server's answers and losses do.
LEMMA ServerFresh ==
  ASSUME Shape, Fresh, NEW s \in Slots, Server(s)
  PROVE  Fresh'
  <1> DEFINE c == calls[s]
             p == screen.path
  <1>0. /\ Fit(calls) /\ RowsOK(rows) /\ mixed \subseteq Tables
        /\ Alone(calls, mixed) /\ Loaded(calls, mixed, rows)
        /\ Drawn(calls, mixed, rows, screen, dialogs)
    BY DEF Shape, HistoryOK, Fresh
  <1>1. /\ s \in Busy(calls) /\ c # NoCall /\ c \in Call /\ Apt(c)
        /\ UNCHANGED <<screen, dialogs>>
    BY <1>0, NoCallApart
    DEF Server, ServeList, ServeAct, Lose, RotateHalf, Fit, Busy
  \* Nothing is drawn, or its table is asked for by operations only.
  <1>2. ASSUME p \in Tables \ mixed, screen.shows = "data", ~Unnoted(dialogs, p)
        PROVE  /\ \A t \in Slots : calls[t] # NoCall /\ calls[t].path = p
                    => t = s \/ c.path # p
               /\ c.path = p => c.does = "act" /\ Pending(c, screen, rows[p])
               /\ \A t \in Slots : calls[t] # NoCall /\ calls[t].path = p
                    => calls[t].does = "act" /\ Pending(calls[t], screen, rows[p])
               /\ (\A t \in Slots : calls[t] # NoCall => calls[t].path # p)
                    => screen.rows = rows[p]
    <2>1. \A t \in Slots : calls[t] # NoCall /\ calls[t].path = p => t = s \/ c.path # p
      BY <1>0, <1>1, <1>2 DEF Alone
    <2> QED  BY <1>0, <1>1, <1>2, <2>1 DEF Drawn
  \* The request keeps its place: what is left is what it and the table become.
  <1>3. ASSUME /\ calls'[s] # NoCall /\ calls'[s].path = c.path /\ calls'[s].does = c.does
               /\ \A t \in Slots \ {s} : calls'[t] = calls[t],
               mixed \subseteq mixed',
               c.does = "list" /\ calls'[s].got = "ok" /\ c.path \in Tables \ mixed'
                 => calls'[s].rows = rows'[c.path],
               \A q \in Tables \ mixed' : rows'[q] = rows[q] \/ q = c.path,
               p \in Tables \ mixed' /\ p = c.path /\ c.does = "act"
                 /\ Pending(c, screen, rows[p]) => Pending(calls'[s], screen, rows'[p])
        PROVE  Fresh'
    <2> HIDE DEF c, p
    <2>1. Alone(calls', mixed')
      BY <1>0, <1>1, <1>3 DEF Alone, c
    <2>2. Loaded(calls', mixed', rows')
      <3> SUFFICES ASSUME NEW t \in Slots, calls'[t] # NoCall, calls'[t].does = "list",
                          calls'[t].got = "ok", calls'[t].path \in Tables \ mixed'
                   PROVE  calls'[t].rows = rows'[calls'[t].path]
        BY DEF Loaded
      <3>1. CASE t = s
        BY <1>3, <3>1
      <3>2. CASE t # s
        <4>1. calls'[t] = calls[t] /\ calls[t].path # c.path
          BY <1>0, <1>1, <1>3, <3>2 DEF Alone, c
        <4> QED  BY <1>0, <1>3, <4>1 DEF Loaded
      <3> QED  BY <3>1, <3>2
    <2>3. ASSUME p \in Tables \ mixed', screen.shows = "data", ~Unnoted(dialogs, p)
          PROVE  /\ \A t \in Slots : calls'[t] # NoCall /\ calls'[t].path = p
                      => calls'[t].does = "act" /\ Pending(calls'[t], screen, rows'[p])
                 /\ (\A t \in Slots : calls'[t] # NoCall => calls'[t].path # p)
                      => screen.rows = rows'[p]
      <3>1. CASE c.path = p
        BY <1>1, <1>2, <1>3, <2>3, <3>1
      <3>2. CASE c.path # p
        <4>1. rows'[p] = rows[p]
          BY <1>3, <2>3, <3>2
        <4>2. \A t \in Slots : calls'[t] # NoCall /\ calls'[t].path = p
                => t # s /\ calls'[t] = calls[t]
          BY <1>3, <3>2
        <4>3. \A t \in Slots : calls[t] # NoCall => calls'[t] # NoCall /\ calls'[t].path = calls[t].path
          BY <1>1, <1>3 DEF c
        <4> QED  BY <1>2, <1>3, <2>3, <4>1, <4>2, <4>3
      <3> QED  BY <3>1, <3>2
    <2>4. Drawn(calls', mixed', rows', screen', dialogs')
      BY <1>1, <2>3 DEF Drawn, p
    <2> QED  BY <2>1, <2>2, <2>4 DEF Fresh
  \* Refused or failed: the table is as before.
  <1>4. ASSUME NEW got \in {"failed", "refused"}, Got(s, got),
               \A q \in Tables \ mixed' : rows'[q] = rows[q],
               mixed \subseteq mixed', c.got # "sent" /\ c.does = "act" => c.path \in mixed'
        PROVE  Fresh'
    <2>1. /\ calls'[s] # NoCall /\ calls'[s].got = got
          /\ calls'[s].path = c.path /\ calls'[s].does = c.does /\ calls'[s].op = c.op
          /\ calls'[s].item = c.item /\ calls'[s].to = c.to
          /\ \A t \in Slots \ {s} : calls'[t] = calls[t]
      BY <1>0, <1>1, <1>4, GotFit
    <2>2. ASSUME p \in Tables \ mixed', p = c.path, c.does = "act",
                 Pending(c, screen, rows[p])
          PROVE  Pending(calls'[s], screen, rows'[p])
      <3>1. c.got = "sent" /\ rows'[p] = rows[p]
        BY <1>4, <2>2
      <3> QED  BY <2>1, <2>2, <3>1 DEF Pending
    <2> HIDE DEF c, p
    <2> QED  BY <1>3, <1>4, <2>1, <2>2
  <1>5. CASE ServeList(s)
    <2>1. UNCHANGED <<rows, mixed>> /\ c.does # "act"
      BY <1>5 DEF ServeList
    <2>2. CASE Got(s, "refused")
      <3>1. c.got = "sent"
        BY <1>5 DEF ServeList
      <3> HIDE DEF c
      <3> QED  BY <1>4, <2>1, <2>2, <3>1
    <2>3. CASE ~Got(s, "refused")
      <3> DEFINE r == IF c.path \in Tables THEN rows[c.path] ELSE NoRows
      <3>1. calls' = [calls EXCEPT ![s].got = "ok", ![s].rows = r]
        BY <1>5, <2>3 DEF ServeList
      <3>2. r \in Rows /\ (c.path \in Tables => r \in [Items[c.path] -> States])
        BY <1>0 DEF Rows, RowsOK
      <3> HIDE DEF r
      <3>3. /\ calls'[s] # NoCall /\ calls'[s].path = c.path /\ calls'[s].does = c.does
            /\ calls'[s].rows = r
            /\ \A t \in Slots \ {s} : calls'[t] = calls[t]
        BY <1>0, <1>1, <2>1, <3>1, <3>2, ListedFit
      <3>4. c.path \in Tables => r = rows[c.path]
        BY DEF r
      <3> HIDE DEF c, p
      <3> QED  BY <1>3, <2>1, <3>3, <3>4
    <2> QED  BY <2>2, <2>3
  <1>6. CASE ServeAct(s)
    <2>1. /\ c.op \in Ops /\ c.path = c.op.page /\ c.item \in Items[c.op.page]
          /\ Sound(c.op) /\ c.op.page \in Tables /\ c.to \in States
          /\ c.does = "act" /\ c.got = "sent"
          /\ mixed' = IF rows' = rows THEN mixed ELSE mixed \cup Reaches(c.op, c.item)
      BY <1>1, <1>6, OpFacts, CallParts DEF ServeAct, Apt, Sound
    <2>2. CASE UNCHANGED rows /\ (Got(s, "refused") \/ Got(s, "failed"))
      <3> HIDE DEF c, p
      <3> QED  BY <1>4, <2>1, <2>2
    <2>3. CASE ~(UNCHANGED rows /\ (Got(s, "refused") \/ Got(s, "failed")))
      <3>1. /\ Permits(c.op, rows[c.path], c.item) /\ Got(s, "ok")
            /\ rows' \in Tabled(c.op, c.item, c.to)
        BY <1>6, <2>3 DEF ServeAct
      <3>2. PICK r \in Results(c.op, rows[c.path], c.item, c.to) : rows'[c.path] = r
        BY <1>0, <2>1, <3>1, TabledTyped
      <3>3. rows'[c.path] = r /\ mixed \subseteq mixed'
            /\ \A q \in Tables \ mixed' : rows'[q] = rows[q] \/ q = c.path
        <4>1. \A q \in Tables \ (Reaches(c.op, c.item) \cup {c.path}) : rows'[q] = rows[q]
          BY <1>0, <2>1, <3>1, TabledTyped
        <4> QED  BY <2>1, <3>2, <4>1
      <3>4. /\ calls'[s] # NoCall /\ calls'[s].got = "ok"
            /\ calls'[s].path = c.path /\ calls'[s].does = c.does /\ calls'[s].op = c.op
            /\ calls'[s].item = c.item /\ calls'[s].to = c.to
            /\ \A t \in Slots \ {s} : calls'[t] = calls[t]
        BY <1>0, <1>1, <2>1, <3>1, GotFit
      <3>5. rows[c.path] \in [Items[c.path] -> States]
        BY <1>0, <2>1 DEF RowsOK
      <3> HIDE DEF c
      <3>6. Pending(c, screen, rows[c.path]) => Pending(calls'[s], screen, r)
        BY <2>1, <3>1, <3>4, <3>5, ServedPending
      <3> HIDE DEF p
      <3> QED  BY <1>3, <2>1, <3>3, <3>4, <3>6
    <2> QED  BY <2>2, <2>3
  <1>7. CASE Lose(s)
    <2>1. /\ Got(s, "failed") /\ UNCHANGED rows /\ c.got \in {"sent", "ok"}
          /\ mixed' = IF c.does = "act" /\ c.got = "ok" THEN mixed \cup {c.path} ELSE mixed
      BY <1>7 DEF Lose
    <2> HIDE DEF c, p
    <2> QED  BY <1>4, <2>1
  <1>8. ASSUME NEW n \in Items["/keys"], RotateHalf(s, n) PROVE Fresh'
    <2>1. /\ Got(s, "failed") /\ mixed' = mixed \cup {"/keys"} /\ c.got = "sent"
          /\ rows' = [rows EXCEPT !["/keys"] = RotateNew(rows["/keys"], c.item, n)]
      BY <1>8 DEF RotateHalf
    <2>2. \A q \in Tables \ mixed' : rows'[q] = rows[q]
      BY <1>0, <2>1 DEF RowsOK
    <2> HIDE DEF c, p
    <2> QED  BY <1>4, <2>1, <2>2
  <1> QED  BY <1>5, <1>6, <1>7, <1>8 DEF Server

\* What a handler's catch leaves is fresh.
LEMMA CaughtFresh ==
  ASSUME Shape, Fresh, NEW s \in Slots, s \in Busy(calls),
         calls[s].got \in {"failed", "refused"},
         calls' = Without(s), screen' = Caught(calls[s]), UNCHANGED <<rows, mixed, dialogs>>
  PROVE  Fresh'
  <1> DEFINE c == calls[s]
  <1>0. /\ ScreenOK(screen) /\ Fit(calls) /\ RowsOK(rows)
        /\ Alone(calls, mixed) /\ Loaded(calls, mixed, rows)
        /\ Drawn(calls, mixed, rows, screen, dialogs)
        /\ c # NoCall /\ c \in Call /\ Apt(c) /\ c.path \in Paths
    BY CallParts DEF Shape, HistoryOK, Fresh, Busy, Fit
  <1>1. Alone(calls', mixed') /\ Loaded(calls', mixed', rows')
    BY <1>0, WithoutAlone
  <1>2. calls'[s] = NoCall /\ \A t \in Slots \ {s} : calls'[t] = calls[t]
    BY <1>0 DEF Without, Fit
  <1>3. CASE c.does = "list" /\ c.path = "/subscription"
    <2>1. screen'.shows = "error"
      BY <1>3 DEF Caught, Spinner
    <2> QED  BY <1>1, <2>1 DEF Fresh, Drawn
  <1>4. CASE /\ ~(c.does = "list" /\ c.path = "/subscription")
             /\ c.op.name = "toggle" /\ screen.path = c.path /\ c.item \in screen.held
    <2> DEFINE i == c.item
               p == c.path
    <2>1. /\ p \in Tables /\ screen.shows = "data" /\ i \in Items[p]
          /\ screen.rows \in [Items[p] -> States] /\ rows[p] \in [Items[p] -> States]
      BY <1>0, <1>4 DEF ScreenOK, RowsOK
    <2>2. PICK u : u = [screen EXCEPT !.rows = [screen.rows EXCEPT ![i] = Flipped(screen.rows[i])]]
      OBVIOUS
    <2>3. screen' = [u EXCEPT !.held = screen.held \ {i}]
      BY <1>4, <2>2 DEF Caught
    <2>4. /\ u.rows = [screen.rows EXCEPT ![i] = Flipped(screen.rows[i])]
          /\ u.path = p /\ DOMAIN u = DOMAIN screen
      BY <1>0, <1>4, <2>2 DEF ScreenOK
    <2>5. screen'.rows = u.rows /\ screen'.path = p
      BY <1>0, <2>3, <2>4 DEF ScreenOK
    <2>6. ASSUME p \notin mixed, ~Unnoted(dialogs, p) PROVE screen'.rows = rows[p]
      <3>1. Pending(c, screen, rows[p])
        BY <1>0, <1>4, <2>1, <2>6 DEF Drawn
      <3>2. screen.rows = [rows[p] EXCEPT ![i] = c.to] /\ Flipped(c.to) = rows[p][i]
        BY <1>4, <3>1 DEF Pending
      <3>3. screen.rows[i] = c.to
        BY <2>1, <3>2
      <3>4. u.rows = [screen.rows EXCEPT ![i] = rows[p][i]]
        BY <2>4, <3>2, <3>3
      <3> HIDE DEF i, p
      <3>5. u.rows = rows[p]
        BY <2>1, <3>2, <3>4
      <3> QED  BY <2>5, <3>5
    <2>7. ASSUME p \notin mixed, NEW t \in Slots, calls'[t] # NoCall PROVE calls'[t].path # p
      BY <1>0, <1>2, <2>1, <2>7 DEF Alone
    <2> HIDE DEF p
    <2>8. Drawn(calls', mixed', rows', screen', dialogs')
      BY <2>5, <2>6, <2>7 DEF Drawn
    <2> QED  BY <1>1, <2>8 DEF Fresh
  <1>5. CASE /\ ~(c.does = "list" /\ c.path = "/subscription")
             /\ ~(c.op.name = "toggle" /\ screen.path = c.path /\ c.item \in screen.held)
    <2> DEFINE p == screen.path
    <2>1. screen' = screen
      BY <1>5 DEF Caught
    <2>2. ASSUME p \in Tables \ mixed, screen.shows = "data", ~Unnoted(dialogs, p)
          PROVE  /\ \A t \in Slots : calls'[t] # NoCall /\ calls'[t].path = p
                      => calls'[t].does = "act" /\ Pending(calls'[t], screen, rows[p])
                 /\ (\A t \in Slots : calls'[t] # NoCall => calls'[t].path # p)
                      => screen.rows = rows[p]
      <3>1. /\ \A t \in Slots : calls[t] # NoCall /\ calls[t].path = p
                 => calls[t].does = "act" /\ Pending(calls[t], screen, rows[p])
            /\ (\A t \in Slots : calls[t] # NoCall => calls[t].path # p) => screen.rows = rows[p]
        BY <1>0, <2>2 DEF Drawn
      <3>2. CASE c.path = p
        <4>1. Pending(c, screen, rows[p])
          BY <1>0, <3>1, <3>2
        <4>2. screen.rows = rows[p]
          BY <1>5, <3>2, <4>1 DEF Pending
        <4>3. \A t \in Slots : calls'[t] # NoCall => calls'[t].path # p
          BY <1>0, <1>2, <2>2, <3>2 DEF Alone
        <4> QED  BY <4>2, <4>3
      <3>3. CASE c.path # p
        <4>1. \A t \in Slots : calls'[t] # NoCall => calls'[t] = calls[t]
          BY <1>2
        <4>2. \A t \in Slots : calls[t] # NoCall /\ calls[t].path = p => calls'[t] = calls[t]
          BY <1>2, <3>3
        <4> HIDE DEF p, c
        <4> QED  BY <3>1, <4>1, <4>2
      <3> QED  BY <3>2, <3>3
    <2>3. Drawn(calls', mixed', rows', screen', dialogs')
      BY <2>1, <2>2 DEF Drawn
    <2> QED  BY <1>1, <2>3 DEF Fresh
  <1> QED  BY <1>3, <1>4, <1>5

\* A request is taken whose page is not on the screen: the rest is as before.
LEMMA OtherFresh ==
  ASSUME Shape, Fresh, NEW s \in Slots, s \in Busy(calls), calls' = Without(s),
         UNCHANGED <<rows, mixed>>, \A p : Unnoted(dialogs, p) => Unnoted(dialogs', p),
         \/ screen' = screen /\ calls[s].path # screen.path
         \/ screen'.path \notin Tables \ mixed \/ Unnoted(dialogs', screen'.path)
  PROVE  Fresh'
  <1>0. /\ Fit(calls) /\ Alone(calls, mixed) /\ Loaded(calls, mixed, rows)
        /\ Drawn(calls, mixed, rows, screen, dialogs) /\ calls[s] # NoCall
    BY DEF Shape, Fresh, Busy
  <1>1. Alone(calls', mixed') /\ Loaded(calls', mixed', rows')
    BY <1>0, WithoutAlone
  <1>2. calls'[s] = NoCall /\ \A t \in Slots \ {s} : calls'[t] = calls[t]
    BY <1>0 DEF Without, Fit
  <1>3. CASE screen' = screen /\ calls[s].path # screen.path
    <2>1. ASSUME screen.path \in Tables \ mixed, screen.shows = "data",
                 ~Unnoted(dialogs', screen.path)
          PROVE  /\ \A t \in Slots : calls'[t] # NoCall /\ calls'[t].path = screen.path
                      => calls'[t].does = "act" /\ Pending(calls'[t], screen, rows[screen.path])
                 /\ (\A t \in Slots : calls'[t] # NoCall => calls'[t].path # screen.path)
                      => screen.rows = rows[screen.path]
      <3>1. /\ \A t \in Slots : calls[t] # NoCall /\ calls[t].path = screen.path
                 => calls[t].does = "act" /\ Pending(calls[t], screen, rows[screen.path])
            /\ (\A t \in Slots : calls[t] # NoCall => calls[t].path # screen.path)
                 => screen.rows = rows[screen.path]
        BY <1>0, <2>1 DEF Drawn
      <3>2. \A t \in Slots : calls'[t] # NoCall => calls'[t] = calls[t]
        BY <1>2
      <3>3. \A t \in Slots : calls[t] # NoCall /\ calls[t].path = screen.path
              => calls'[t] = calls[t]
        BY <1>2, <1>3
      <3> QED  BY <3>1, <3>2, <3>3
    <2>2. Drawn(calls', mixed', rows', screen', dialogs')
      BY <1>3, <2>1 DEF Drawn
    <2> QED  BY <1>1, <2>2 DEF Fresh
  <1>4. CASE screen'.path \notin Tables \ mixed \/ Unnoted(dialogs', screen'.path)
    BY <1>1, <1>4 DEF Fresh, Drawn
  <1> QED  BY <1>3, <1>4

\* What a handler does with the answer it got.
LEMMA HandlerFresh ==
  ASSUME Shape, Fresh, NEW s \in Slots, Goes(s)
  PROVE  Fresh'
  <1> DEFINE c == calls[s]
  <1>0. /\ ScreenOK(screen) /\ Fit(calls) /\ RowsOK(rows) /\ StreamOK(stream)
        /\ mixed \subseteq Tables
        /\ Alone(calls, mixed) /\ Loaded(calls, mixed, rows)
        /\ Drawn(calls, mixed, rows, screen, dialogs)
    BY DEF Shape, HistoryOK, Fresh
  <1>1. s \in Busy(calls) /\ c \in Call /\ c # NoCall /\ Apt(c) /\ UNCHANGED rows
    BY <1>0, NoCallApart
    DEF Goes, Refused, ListAnswered, ActFailed, ActDone, FirstLoaded, Polled, HealthAnswered,
        LogsAnswered, Answered, Fit, Busy
  <1>2. CASE Refused(s) \/ ActFailed(s) \/ (ListAnswered(s) /\ c.got # "ok")
    <2>1. /\ c.got \in {"failed", "refused"} /\ calls' = Without(s) /\ screen' = Caught(calls[s])
          /\ UNCHANGED <<rows, mixed, dialogs>>
      BY <1>2 DEF Refused, ActFailed, ListAnswered
    <2> QED  BY <1>1, <2>1, CaughtFresh
  <1>3. CASE ListAnswered(s) /\ c.got = "ok"
    <2>1. /\ calls' = Without(s) /\ screen' = Data(c.path, c.rows) /\ c.does = "list"
          /\ UNCHANGED <<mixed, dialogs>>
      BY <1>3 DEF ListAnswered
    <2>2. Alone(calls', mixed') /\ Loaded(calls', mixed', rows')
      BY <1>0, <1>1, <2>1, WithoutAlone
    <2>3. screen'.path = c.path /\ screen'.rows = c.rows
      BY <2>1 DEF Data
    <2>4. ASSUME c.path \in Tables \ mixed
          PROVE  /\ c.rows = rows[c.path]
                 /\ \A t \in Slots : calls'[t] # NoCall => calls'[t].path # c.path
      <3>1. calls'[s] = NoCall /\ \A t \in Slots \ {s} : calls'[t] = calls[t]
        BY <1>0, <2>1 DEF Without, Fit
      <3> QED  BY <1>0, <1>1, <1>3, <2>1, <2>4, <3>1 DEF Loaded, Alone
    <2> HIDE DEF c
    <2>5. Drawn(calls', mixed', rows', screen', dialogs')
      BY <1>1, <2>1, <2>3, <2>4 DEF Drawn
    <2> QED  BY <2>2, <2>5 DEF Fresh
  <1>4. CASE ActDone(s)
    <2>1. /\ c.op \in Ops /\ c.path = c.op.page /\ c.item \in Items[c.path] /\ Sound(c.op)
          /\ c.path \in Places /\ c.got = "ok" /\ c.does = "act" /\ c.path \in Tables
      BY <1>1, <1>4, OpFacts DEF ActDone, Apt, Sound, Places
    <2>2. ASSUME screen.path = c.path, c.path \notin mixed, screen.shows = "data",
                 ~Unnoted(dialogs, c.path)
          PROVE  /\ Pending(c, screen, rows[c.path])
                 /\ \A t \in Slots : Without(s)[t] # NoCall => Without(s)[t].path # c.path
      <3>1. Pending(c, screen, rows[c.path])
        BY <1>0, <1>1, <2>1, <2>2 DEF Drawn
      <3>2. Without(s)[s] = NoCall /\ \A t \in Slots \ {s} : Without(s)[t] = calls[t]
        BY <1>0 DEF Without, Fit
      <3> QED  BY <1>0, <1>1, <2>1, <2>2, <3>1, <3>2 DEF Alone
    <2>3. Alone(Without(s), mixed) /\ Loaded(Without(s), mixed, rows) /\ Fit(Without(s))
      BY <1>0, WithoutAlone, WithoutFit
    <2>4. CASE c.op.then = "reload"
      <3>1. Mount(c.path, Without(s))
        BY <1>4, <2>4 DEF ActDone
      <3> QED  BY <1>0, <1>1, <2>1, <2>3, <3>1, MountFresh
    <2>5. CASE c.op.then = "show"
      <3>1. /\ dialogs' = dialogs \cup {[op |-> c.op, item |-> c.item, kind |-> "secret"]}
            /\ calls' = Without(s) /\ UNCHANGED <<screen, mixed>>
        BY <1>4, <2>5 DEF ActDone
      <3>2. \A p : Unnoted(dialogs, p) => Unnoted(dialogs', p)
        BY <3>1 DEF Unnoted
      <3>3. c.path = "/keys" => Unnoted(dialogs', "/keys")
        <4> DEFINE d == [op |-> c.op, item |-> c.item, kind |-> "secret"]
        <4>1. d \in dialogs' /\ d.kind = "secret" /\ d.op.page = c.path
          BY <2>1, <3>1
        <4> HIDE DEF c, d
        <4> QED  BY <4>1 DEF Unnoted
      <3>4. CASE screen.path # c.path \/ c.path = "/keys" \/ c.path \in mixed
                   \/ Unnoted(dialogs, c.path)
        BY <1>1, <3>1, <3>2, <3>3, <3>4, OtherFresh
      <3>5. CASE ~(screen.path # c.path \/ c.path = "/keys" \/ c.path \in mixed
                     \/ Unnoted(dialogs, c.path))
        <4>1. screen.shows = "data" => screen.rows = rows[c.path]
          <5>1. c.op.then # "reload" /\ c.op.page # "/keys" /\ c.op.name # "save"
            BY <2>1, <2>5, <3>5 DEF Sound
          <5>2. screen.shows = "data" => Pending(c, screen, rows[c.path])
            BY <2>2, <3>5
          <5> QED  BY <2>1, <5>1, <5>2 DEF Pending
        <4>2. screen.shows = "data" =>
                \A t \in Slots : calls'[t] # NoCall => calls'[t].path # screen.path
          BY <2>2, <3>1, <3>5
        <4> HIDE DEF c
        <4>3. Drawn(calls', mixed', rows', screen', dialogs')
          BY <1>1, <3>1, <3>5, <4>1, <4>2 DEF Drawn
        <4> QED  BY <1>1, <2>3, <3>1, <4>3 DEF Fresh
      <3> QED  BY <3>4, <3>5
    <2>6. CASE c.op.then = "stay"
      <3>1. /\ screen' = IF screen.path # c.path \/ screen.shows # "data" THEN screen
                         ELSE IF c.op.name = "save"
                           THEN [screen EXCEPT !.rows = [screen.rows EXCEPT ![c.item] = c.to]]
                         ELSE [screen EXCEPT !.held = screen.held \ {c.item}]
            /\ calls' = Without(s) /\ UNCHANGED <<dialogs, mixed>>
        BY <1>4, <2>6 DEF ActDone
      <3>2. CASE screen.path # c.path
        BY <1>1, <3>1, <3>2, OtherFresh
      <3>3. CASE screen.path = c.path /\ screen.shows # "data"
        BY <1>1, <2>3, <3>1, <3>3 DEF Fresh, Drawn
      <3>4. CASE screen.path = c.path /\ screen.shows = "data"
        <4>1. screen'.path = screen.path
          BY <1>0, <3>1, <3>4 DEF ScreenOK
        <4>2. screen'.rows = IF c.op.name = "save" THEN [screen.rows EXCEPT ![c.item] = c.to]
                             ELSE screen.rows
          BY <1>0, <3>1, <3>4 DEF ScreenOK
        <4>3. ASSUME c.path \notin mixed, ~Unnoted(dialogs, c.path)
              PROVE  /\ screen'.rows = rows[c.path]
                     /\ \A t \in Slots : calls'[t] # NoCall => calls'[t].path # c.path
          <5>1. Pending(c, screen, rows[c.path])
            BY <2>2, <3>4, <4>3
          <5>2. screen'.rows = rows[c.path]
            BY <2>1, <2>6, <4>2, <5>1 DEF Pending
          <5> QED  BY <2>2, <3>1, <3>4, <4>3, <5>2
        <4> HIDE DEF c
        <4>4. Drawn(calls', mixed', rows', screen', dialogs')
          BY <1>1, <3>1, <3>4, <4>1, <4>3 DEF Drawn
        <4> QED  BY <1>1, <2>3, <3>1, <4>4 DEF Fresh
      <3> QED  BY <3>2, <3>3, <3>4
    <2> QED  BY <2>1, <2>4, <2>5, <2>6 DEF Sound
  <1>5. CASE FirstLoaded(s) \/ Polled(s) \/ LogsAnswered(s)
    <2>1. /\ calls' = Without(s) /\ UNCHANGED <<dialogs, mixed>>
          /\ c.does \in {"first", "poll", "logs"}
          /\ \/ screen' = screen \/ screen' = Data(Health, NoRows)
             \/ screen' = [Data(Logs, NoRows) EXCEPT !.view = c.view]
      BY <1>5 DEF FirstLoaded, Polled, HealthAnswered, LogsAnswered, ShowLogs
    <2>2. c.path \notin Tables
      BY <1>1, <2>1, TablePaths DEF Apt
    <2>3. screen' = screen \/ screen'.path \in {Health, Logs}
      BY <2>1 DEF Data
    <2>4. \/ screen' = screen /\ c.path # screen.path
          \/ screen'.path \notin Tables
      BY <2>2, <2>3, TablePaths
    <2> QED  BY <1>1, <2>1, <2>4, OtherFresh
  <1> QED  BY <1>2, <1>3, <1>4, <1>5 DEF Goes

\* What the health page and the logs do on their own.
LEMMA WatchFresh ==
  ASSUME Shape, Fresh, \/ Poll \/ ReloadLogs \/ ClickStream
                       \/ \E v \in Views : Entry(v) \/ StreamBreaks(v)
  PROVE  Fresh'
  <1>0. /\ Fit(calls) /\ Alone(calls, mixed) /\ Loaded(calls, mixed, rows)
        /\ Drawn(calls, mixed, rows, screen, dialogs)
    BY DEF Shape, Fresh
  <1>1. CASE Poll \/ ReloadLogs
    <2>1. PICK c : Send(calls, c) /\ c.got = "sent" /\ c.path \in {Health, Logs}
      <3>1. /\ Request("poll", Health).got = "sent" /\ Request("poll", Health).path = Health
            /\ [Request("logs", Logs) EXCEPT !.view = screen.view].got = "sent"
            /\ [Request("logs", Logs) EXCEPT !.view = screen.view].path = Logs
        BY DEF Request
      <3> QED  BY <1>1, <3>1 DEF Poll, ReloadLogs
    <2>2. UNCHANGED <<screen, dialogs, rows>>
      BY <1>1 DEF Poll, ReloadLogs
    <2>3. Alone(calls', mixed') /\ Loaded(calls', mixed', rows) /\ mixed \subseteq mixed'
      BY <1>0, <2>1, SendAlone
    <2>4. PICK t \in Slots : calls' = [calls EXCEPT ![t] = c] /\ calls[t] = NoCall
      BY <1>0, <2>1, Sending
    <2>5. calls'[t] = c /\ \A s \in Slots \ {t} : calls'[s] = calls[s]
      BY <1>0, <2>4 DEF Fit
    <2>6. Drawn(calls', mixed', rows', screen', dialogs')
      BY <1>0, <2>1, <2>2, <2>3, <2>4, <2>5, TablePaths DEF Drawn
    <2> QED  BY <2>2, <2>3, <2>6 DEF Fresh
  <1>2. CASE ClickStream \/ \E v \in Views : Entry(v) \/ StreamBreaks(v)
    <2>1. /\ UNCHANGED <<dialogs, calls, rows, mixed>>
          /\ screen' = screen \/ screen'.path = Logs
      BY <1>2 DEF ClickStream, Entry, StreamBreaks, ShowLogs, Data
    <2> QED  BY <1>0, <2>1, TablePaths DEF Fresh, Drawn
  <1> QED  BY <1>1, <1>2

\* Every step keeps what is shown fresh.
LEMMA FreshNext == Shape /\ Fresh /\ [Next]_vars => Fresh'
  <1> SUFFICES ASSUME Shape, Fresh, [Next]_vars PROVE Fresh'
    OBVIOUS
  <1>1. CASE UNCHANGED vars
    BY <1>1 DEF vars, Fresh
  <1>2. CASE Next
    <2>1. ASSUME NEW k \in Expiring, Expire(k) PROVE Fresh'
      BY <2>1 DEF Expire, Fresh
    <2> QED
      BY <1>2, <2>1, RoutingFresh, ClickFresh, DialogFresh, ServerFresh, HandlerFresh, WatchFresh
      DEF Next
  <1> QED  BY <1>1, <1>2

\* A table on the screen is the server's once the requests of its page are answered,
\* for any tables and rows, unless two of its requests overlapped, an answer was
\* lost or another device changed it.
THEOREM TableFreshAlways == Spec => []TableFresh
  <1>1. Init => Shape /\ Fresh
    <2> SUFFICES ASSUME Init PROVE Fresh
      BY ShapeInit
    <2>1. Alone(calls, mixed) /\ Loaded(calls, mixed, rows)
      BY DEF Init, Alone, Loaded
    <2>2. screen.shows # "data"
      BY SpinnerOK, TablePaths DEF Init
    <2> QED  BY <2>1, <2>2 DEF Fresh, Drawn
  <1>2. Shape /\ Fresh /\ [Next]_vars => (Shape /\ Fresh)'
    BY ShapeNext, FreshNext
  <1>3. Spec => [](Shape /\ Fresh)
    BY <1>1, <1>2, PTL DEF Spec
  <1> QED  BY <1>3, FreshShows, PTL
=============================================================================
