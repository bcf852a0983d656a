------------------------------ MODULE Console ------------------------------
(***************************************************************************)
(* The pages of one signed-in tab that show a table of the server's, act   *)
(* on its rows and load it again, with the dialogs of ui.js, the polled    *)
(* health page and the log stream; and the server behind the API keys.     *)
(*                                                                         *)
(* All pages draw into the same element and all dialogs into another, and  *)
(* nothing is cancelled when the user leaves: a handler that awaits a      *)
(* dialog or an answer goes on wherever the user is by then.  The tab's    *)
(* key is a user's that is also ADMIN_API_KEY (login.js knows the case),   *)
(* so that every page is within reach; how it signed in is the business of *)
(* BrowserSession.                                                         *)
(***************************************************************************)
EXTENDS Naturals, FiniteSets

CONSTANTS
  Items,      \* page -> what may be a row of its table
  AtFirst,    \* page -> the rows it has at the start
  Current,    \* the tab's key, an item of the page of keys
  Account,    \* whose keys they are, an item of the page of users
  Expiring,   \* keys with an expires_at that comes
  Visits,     \* pages the user goes to
  MaxCalls,   \* bound: requests in flight
  MaxViews,   \* bound: visits of the page of logs
  MaxActs     \* bound: clicks, here and elsewhere, and dates that pass

\* What the server knows of a row: a key is active or revoked, a user active or
\* blocked, a payment paid or refunded, a subscription running or cancelled.
States == {"absent", "on", "off"}

Tables == {"/keys", "/reports", "/webhooks", "/subscription", "/preferences",
           "/admin/users", "/admin/payments", "/admin/celery", "/admin/self-healing"}
Health == "/admin/health"
Logs   == "/admin/logs"
Paths  == Tables \cup {Health, Logs, "/login"}

ForUsers == {"/keys", "/reports", "/webhooks", "/subscription", "/preferences"}

ASSUME ConsoleAssumption ==
  /\ \A p \in Tables : AtFirst[p] \subseteq Items[p]
  /\ Current \in AtFirst["/keys"] /\ Expiring \subseteq AtFirst["/keys"]
  /\ Account \in AtFirst["/admin/users"]
  /\ Visits \subseteq Tables \cup {Health, Logs}
  /\ MaxCalls \in Nat \ {0} /\ MaxViews \in Nat /\ MaxActs \in Nat

---------------------------------------------------------------------------
(* What can be done to a row, page by page: in which state of the row it is *)
(* offered, what is asked first, what the server makes of it, and what the  *)
(* handler does once it is answered.                                        *)

Op(page, name, when, asks, effect, then) ==
  [page |-> page, name |-> name, when |-> when, asks |-> asks, effect |-> effect,
   then |-> then]

Present == {"on", "off"}

\* A form's fields have left the document when showModal resolves: rename fails
\* on that, and a retry is sent without its fields, which the server refuses.
KeyOps ==
  {Op("/keys", "generate", {"absent"}, "form", "new", "show"),
   Op("/keys", "rotate", {"on"}, "form", "rotate", "show"),
   Op("/keys", "rename", Present, "form", "unsent", "stay"),
   Op("/keys", "revoke", {"on"}, "confirm", "revoke", "reload")}
\* bindDownloadButtons: a button is disabled until its file is there.
DownloadOp == Op("/reports", "download", Present, "no", "none", "stay")
ReportOps ==
  {DownloadOp,
   Op("/reports", "retry", Present, "form", "refused", "stay"),
   Op("/reports", "delete", Present, "confirm", "remove", "reload")}
WebhookOps ==
  {Op("/webhooks", "edit", States, "form", "unsent", "stay"),
   Op("/webhooks", "toggle", Present, "no", "flip", "stay"),
   Op("/webhooks", "delete", Present, "confirm", "remove", "reload")}
SubscriptionOps == {Op("/subscription", "cancel", {"on"}, "confirm", "off", "reload")}
PreferenceOps   == {Op("/preferences", "save", Present, "no", "flip", "stay")}
UserOps ==
  {Op("/admin/users", "block", {"on"}, "no", "off", "reload"),
   Op("/admin/users", "unblock", {"off"}, "no", "on", "reload"),
   Op("/admin/users", "delete", Present, "confirm", "remove", "reload")}
PaymentOps ==
  {Op("/admin/payments", "view", Present, "no", "none", "show"),
   Op("/admin/payments", "refund", {"on"}, "confirm", "off", "reload")}
CeleryOps ==
  {Op("/admin/celery", "purge", {"on"}, "confirm", "clear", "reload"),
   Op("/admin/celery", "restart", States, "confirm", "none", "stay")}
HealingOps ==
  {Op("/admin/self-healing", "seed", {"absent"}, "no", "new", "reload"),
   Op("/admin/self-healing", "rebuild", States, "no", "none", "stay"),
   Op("/admin/self-healing", "forget", {"on"}, "no", "remove", "reload")}

Ops == KeyOps \cup ReportOps \cup WebhookOps \cup SubscriptionOps \cup PreferenceOps
         \cup UserOps \cup PaymentOps \cup CeleryOps \cup HealingOps

Slots == 1 .. MaxCalls
Views == 1 .. MaxViews
AllItems == UNION {Items[p] : p \in Tables}
None == "none"

NoOp   == Op(None, None, {}, "no", "none", "stay")
NoRows == << >>
Rows   == {NoRows} \cup UNION {[Items[p] -> States] : p \in Tables}

\* A request and what has become of it.
Call == [does : {"list", "act", "first", "poll", "logs"}, path : Paths,
         op : Ops \cup {NoOp}, item : AllItems \cup {None}, to : States, view : Nat,
         got : {"sent", "ok", "failed", "refused"},
         rows : Rows]
NoCall == [does |-> None]

VARIABLES
  hash,       \* location.hash
  due,        \* a hashchange event is queued
  screen,     \* what #app shows
  dialogs,    \* what is open in #modal-root
  calls,      \* slot -> request in flight
  timer,      \* health-polling.js: is the interval set ?
  stream,     \* admin.js: streamAbort, and the streams of each view of the logs
  rows,       \* server: page -> item -> state
  expired,    \* keys whose expires_at has passed
  signed,     \* has the tab a session ?
  acts,       \* clicks and dates so far
  mixed       \* history: pages on which two requests overlapped, an answer was
              \* lost or somebody else changed something

vars == <<hash, due, screen, dialogs, calls, timer, stream, rows, expired, signed, acts,
          mixed>>

address == <<hash, due, signed>>
server  == <<rows, expired>>

Data(p, r) == [path |-> p, shows |-> "data", rows |-> r, held |-> {}, view |-> 0]
Spinner(p) == [path |-> p, shows |-> "spinner", rows |-> NoRows, held |-> {}, view |-> 0]

TypeOK ==
  /\ hash \in Paths /\ due \in BOOLEAN
  /\ screen \in [path : Paths, shows : {"spinner", "data", "error"}, rows : Rows,
                 held : SUBSET AllItems, view : Nat]
  /\ screen.path \in Tables /\ screen.shows = "data" =>
       /\ screen.rows \in [Items[screen.path] -> States]
       /\ screen.held \subseteq Items[screen.path]
  /\ dialogs \in SUBSET [op : Ops, item : AllItems, kind : {"ask", "secret"}]
  /\ calls \in [Slots -> Call \cup {NoCall}]
  /\ timer \in BOOLEAN
  /\ stream \in [abort : BOOLEAN, views : 0 .. MaxViews, tails : [Views -> Nat],
                 on : [Views -> BOOLEAN]]
  /\ DOMAIN rows = Tables /\ \A p \in Tables : rows[p] \in [Items[p] -> States]
  /\ expired \subseteq Expiring
  /\ signed \in BOOLEAN /\ acts \in 0 .. MaxActs
  /\ mixed \in SUBSET Tables

Init ==
  /\ hash \in Visits /\ due = TRUE
  /\ screen = Spinner("/login")
  /\ dialogs = {}
  /\ calls = [s \in Slots |-> NoCall]
  /\ timer = FALSE
  /\ stream = [abort |-> FALSE, views |-> 0, tails |-> [v \in Views |-> 0],
               on |-> [v \in Views |-> FALSE]]
  /\ rows = [p \in Tables |->
               [i \in Items[p] |-> IF i \in AtFirst[p] THEN "on" ELSE "absent"]]
  /\ expired = {}
  /\ signed = TRUE
  /\ acts = 0
  /\ mixed = {}

---------------------------------------------------------------------------
(* Requests. *)

Request(does, p) ==
  [does |-> does, path |-> p, op |-> NoOp, item |-> None, to |-> "on", view |-> 0,
   got |-> "sent", rows |-> NoRows]
ActRequest(op, i, to) ==
  [Request("act", op.page) EXCEPT !.op = op, !.item = i, !.to = to]

Busy(cs)  == {s \in Slots : cs[s] # NoCall}
About(p)  == {s \in Busy(calls) : calls[s].path = p}
FreeSlot(cs) == CHOOSE s \in Slots : s \notin Busy(cs)

\* The request c takes a free slot of cs; a second one of its page overlaps.
Send(cs, c) ==
  /\ Busy(cs) # Slots
  /\ calls' = [cs EXCEPT ![FreeSlot(cs)] = c]
  /\ mixed' = IF c.path \in Tables /\ \E s \in Busy(cs) : cs[s].path = c.path
                THEN mixed \cup {c.path} ELSE mixed

Without(s) == [calls EXCEPT ![s] = NoCall]

---------------------------------------------------------------------------
(* Rendering a page: the spinner, and the request it awaits. *)

\* renderAdminLogs: a view of its own, and older streams are told to stop.
MountLogs(cs) ==
  /\ stream.views < MaxViews
  /\ stream' = [stream EXCEPT !.abort = TRUE, !.views = @ + 1]
  /\ Send(cs, [Request("logs", Logs) EXCEPT !.view = stream'.views])

\* Called by the router, and by handlers that load their table again.
Mount(p, cs) ==
  /\ screen' = Spinner(p)
  /\ IF p = Logs THEN MountLogs(cs)
     ELSE /\ Send(cs, Request(IF p = Health THEN "first" ELSE "list", p))
          /\ UNCHANGED stream

\* renderRoute; renderAdminHealth stops the timer as well.  Without a session the
\* router goes to the login page.
HashChange ==
  /\ due
  /\ IF signed
       THEN due' = FALSE /\ timer' = FALSE /\ Mount(hash, calls) /\ UNCHANGED hash
       ELSE /\ hash' = "/login" /\ due' = (hash # "/login")
            /\ timer' = (timer /\ hash = Health)
            /\ screen' = IF due' THEN screen ELSE [Spinner("/login") EXCEPT !.shows = "data"]
            /\ UNCHANGED <<calls, stream, mixed>>
  /\ UNCHANGED <<dialogs, server, signed, acts>>

Act == acts < MaxActs /\ acts' = acts + 1

Visit(p) ==
  /\ Act
  /\ hash' = p /\ hash # p /\ due' = TRUE
  /\ UNCHANGED <<screen, dialogs, calls, timer, stream, server, signed, mixed>>

Filtered == {"/reports", "/admin/users", "/admin/payments"}

\* A filter or a page number goes into the query of the hash: the page renders anew.
Filter ==
  /\ Act
  /\ screen.shows = "data" /\ screen.path \in Filtered
  /\ hash' = screen.path /\ due' = TRUE
  /\ UNCHANGED <<screen, dialogs, calls, timer, stream, server, signed, mixed>>

---------------------------------------------------------------------------
(* Clicks on a row, and dialogs. *)

Offers(op, i) ==
  /\ screen.path = op.page /\ screen.shows = "data"
  /\ i \in Items[op.page] /\ screen.rows[i] \in op.when

Flipped(s) == IF s = "on" THEN "off" ELSE "on"

\* A dialog opens on top of whatever is open: the page under an overlay is out of reach.
ClickAsks(op, i) ==
  /\ Act /\ dialogs = {}
  /\ Offers(op, i) /\ op.asks # "no"
  /\ dialogs' = dialogs \cup {[op |-> op, item |-> i, kind |-> "ask"]}
  /\ UNCHANGED <<address, screen, calls, timer, stream, server, mixed>>

\* The switch of a webhook has moved before the request is sent.
ClickActs(op, i) ==
  /\ Act /\ dialogs = {}
  /\ Offers(op, i) /\ op.asks = "no"
  /\ op = DownloadOp => \A s \in Busy(calls) : <<calls[s].op, calls[s].item>> # <<op, i>>
  /\ Send(calls, ActRequest(op, i, Flipped(screen.rows[i])))
  /\ screen' = IF op.name = "toggle"
                 THEN [screen EXCEPT !.rows[i] = Flipped(@), !.held = @ \cup {i}]
                 ELSE screen
  /\ UNCHANGED <<address, dialogs, timer, stream, server>>

\* showModal resolves once the overlay is gone: with the string of the button that was
\* clicked, "false" for cancel, or none for the cross and the backdrop.
AnswerDialog(d, answer) ==
  /\ d \in dialogs /\ d.kind = "ask"
  /\ Act
  /\ dialogs' = dialogs \ {d}
  /\ IF answer = "true" /\ d.op.effect # "unsent"
       THEN Send(calls, ActRequest(d.op, d.item, "on"))
       ELSE UNCHANGED <<calls, mixed>>
  /\ UNCHANGED <<address, screen, timer, stream, server>>

---------------------------------------------------------------------------
(* The server. *)

Enabled == rows["/admin/users"][Account] = "on"

\* Keys that work: active, and not expired.
Live(r) == {k \in Items["/keys"] : r[k] = "on" /\ k \notin expired}

\* The middleware knows a user's key by its row and that of the user; the admin routes
\* compare with ADMIN_API_KEY.
Accepts(p) == p \in ForUsers => Enabled /\ Current \in Live(rows["/keys"])

\* Mutant: all keys are counted, the revoked ones too.
PermitsAnyKeyLeft(op, r, i) ==
  CASE op.effect = "revoke" -> r[i] # "absent" /\ Cardinality({k \in Items["/keys"] : r[k] # "absent"}) > 1
    [] op.effect = "rotate" -> r[i] # "absent"
    [] op.effect \in {"new", "none", "clear"} -> TRUE
    [] op.effect = "refused" -> FALSE
    [] OTHER -> r[i] # "absent"

\* 404 for a row that is gone, 400 for the last active key.
Permits(op, r, i) ==
  CASE op.effect = "revoke" -> r[i] # "absent" /\ Cardinality(Live(r)) > 1
    [] op.effect = "rotate" -> r[i] # "absent"
    [] op.effect \in {"new", "none", "clear"} -> TRUE
    [] op.effect = "refused" -> FALSE
    [] OTHER -> r[i] # "absent"

\* rotate_api_key: the new key n, then the old one, in two transactions.
RotateNew(r, i, n) == [r EXCEPT ![n] = "on"]
Rotate(r, i, n)    == [RotateNew(r, i, n) EXCEPT ![i] = "off"]

\* What the table may be after an operation: a new row is any that is absent.
Results(op, r, i, to) ==
  CASE op.effect \in {"revoke", "off"} -> {[r EXCEPT ![i] = "off"]}
    [] op.effect = "on"     -> {[r EXCEPT ![i] = "on"]}
    [] op.effect = "flip"   -> {[r EXCEPT ![i] = to]}
    [] op.effect = "remove" -> {[r EXCEPT ![i] = "absent"]}
    [] op.effect = "clear"  -> {[j \in DOMAIN r |-> "absent"]}
    [] op.effect = "new"    -> {[r EXCEPT ![n] = "on"] : n \in {m \in DOMAIN r : r[m] = "absent"}}
    [] op.effect = "rotate" -> {Rotate(r, i, n) : n \in {m \in DOMAIN r : r[m] = "absent"}}
    [] OTHER                -> {r}

Emptied(p) == [i \in Items[p] |-> "absent"]
Revoked(r) == [k \in Items["/keys"] |-> IF r[k] = "on" THEN "off" ELSE r[k]]

\* What goes with a user: everything of the account (whose the payments are, too).
Owned == ForUsers \cup {"/admin/payments"}

\* Which tables an operation on the account's own row reaches besides its own.
Reaches(op, i) ==
  CASE op.page = "/admin/users" /\ i = Account /\ op.effect = "off"    -> {"/keys"}
    [] op.page = "/admin/users" /\ i = Account /\ op.effect = "remove" -> Owned
    [] OTHER -> {}

\* All the server's tables may be after an operation: blocking a user revokes the keys,
\* and unblocking restores none; with a user goes what refers to it.
Tabled(op, i, to) ==
  {[p \in Tables |-> IF p = op.page THEN r
                     ELSE IF p \notin Reaches(op, i) THEN rows[p]
                     ELSE IF op.effect = "remove" THEN Emptied(p) ELSE Revoked(rows[p])] :
     r \in Results(op, rows[op.page], i, to)}

Got(s, got) == calls' = [calls EXCEPT ![s].got = got]

ServeList(s) ==
  LET c == calls[s]
  IN  /\ s \in Busy(calls) /\ c.does # "act" /\ c.got = "sent"
      /\ IF ~Accepts(c.path) THEN Got(s, "refused")
         ELSE calls' = [calls EXCEPT ![s].got = "ok",
                          ![s].rows = IF c.path \in Tables THEN rows[c.path] ELSE NoRows]
      /\ UNCHANGED <<address, screen, dialogs, timer, stream, server, acts, mixed>>

ServeAct(s) ==
  LET c == calls[s]
  IN  /\ s \in Busy(calls) /\ c.does = "act" /\ c.got = "sent"
      /\ IF ~Accepts(c.path) THEN Got(s, "refused") /\ UNCHANGED rows
         ELSE IF ~Permits(c.op, rows[c.path], c.item) THEN Got(s, "failed") /\ UNCHANGED rows
         ELSE rows' \in Tabled(c.op, c.item, c.to) /\ Got(s, "ok")
      /\ mixed' = IF rows' = rows THEN mixed ELSE mixed \cup Reaches(c.op, c.item)
      /\ UNCHANGED <<address, screen, dialogs, timer, stream, expired, acts>>

\* Mutant: the old key is revoked first.
RotateHalfOldFirst(s, n) ==
  LET c == calls[s]
  IN  /\ s \in Busy(calls) /\ c.does = "act" /\ c.got = "sent" /\ c.op.effect = "rotate"
      /\ Accepts(c.path) /\ Permits(c.op, rows[c.path], c.item)
      /\ rows["/keys"][n] = "absent"
      /\ rows' = [rows EXCEPT !["/keys"] = [@ EXCEPT ![c.item] = "off"]]
      /\ Got(s, "failed")
      /\ mixed' = mixed \cup {"/keys"}
      /\ UNCHANGED <<address, screen, dialogs, timer, stream, expired, acts>>

\* The API dies between the two transactions of a rotation.
RotateHalf(s, n) ==
  LET c == calls[s]
  IN  /\ s \in Busy(calls) /\ c.does = "act" /\ c.got = "sent" /\ c.op.effect = "rotate"
      /\ Accepts(c.path) /\ Permits(c.op, rows[c.path], c.item)
      /\ rows["/keys"][n] = "absent"
      /\ rows' = [rows EXCEPT !["/keys"] = RotateNew(@, c.item, n)]
      /\ Got(s, "failed")
      /\ mixed' = mixed \cup {"/keys"}
      /\ UNCHANGED <<address, screen, dialogs, timer, stream, expired, acts>>

\* The request or its answer does not get through.
Lose(s) ==
  /\ s \in Busy(calls) /\ calls[s].got \in {"sent", "ok"}
  /\ Got(s, "failed")
  /\ mixed' = IF calls[s].does = "act" /\ calls[s].got = "ok" THEN mixed \cup {calls[s].path} ELSE mixed
  /\ UNCHANGED <<address, screen, dialogs, timer, stream, server, acts>>

\* Another device of the account, or another administrator, does one of these things.
Elsewhere(op, i) ==
  LET p == op.page
  IN  /\ Act
      /\ op.effect \in {"revoke", "rotate", "remove"} /\ i \in Items[p]
      /\ p \in ForUsers => Enabled /\ Live(rows["/keys"]) # {}
      /\ Permits(op, rows[p], i)
      /\ rows' \in Tabled(op, i, "on")
      /\ mixed' = mixed \cup {p} \cup Reaches(op, i)
      /\ UNCHANGED <<address, screen, dialogs, calls, timer, stream, expired>>

\* The date passes: the row says nothing of it.
Expire(k) ==
  /\ Act
  /\ k \in Expiring \ expired /\ rows["/keys"][k] = "on"
  /\ expired' = expired \cup {k}
  /\ UNCHANGED <<address, screen, dialogs, calls, timer, stream, rows, mixed>>

---------------------------------------------------------------------------
(* The handlers go on. *)

Answered(s) == s \in Busy(calls) /\ calls[s].got # "sent"

\* Mutant: a switch stays as the user put it.
CaughtKeepsSwitch(c) ==
  IF c.does = "list" /\ c.path = "/subscription"
    THEN [Spinner(c.path) EXCEPT !.shows = "error"]
  ELSE screen

\* What a handler's catch leaves on the screen: the page of the subscription says
\* so, other pages keep their spinner; a switch that was clicked moves back, if it
\* is still there.
Caught(c) ==
  IF c.does = "list" /\ c.path = "/subscription"
    THEN [Spinner(c.path) EXCEPT !.shows = "error"]
  ELSE IF c.op.name = "toggle" /\ screen.path = c.path /\ c.item \in screen.held
    THEN [screen EXCEPT !.rows[c.item] = Flipped(@), !.held = @ \ {c.item}]
  ELSE screen

\* handleResponse on 401: the session ends, wherever the user is, before the
\* handler catches the error.
Refused(s) ==
  /\ Answered(s) /\ calls[s].got = "refused"
  /\ calls' = Without(s)
  /\ signed' = FALSE
  /\ hash' = "/login" /\ due' = (due \/ hash # "/login")
  /\ screen' = Caught(calls[s])
  /\ UNCHANGED <<dialogs, timer, stream, server, acts, mixed>>

\* Mutant: the table is drawn without looking whether the call failed.
ListAnsweredAnyway(s) ==
  LET c == calls[s]
  IN  /\ Answered(s) /\ c.does = "list" /\ c.got \in {"ok", "failed"}
      /\ calls' = Without(s)
      /\ screen' = Data(c.path, c.rows)
      /\ UNCHANGED <<address, dialogs, timer, stream, server, acts, mixed>>

\* The table is drawn over whatever is on the screen.
ListAnswered(s) ==
  LET c == calls[s]
  IN  /\ Answered(s) /\ c.does = "list" /\ c.got \in {"ok", "failed"}
      /\ calls' = Without(s)
      /\ screen' = IF c.got = "ok" THEN Data(c.path, c.rows) ELSE Caught(c)
      /\ UNCHANGED <<address, dialogs, timer, stream, server, acts, mixed>>

ActFailed(s) ==
  /\ Answered(s) /\ calls[s].does = "act" /\ calls[s].got = "failed"
  /\ calls' = Without(s)
  /\ screen' = Caught(calls[s])
  /\ UNCHANGED <<address, dialogs, timer, stream, server, acts, mixed>>

\* A new key and a payment's details are shown before anything else happens;
\* setTheme follows the preferences; the other pages load their table again.
ActDone(s) ==
  LET c == calls[s]
  IN  /\ Answered(s) /\ c.does = "act" /\ c.got = "ok"
      /\ CASE c.op.then = "reload" -> Mount(c.path, Without(s)) /\ UNCHANGED dialogs
           [] c.op.then = "show" ->
                /\ dialogs' = dialogs \cup {[op |-> c.op, item |-> c.item, kind |-> "secret"]}
                /\ calls' = Without(s)
                /\ UNCHANGED <<screen, stream, mixed>>
           [] c.op.then = "stay" ->
                /\ screen' = IF screen.path # c.path \/ screen.shows # "data" THEN screen
                             ELSE IF c.op.name = "save" THEN [screen EXCEPT !.rows[c.item] = c.to]
                             ELSE [screen EXCEPT !.held = @ \ {c.item}]
                /\ calls' = Without(s)
                /\ UNCHANGED <<dialogs, stream, mixed>>
      /\ UNCHANGED <<address, timer, server, acts>>

\* The new key has been noted (or not): the page of the keys loads again.
CloseSecret(d) ==
  /\ d \in dialogs /\ d.kind = "secret"
  /\ dialogs' = dialogs \ {d}
  /\ IF d.op.page = "/keys" THEN Mount("/keys", calls)
     ELSE UNCHANGED <<screen, calls, stream, mixed>>
  /\ UNCHANGED <<address, timer, server, acts>>

---------------------------------------------------------------------------
(* The health page. *)

HealthAnswered(s) ==
  LET c == calls[s]
  IN  /\ Answered(s) /\ c.does \in {"first", "poll"} /\ c.got \in {"ok", "failed"}
      /\ calls' = Without(s)
      /\ screen' = IF c.got = "ok" THEN Data(Health, NoRows) ELSE screen

\* Mutant: the page is not polled when the first load failed.
FirstLoadedUnlessFailed(s) ==
  /\ HealthAnswered(s) /\ calls[s].does = "first"
  /\ timer' = (calls[s].got = "ok" \/ timer)
  /\ UNCHANGED <<address, dialogs, stream, server, acts, mixed>>

\* The timer is set wherever the user is by now, and replaces an older one.
FirstLoaded(s) ==
  /\ HealthAnswered(s) /\ calls[s].does = "first"
  /\ timer' = TRUE
  /\ UNCHANGED <<address, dialogs, stream, server, acts, mixed>>

Polled(s) ==
  /\ HealthAnswered(s) /\ calls[s].does = "poll"
  /\ UNCHANGED <<address, dialogs, timer, stream, server, acts, mixed>>

\* load() looks at the address first: a timer that was left behind does nothing.
Poll ==
  /\ timer /\ hash = Health
  /\ \A s \in Busy(calls) : calls[s].does # "poll"
  /\ Send(calls, Request("poll", Health))
  /\ UNCHANGED <<address, screen, dialogs, timer, stream, server, acts>>

---------------------------------------------------------------------------
(* The logs: a view is one call of renderAdminLogs. *)

ShowLogs(v) == screen' = [Data(Logs, NoRows) EXCEPT !.view = v]

LogsAnswered(s) ==
  LET c == calls[s]
  IN  /\ Answered(s) /\ c.does = "logs" /\ c.got \in {"ok", "failed"}
      /\ calls' = Without(s)
      /\ IF c.got = "ok" THEN ShowLogs(c.view) ELSE UNCHANGED screen
      /\ UNCHANGED <<address, dialogs, timer, stream, server, acts, mixed>>

\* "Refresh", another level or another period: the view loads again.
ReloadLogs ==
  /\ Act
  /\ screen.path = Logs /\ screen.shows = "data" /\ dialogs = {}
  /\ Send(calls, [Request("logs", Logs) EXCEPT !.view = screen.view])
  /\ UNCHANGED <<address, screen, dialogs, timer, stream, server>>

\* "Live stream" and "Stop": stopping asks the stream to end with its next entry,
\* starting tells every stream of any view to go on.
ClickStream ==
  LET v == screen.view
  IN  /\ Act
      /\ screen.path = Logs /\ screen.shows = "data" /\ dialogs = {}
      /\ stream' = IF stream.on[v]
                     THEN [stream EXCEPT !.abort = TRUE, !.on[v] = FALSE]
                     ELSE [stream EXCEPT !.abort = FALSE, !.on[v] = TRUE, !.tails[v] = @ + 1]
      /\ UNCHANGED <<address, screen, dialogs, calls, timer, server, mixed>>

TailEnds(v) == stream' = [stream EXCEPT !.tails[v] = @ - 1, !.on[v] = FALSE]

\* An entry draws its view over whatever is on the screen.
Entry(v) ==
  /\ stream.tails[v] > 0
  /\ IF stream.abort THEN TailEnds(v) /\ UNCHANGED screen
     ELSE ShowLogs(v) /\ UNCHANGED stream
  /\ UNCHANGED <<address, dialogs, calls, timer, server, acts, mixed>>

StreamBreaks(v) ==
  /\ stream.tails[v] > 0
  /\ TailEnds(v)
  /\ UNCHANGED <<address, screen, dialogs, calls, timer, server, acts, mixed>>

---------------------------------------------------------------------------
Server(s) == ServeList(s) \/ ServeAct(s) \/ Lose(s) \/ \E n \in Items["/keys"] : RotateHalf(s, n)
Goes(s)   == Refused(s) \/ ListAnswered(s) \/ ActFailed(s) \/ ActDone(s)
               \/ FirstLoaded(s) \/ Polled(s) \/ LogsAnswered(s)

Next ==
  \/ HashChange \/ Filter \/ Poll \/ ClickStream \/ ReloadLogs
  \/ \E p \in Visits : Visit(p)
  \/ \E op \in Ops, i \in AllItems : ClickAsks(op, i) \/ ClickActs(op, i) \/ Elsewhere(op, i)
  \/ \E d \in dialogs : CloseSecret(d) \/ \E answer \in {"true", "false", None} : AnswerDialog(d, answer)
  \/ \E s \in Slots : Server(s) \/ Goes(s)
  \/ \E v \in Views : Entry(v) \/ StreamBreaks(v)
  \/ \E k \in Expiring : Expire(k)

Spec == Init /\ [][Next]_vars

---------------------------------------------------------------------------
(* Properties. *)

\* What the holder of the account is promised of its keys (module KeyRing): no
\* sequence of revocations and rotations, from two devices and with the API dying
\* in the middle of a rotation, takes the last one that works or brings one back
\* that ended; only its date, or the administrator who blocks or deletes the user, does.
Ring == INSTANCE KeyRing WITH
  Keys    <- Items["/keys"],
  open    <- Enabled,
  live    <- Live(rows["/keys"]),
  revoked <- IF rows["/admin/users"][Account] = "absent" THEN Items["/keys"]
             ELSE {k \in Items["/keys"] : rows["/keys"][k] = "off"},
  expired <- expired

KeysKept == Ring!Spec

\* So an account that has a key that works keeps one, whatever its holder does on two
\* devices and wherever a rotation is cut short, until a date passes or the
\* administrator changes the user.
KeepsAccess ==
  [][Live(rows["/keys"]) # {} /\ Live(rows["/keys"])' = {}
       => expired' # expired \/ rows'["/admin/users"] # rows["/admin/users"]]_vars

\* A table on the screen shows what the server has, once the requests of its
\* page are answered and new keys are noted: whoever changes a row loads the
\* table again, on its page or after it was left, or moves the switch back.  It
\* does not hold when requests of the page overlapped, an operation's answer was
\* lost, or somebody else changed the table (mixed).
TableFresh ==
  LET p == screen.path
  IN  p \in Tables \ mixed /\ screen.shows = "data" /\ About(p) = {}
        /\ (\A d \in dialogs : d.kind = "ask")
        => screen.rows = rows[p]

\* As long as the health page is addressed it is being loaded or polled, however
\* often it was left and entered while a load was under way, or a load failed.
HealthWatched ==
  hash = Health /\ ~due => timer \/ \E s \in Busy(calls) : calls[s].does = "first"
=============================================================================
