--------------------------- MODULE BrowserSession ---------------------------
(***************************************************************************)
(* The single-page frontend of one browser tab: its session (state.js and  *)
(* localStorage), the hash router, the start-up of app.js, the sign-in     *)
(* pages and the calls pages make when they are rendered.                  *)
(*                                                                         *)
(* One event loop runs everything: an action is a stretch between two      *)
(* awaits.  Nothing cancels what a page awaits when the user leaves it, so *)
(* answers come to pages that are gone and to sessions that have ended.    *)
(* All pages draw into the same element; a change of location.hash is      *)
(* handled by an event of its own, after whatever else is queued.          *)
(***************************************************************************)
EXTENDS Naturals, FiniteSets

CONSTANTS
  UserKeys, AdminKeys,  \* keys of users; ADMIN_API_KEY
  OldKeys,              \* the users' keys that exist at the start
  Visits,               \* paths the user goes to by link or by hand
  Forms,                \* key forms that can be filled in at the same time
  MaxCalls,             \* bound: calls of pages that wait for an answer
  MaxActs               \* bound: clicks, submits and links of the user

None == "none"
Keys == UserKeys \cup AdminKeys

PublicPaths == {"/login", "/register", "/verify", "/reset-password", "/reset-password/confirm"}
JwtOnly     == {"/keys"}
DetailPages == {"/admin/users/:id"}
AdminPaths  == {"/admin/users", "/admin/payments", "/admin/health",
                "/admin/celery", "/admin/self-healing", "/admin/logs"} \cup DetailPages
\* Pages whose handler calls the API when it renders, and the others.
UserPages   == {"/dashboard", "/reports", "/keys", "/webhooks", "/subscription",
                "/preferences"}
StaticPages == {"/voice", "/pricing", "/pricing-yookassa", "/success", "/cancel",
                "/payment/success", "/payment/cancel"}
Routes == PublicPaths \cup AdminPaths \cup UserPages \cup StaticPages
Paths  == Routes \cup {"", "/unknown"}

\* These mount an error page when their call fails; the others keep the spinner.
ErrorPages == {"/dashboard", "/subscription"}

ASSUME BrowserSessionAssumption ==
  /\ None \notin Keys
  /\ OldKeys \subseteq UserKeys
  /\ Visits \subseteq Paths \ {""}
  /\ MaxCalls \in Nat /\ MaxActs \in Nat

VARIABLES
  keyState,  \* user key -> does the server accept it ?
  stored,    \* localStorage: reportagent_api_key
  session,   \* state.js
  hash,      \* location.hash
  due,       \* a hashchange event is queued
  page,      \* what #app shows
  head,      \* what <title>, description, robots and JSON-LD say
  viewed,    \* the last page view the analytics were told of
  calls,     \* calls of pages in flight
  boot,      \* how far boot() got
  form,      \* key form -> how far its submit handler got
  mail,      \* the email form waits for its answer
  later,     \* a register, verify or reset handler will go to /login
  first,     \* the first-key page: idle, waiting, or the key it shows
  acts,      \* what the user has done so far
  crossed    \* history: a session changed while a start-up or sign-in waited

vars == <<keyState, stored, session, hash, due, page, head, viewed, calls, boot, form, mail,
          later, first, acts, crossed>>

signIn == <<form, mail, later, first>>
view   == <<hash, due, page, head, viewed, calls>>

\* Mutant: an empty key instead of none.
NoSessionEmpty == [key |-> "", jwt |-> FALSE, auth |-> FALSE, admin |-> FALSE,
                   adminOnly |-> FALSE]

NoSession == [key |-> None, jwt |-> FALSE, auth |-> FALSE, admin |-> FALSE,
              adminOnly |-> FALSE]

IdleForm  == [at |-> "idle", key |-> None, sent |-> None, admin |-> FALSE]

TypeOK ==
  /\ keyState \in [UserKeys -> {"new", "live", "revoked"}]
  /\ stored \in Keys \cup {None}
  /\ session \in [key : Keys \cup {None}, jwt : BOOLEAN, auth : BOOLEAN,
                  admin : BOOLEAN, adminOnly : BOOLEAN]
  /\ hash \in Paths /\ due \in BOOLEAN
  /\ page \in [path : Paths, shows : {"nothing", "spinner", "form", "data", "error"},
               late : BOOLEAN]
  /\ head \in [of : Paths, describes : Paths, indexed : BOOLEAN, structured : BOOLEAN]
  /\ viewed \in Paths
  /\ calls \in SUBSET [path : Paths, key : Keys \cup {None}]
  /\ boot \in [at : {"config", "admin", "stats", "done"}, sent : Keys \cup {None},
               admin : BOOLEAN]
  /\ form \in [Forms -> [at : {"idle", "admin", "stats"}, key : Keys \cup {None},
                         sent : Keys \cup {None}, admin : BOOLEAN]]
  /\ mail \in BOOLEAN /\ later \in BOOLEAN
  /\ first \in {"idle", "asked"} \cup UserKeys
  /\ acts \in 0 .. MaxActs /\ crossed \in BOOLEAN

Booted == [at |-> "done", sent |-> None, admin |-> FALSE]

\* The modules are loaded: state.js has read localStorage.
Init ==
  /\ keyState = [k \in UserKeys |-> IF k \in OldKeys THEN "live" ELSE "new"]
  /\ stored \in OldKeys \cup AdminKeys \cup {None}
  /\ \E jwt \in BOOLEAN :
       session = [NoSession EXCEPT !.key = stored, !.jwt = jwt,
                                   !.auth = (stored # None \/ jwt)]
  /\ hash \in {"", "/dashboard"}
  /\ due = FALSE
  /\ page = [path |-> "", shows |-> "nothing", late |-> FALSE]
  /\ head = [of |-> "", describes |-> "", indexed |-> TRUE, structured |-> TRUE]
  /\ viewed = ""
  /\ calls = {}
  /\ boot = [at |-> "config", sent |-> None, admin |-> FALSE]
  /\ form = [f \in Forms |-> IdleForm]
  /\ mail = FALSE /\ later = FALSE
  /\ first = "idle"
  /\ acts = 0 /\ crossed = FALSE

---------------------------------------------------------------------------
(* The server, as far as a key goes. *)

Accepts(k, path) ==
  IF path \in AdminPaths THEN k \in AdminKeys ELSE k \in UserKeys /\ keyState[k] = "live"

\* Revoked here or from another device.
Revoke(k) ==
  /\ keyState[k] = "live"
  /\ keyState' = [keyState EXCEPT ![k] = "revoked"]
  /\ UNCHANGED <<stored, session, view, boot, signIn, crossed, acts>>

---------------------------------------------------------------------------
(* state.js and navigate(). *)

HasApiKey(s) == s.key # None

SetJwt     == session' = [session EXCEPT !.jwt = TRUE, !.auth = TRUE]
ClearJwt   == session' = [session EXCEPT !.jwt = FALSE]
SetIsAdmin(admin) == session' = [session EXCEPT !.admin = admin]

SetApiKey(k, admin, adminOnly) ==
  /\ stored' = k
  /\ session' = [session EXCEPT !.key = k, !.auth = TRUE, !.admin = admin,
                                !.adminOnly = adminOnly]

Logout == stored' = None /\ session' = NoSession

\* location.hash = p: an event follows if that is a change.
Navigate(p) == hash' = p /\ due' = (due \/ hash # p)

\* Somebody else's start-up or sign-in is waiting while the session changes.
SigningIn(f) == form[f].at # "idle"
Crosses(own) == crossed' = (crossed \/ boot.at # "done"
                              \/ \E f \in Forms \ own : SigningIn(f))

---------------------------------------------------------------------------
(* The router. *)

Show(p) == [does |-> "show", path |-> p]
Go(p)   == [does |-> "go", path |-> p]
Nothing == [does |-> "nothing", path |-> ""]

ParseHash(h) == IF h = "" THEN "/dashboard" ELSE h

\* renderRoute: which handler runs for hash h, or where it redirects.  Before
\* boot() has registered the routes there are no handlers.
Route(h, s, registered) ==
  LET path == ParseHash(h)
  IN CASE path \in PublicPaths -> IF registered THEN Show(path) ELSE Nothing
       [] path \notin PublicPaths /\ ~s.auth -> Go("/login")
       [] path \notin PublicPaths /\ s.auth ->
            CASE ~HasApiKey(s) /\ path \notin JwtOnly -> Go("/keys")
              [] ~(~HasApiKey(s) /\ path \notin JwtOnly) ->
                   IF s.adminOnly /\ path \notin AdminPaths THEN Go("/admin/health")
                   ELSE IF path \in AdminPaths /\ ~s.admin THEN Go("/dashboard")
                   ELSE IF registered /\ path \in Routes THEN Show(path)
                   ELSE Go(IF HasApiKey(s) THEN "/dashboard" ELSE "/keys")

\* renderKeys shows the first-key form to a user who signed in by email.
Onboards(s) == ~HasApiKey(s) /\ s.jwt
Calls(p, s) == p \in AdminPaths \/ (p \in UserPages /\ ~(p = "/keys" /\ Onboards(s)))

\* ROUTE_SEO: pages search engines are asked to leave out, pages with JSON-LD,
\* pages whose entry has no description.
Noindexed   == AdminPaths \cup {"/reports", "/keys", "/webhooks", "/subscription",
                "/preferences", "/verify", "/reset-password", "/reset-password/confirm", "/success",
                "/cancel", "/payment/success", "/payment/cancel"}
Structured  == {"/dashboard", "/login", "/register", "/pricing", "/pricing-yookassa"}
Undescribed == {"/payment/success", "/payment/cancel"}

\* No empty text is written: the old one stays.
UpsertMeta(p) == IF p \in Undescribed THEN head.describes ELSE p

\* The JSON-LD of the page before is removed if a page has none.
UpsertJsonLd(p) == p \in Structured

UpdatePageSeo(p) ==
  head' = [of |-> p, indexed |-> p \notin Noindexed, structured |-> UpsertJsonLd(p),
           describes |-> UpsertMeta(p)]

\* Google Analytics and Metrika are not told of the console.
AnalyticsExcluded(p) == p \in AdminPaths
TrackPageView(p) == viewed' = IF AnalyticsExcluded(p) THEN viewed ELSE p

\* A user's details have the head of the list of users.
HeadOf(p) == IF p \in DetailPages THEN "/admin/users" ELSE p
Announce(p) == UpdatePageSeo(HeadOf(p)) /\ TrackPageView(p)

\* A handler draws its page, most of them a spinner until a call is answered.
Mount(p, s, key) ==
  /\ page' = [path |-> p, late |-> FALSE,
              shows |-> IF Calls(p, s) THEN "spinner" ELSE "form"]
  /\ Announce(p)
  /\ calls' = calls \cup (IF Calls(p, s) THEN {[path |-> p, key |-> key]} ELSE {})
  /\ Cardinality(calls') <= MaxCalls

\* One run of renderRoute on hash h with session s, key in localStorage.
Render(h, s, key, registered) ==
  LET r == Route(h, s, registered)
  IN  /\ hash' = IF r.does = "go" THEN r.path ELSE h
      /\ CASE r.does = "show" -> Mount(r.path, s, key)
           [] r.does = "go" ->
                /\ IF r.path = "/login" THEN Announce("/login") ELSE UNCHANGED <<head, viewed>>
                /\ UNCHANGED <<page, calls>>
           [] r.does = "nothing" -> UNCHANGED <<page, head, viewed, calls>>

HashChange ==
  /\ due
  /\ Render(hash, session, stored, boot.at # "config")
  /\ due' = (hash' # hash)
  /\ UNCHANGED <<keyState, stored, session, boot, signIn, crossed, acts>>

---------------------------------------------------------------------------
(* boot(): configuration, who the key belongs to, the first page. *)

DefaultHash(s) ==
  IF ~s.auth THEN "/login" ELSE IF ~HasApiKey(s) /\ s.jwt THEN "/keys"
  ELSE IF s.adminOnly THEN "/admin/health" ELSE "/dashboard"

\* The last lines of boot(): a default hash, whose event comes as well.
FirstRoute(s) ==
  LET h == IF hash = "" THEN DefaultHash(s) ELSE hash
  IN  /\ Render(h, s, stored, TRUE)
      /\ due' = (due \/ hash' # hash)

BootConfig ==
  /\ boot.at = "config"
  /\ IF session.auth
       THEN /\ boot' = [boot EXCEPT !.at = "admin", !.sent = stored]
            /\ UNCHANGED view
       ELSE /\ boot' = Booted
            /\ FirstRoute(session)
  /\ UNCHANGED <<keyState, stored, session, signIn, crossed, acts>>

\* checkAdmin: a refusal and a failure look the same.
BootAdmin ==
  /\ boot.at = "admin"
  /\ \E admin \in {Accepts(boot.sent, "/admin/health"), FALSE} :
       /\ SetIsAdmin(admin)
       /\ boot' = [at |-> "stats", sent |-> stored, admin |-> admin]
  /\ UNCHANGED <<keyState, stored, view, signIn, crossed, acts>>

\* Mutant: a key that fails both questions counts as an administrator's.
BootStatsUnlessUser ==
  /\ boot.at = "stats"
  /\ \E user \in {Accepts(boot.sent, "/dashboard"), FALSE} :
       /\ session' = [session EXCEPT !.adminOnly = ~user]
       /\ FirstRoute(session')
  /\ boot' = Booted
  /\ UNCHANGED <<keyState, stored, signIn, crossed, acts>>

BootStats ==
  /\ boot.at = "stats"
  /\ \E user \in {Accepts(boot.sent, "/dashboard"), FALSE} :
       /\ session' = [session EXCEPT !.adminOnly = boot.admin /\ ~user]
       /\ FirstRoute(session')
  /\ boot' = Booted
  /\ UNCHANGED <<keyState, stored, signIn, crossed, acts>>

---------------------------------------------------------------------------
(* A page's call is answered. *)

Failed(c) == IF c.path \in ErrorPages
               THEN [path |-> c.path, shows |-> "error", late |-> page.late \/ page.path # c.path]
               ELSE page

\* 200: the page draws itself, whatever is on the screen by now.
AnswerOk(c) ==
  /\ c \in calls /\ Accepts(c.key, c.path)
  /\ calls' = calls \ {c}
  /\ page' = [path |-> c.path, shows |-> "data", late |-> page.late \/ page.path # c.path]
  /\ UNCHANGED <<keyState, stored, session, hash, due, head, viewed, boot, signIn, crossed, acts>>

\* Mutant: the session is ended, but the user stays where he is.
Answer401Stays(c) ==
  /\ c \in calls /\ ~Accepts(c.key, c.path)
  /\ calls' = calls \ {c}
  /\ page' = Failed(c)
  /\ Logout
  /\ Crosses({})
  /\ UNCHANGED <<keyState, hash, due, head, viewed, boot, signIn, acts>>

\* 401: handleResponse ends the session, whichever it is by now.
Answer401(c) ==
  /\ c \in calls /\ ~Accepts(c.key, c.path)
  /\ calls' = calls \ {c}
  /\ page' = Failed(c)
  /\ Logout
  /\ Navigate("/login")
  /\ Crosses({})
  /\ UNCHANGED <<keyState, head, viewed, boot, signIn, acts>>

AnswerError(c) ==
  /\ c \in calls
  /\ calls' = calls \ {c}
  /\ page' = Failed(c)
  /\ UNCHANGED <<keyState, stored, session, hash, due, head, viewed, boot, signIn, crossed, acts>>

---------------------------------------------------------------------------
(* The user. *)

Act == acts < MaxActs /\ acts' = acts + 1

Visit(p) ==
  /\ Act
  /\ hash # p
  /\ Navigate(p)
  /\ UNCHANGED <<keyState, stored, session, page, head, viewed, calls, boot, signIn, crossed>>

\* The button in the header, on every page but the public ones and the first-key form.
HasShell == page.path \notin PublicPaths \cup {""}
              /\ ~(page.path = "/keys" /\ page.shows = "form")

ClickLogout ==
  /\ Act
  /\ HasShell
  /\ Logout
  /\ Navigate("/login")
  /\ Crosses({})
  /\ UNCHANGED <<keyState, page, head, viewed, calls, boot, signIn>>

---------------------------------------------------------------------------
(* Signing in with a key: stored first, then tried. *)

SubmitKey(f, k) ==
  /\ Act
  /\ page.path = "/login" /\ form[f].at = "idle"
  /\ stored' = k
  /\ ClearJwt
  /\ form' = [form EXCEPT ![f] = [at |-> "admin", key |-> k, sent |-> k, admin |-> FALSE]]
  /\ Crosses({f})
  /\ UNCHANGED <<keyState, view, boot, mail, later, first>>

\* Mutant: a call that fails counts as an administrator's.
KeyAdminUnlessRefused(f) ==
  /\ form[f].at = "admin"
  /\ \E admin \in {Accepts(form[f].sent, "/admin/health"), TRUE} :
       form' = [form EXCEPT ![f] = [at |-> "stats", key |-> form[f].key, sent |-> stored,
                                    admin |-> admin]]
  /\ UNCHANGED <<keyState, stored, session, view, boot, mail, later, first, crossed, acts>>

KeyAdmin(f) ==
  /\ form[f].at = "admin"
  /\ \E admin \in {Accepts(form[f].sent, "/admin/health"), FALSE} :
       form' = [form EXCEPT ![f] = [at |-> "stats", key |-> form[f].key, sent |-> stored,
                                    admin |-> admin]]
  /\ UNCHANGED <<keyState, stored, session, view, boot, mail, later, first, crossed, acts>>

\* Mutant: a refused key stays in localStorage.
KeyRefusedStays(f) ==
  /\ form[f].at = "stats" /\ ~form[f].admin
  /\ form' = [form EXCEPT ![f] = IdleForm]
  /\ UNCHANGED <<keyState, stored, session, view, boot, mail, later, first, crossed, acts>>

\* Neither question was answered with yes.
KeyRefused(f) ==
  /\ form[f].at = "stats" /\ ~form[f].admin
  /\ stored' = None
  /\ form' = [form EXCEPT ![f] = IdleForm]
  /\ UNCHANGED <<keyState, session, view, boot, mail, later, first, crossed, acts>>

KeyAccepted(f) ==
  /\ form[f].at = "stats"
  /\ \E user \in {Accepts(form[f].sent, "/dashboard"), FALSE} :
       /\ user \/ form[f].admin
       /\ SetApiKey(form[f].key, form[f].admin, form[f].admin /\ ~user)
       /\ Navigate(IF user THEN "/dashboard" ELSE "/admin/health")
  /\ form' = [form EXCEPT ![f] = IdleForm]
  /\ Crosses({f})
  /\ UNCHANGED <<keyState, page, head, viewed, calls, boot, mail, later, first, acts>>

---------------------------------------------------------------------------
(* Signing in by email, and the first key. *)

SubmitMail ==
  /\ Act
  /\ page.path = "/login" /\ ~mail
  /\ mail' = TRUE
  /\ UNCHANGED <<keyState, stored, session, view, boot, form, later, first, crossed>>

\* The access token is kept even if the address is not verified yet.
MailAccepted ==
  /\ mail
  /\ mail' = FALSE
  /\ SetJwt
  /\ Navigate("/keys") \/ UNCHANGED <<hash, due>>
  /\ Crosses({})
  /\ UNCHANGED <<keyState, stored, page, head, viewed, calls, boot, form, later, first, acts>>

\* api/auth.js throws whatever the server refuses: the page says so and stays.
AuthError == UNCHANGED <<hash, due>>

MailRefused ==
  /\ mail
  /\ mail' = FALSE
  /\ AuthError
  /\ UNCHANGED <<keyState, stored, session, page, head, viewed, calls, boot, form, later, first,
                 crossed, acts>>

\* The request carries the token; where the session has just ended it is refused.
FirstKeyAsk ==
  /\ Act
  /\ page.path = "/keys" /\ page.shows = "form" /\ first = "idle" /\ session.jwt
  /\ first' = "asked"
  /\ UNCHANGED <<keyState, stored, session, view, boot, form, mail, later, crossed>>

FirstKeyMade(k) ==
  /\ first = "asked" /\ keyState[k] = "new"
  /\ keyState' = [keyState EXCEPT ![k] = "live"]
  /\ first' = k
  /\ UNCHANGED <<stored, session, view, boot, form, mail, later, crossed, acts>>

FirstKeyFails ==
  /\ first = "asked"
  /\ first' = "idle"
  /\ UNCHANGED <<keyState, stored, session, view, boot, form, mail, later, crossed, acts>>

\* The modal is closed: the key replaces the token.
FirstKeySaved ==
  /\ Act
  /\ first \in UserKeys
  /\ stored' = first
  /\ session' = [key |-> first, jwt |-> FALSE, auth |-> TRUE, admin |-> FALSE,
                 adminOnly |-> FALSE]
  /\ Navigate("/dashboard")
  /\ first' = "idle"
  /\ Crosses({})
  /\ UNCHANGED <<keyState, page, head, viewed, calls, boot, form, mail, later>>

\* register and reset-password go to /login once they are answered, verify another
\* 1.5 seconds later: the user may be anywhere by then.
SubmitPublic ==
  /\ Act
  /\ page.path \in PublicPaths \ {"/login"} /\ ~later
  /\ later' = TRUE
  /\ UNCHANGED <<keyState, stored, session, view, boot, form, mail, first, crossed>>

BackToLogin == Navigate("/login")

PublicDone ==
  /\ later
  /\ later' = FALSE
  /\ BackToLogin \/ AuthError
  /\ UNCHANGED <<keyState, stored, session, page, head, viewed, calls, boot, form, mail, first,
                 crossed, acts>>

---------------------------------------------------------------------------
Booting == BootConfig \/ BootAdmin \/ BootStats
Answer(c) == AnswerOk(c) \/ Answer401(c) \/ AnswerError(c)
SigningInBy(f) == KeyAdmin(f) \/ KeyRefused(f) \/ KeyAccepted(f)

Next ==
  \/ Booting
  \/ HashChange
  \/ \E c \in calls : Answer(c)
  \/ \E p \in Visits : Visit(p)
  \/ ClickLogout
  \/ \E f \in Forms : SigningInBy(f) \/ \E k \in Keys : SubmitKey(f, k)
  \/ SubmitMail \/ MailAccepted \/ MailRefused
  \/ FirstKeyAsk \/ FirstKeyFails \/ FirstKeySaved
  \/ SubmitPublic \/ PublicDone
  \/ \E k \in UserKeys : Revoke(k) \/ FirstKeyMade(k)

Spec == Init /\ [][Next]_vars

\* The event loop runs what is queued; every request is answered or times out.
Fairness ==
  /\ WF_vars(HashChange)
  /\ WF_vars(Booting)
  /\ WF_vars(\E c \in calls : Answer(c))
  /\ \A f \in Forms : WF_vars(SigningInBy(f))

FairSpec == Spec /\ Fairness

---------------------------------------------------------------------------
(* Properties. *)

\* Unless a form is being tried, the key the client sends is the key of the
\* session it shows, or none at all; without a session no key is left behind.
\* Sign-ins that fail, late refusals, logouts and the first key all write both
\* places, in different orders.
StoredMatchesSession ==
  (\A f \in Forms : ~SigningIn(f)) =>
    /\ stored \in {None, session.key}
    /\ ~session.auth => stored = None

\* The console is offered to an administrator's key only, and a session that
\* is confined to the console has one, unless the session changed under a
\* start-up or sign-in that was still waiting.
ConsoleForAdmins ==
  ~crossed =>
    /\ session.admin => session.key \in AdminKeys
    /\ session.adminOnly /\ boot.at = "done" => session.admin

\* The page on the screen is the page of the address bar, and so are those of
\* title and robots and of the last page view, once the queue is empty: unless an
\* answer came for a page the user had left.  A page that needs a session is on the screen with
\* a session only.
PageIsAddressed ==
  boot.at = "done" /\ ~due =>
    /\ ~page.late => page.path = hash
    /\ head.of = HeadOf(hash)
    /\ hash \notin AdminPaths => viewed = hash
    /\ hash \notin PublicPaths => session.auth
    /\ ~crossed /\ hash \in AdminPaths => session.admin

\* Redirects come to an end: once the user clicks and types no more (MaxActs), every
\* chain of them, from any session and any address, reaches a page, unless a
\* session changed under a waiting start-up or sign-in.
RoutingSettles == []<>(~due \/ crossed)

=============================================================================
