------------------------ MODULE BrowserSessionProofs ------------------------
(***************************************************************************)
(* Proofs about BrowserSession, for any keys, forms, links and bounds.     *)
(*                                                                         *)
(* The router never sends a path to itself (RouteFacts): either it shows   *)
(* the page of the address, to a session that may see it, or the address   *)
(* changes and its event is queued.  Everything said about the screen      *)
(* rests on that.                                                          *)
(***************************************************************************)
EXTENDS BrowserSession, TLAPS

---------------------------------------------------------------------------
(* Type correctness. *)

Sessions == [key : Keys \cup {None}, jwt : BOOLEAN, auth : BOOLEAN,
             admin : BOOLEAN, adminOnly : BOOLEAN]
FormStates == [at : {"idle", "admin", "stats"}, key : Keys \cup {None},
               sent : Keys \cup {None}, admin : BOOLEAN]

\* The parts of TypeOK: the session, and what is seen.
SessionOK ==
  /\ keyState \in [UserKeys -> {"new", "live", "revoked"}]
  /\ stored \in Keys \cup {None}
  /\ session \in Sessions
  /\ boot \in [at : {"config", "admin", "stats", "done"}, sent : Keys \cup {None},
               admin : BOOLEAN]
  /\ form \in [Forms -> FormStates]
  /\ mail \in BOOLEAN /\ later \in BOOLEAN
  /\ first \in {"idle", "asked"} \cup UserKeys
  /\ acts \in 0 .. MaxActs /\ crossed \in BOOLEAN
ViewOK ==
  /\ hash \in Paths /\ due \in BOOLEAN
  /\ page \in [path : Paths, shows : {"nothing", "spinner", "form", "data", "error"},
               late : BOOLEAN]
  /\ head \in [of : Paths, describes : Paths, indexed : BOOLEAN, structured : BOOLEAN]
  /\ viewed \in Paths
  /\ calls \in SUBSET [path : Paths, key : Keys \cup {None}]

\* TypeOK is its parts.
LEMMA TypeParts == TypeOK <=> SessionOK /\ ViewOK
  BY DEF TypeOK, SessionOK, ViewOK, Sessions, FormStates

\* The initial state is well typed.
LEMMA TypeInit == Init => TypeOK
  <1> SUFFICES ASSUME Init PROVE TypeOK
    OBVIOUS
  <1>0. 0 \in 0 .. MaxActs
    <2>1. MaxActs \in Nat
      BY BrowserSessionAssumption, Zenon
    <2> QED  BY <2>1
  <1> USE BrowserSessionAssumption DEF Init
  <1>1. NoSession \in Sessions /\ IdleForm \in FormStates
    BY DEF NoSession, IdleForm, Sessions, FormStates
  <1>2. stored \in Keys \cup {None}
    BY DEF Keys
  <1>3. session \in Sessions
    BY <1>2 DEF NoSession, Sessions
  <1>4. SessionOK
    <2>1. boot \in [at : {"config", "admin", "stats", "done"}, sent : Keys \cup {None},
                   admin : BOOLEAN]
      OBVIOUS
    <2>2. form \in [Forms -> FormStates]
      BY <1>1
    <2>3. keyState \in [UserKeys -> {"new", "live", "revoked"}]
      OBVIOUS
    <2>4. mail \in BOOLEAN /\ later \in BOOLEAN /\ crossed \in BOOLEAN
      OBVIOUS
    <2>5. first = "idle" /\ acts = 0
      OBVIOUS
    <2> HIDE DEF Init
    <2> QED  BY <1>0, <1>2, <1>3, <2>1, <2>2, <2>3, <2>4, <2>5 DEF SessionOK
  <1>5. ViewOK
    <2>1. {"", "/dashboard"} \subseteq Paths
      BY DEF Paths, Routes, UserPages
    <2>2. hash \in Paths /\ viewed \in Paths
      BY <2>1
    <2>3. page \in [path : Paths, shows : {"nothing", "spinner", "form", "data", "error"},
                   late : BOOLEAN]
      BY <2>1
    <2>4. head \in [of : Paths, describes : Paths, indexed : BOOLEAN, structured : BOOLEAN]
      BY <2>1
    <2>5. calls \in SUBSET [path : Paths, key : Keys \cup {None}]
      OBVIOUS
    <2>6. due \in BOOLEAN
      OBVIOUS
    <2> HIDE DEF Init
    <2> QED  BY <2>2, <2>3, <2>4, <2>5, <2>6 DEF ViewOK
  <1> QED  BY <1>4, <1>5 DEF TypeOK, SessionOK, ViewOK, Sessions, FormStates

---------------------------------------------------------------------------
(* The router. *)

\* What renderRoute may decide for hash h and session s: a page is shown at its
\* own path, to a session that may see it; once the routes are registered a
\* redirect leads elsewhere, and something always happens.
Sound(h, s, registered, r) ==
  \/ /\ r.does = "show" /\ r.path = ParseHash(h) /\ r.path \in Routes
     /\ r.path \notin PublicPaths => s.auth
     /\ r.path \in AdminPaths => s.admin
  \/ r.does = "go" /\ r.path \in Routes /\ (registered => r.path # h)
  \/ r.does = "nothing" /\ ~registered

\* It always decides so.
LEMMA RouteFacts ==
  ASSUME NEW h \in Paths, NEW s \in Sessions, NEW registered \in BOOLEAN
  PROVE  Sound(h, s, registered, Route(h, s, registered))
  <1> DEFINE p == ParseHash(h)
             r == Route(h, s, registered)
  <1>1. p \in Paths /\ (p # h => h = "")
    BY DEF ParseHash, Paths, Routes, UserPages
  <1>2. /\ "/login" \in PublicPaths /\ "/keys" \in JwtOnly /\ "/keys" \in Routes \ AdminPaths
        /\ "/admin/health" \in AdminPaths /\ "/dashboard" \in Routes \ (AdminPaths \cup JwtOnly)
        /\ PublicPaths \cup JwtOnly \cup AdminPaths \subseteq Routes /\ "" \notin Routes
        /\ PublicPaths \cap AdminPaths = {}
    BY DEF PublicPaths, JwtOnly, AdminPaths, DetailPages, Routes, UserPages, StaticPages
  <1>3. ASSUME p \in Routes, p \notin PublicPaths => s.auth, p \in AdminPaths => s.admin
        PROVE  Sound(h, s, registered, Show(p))
    <2>1. Show(p).does = "show" /\ Show(p).path = p
      BY DEF Show
    <2> QED  BY <1>3, <2>1 DEF Sound
  <1>4. ASSUME NEW q \in Routes, registered => q # p PROVE Sound(h, s, registered, Go(q))
    <2>1. Go(q).does = "go" /\ Go(q).path = q
      BY DEF Go
    <2> QED  BY <1>1, <1>2, <1>4, <2>1 DEF Sound
  <1>5. CASE p \in PublicPaths
    <2>1. r = IF registered THEN Show(p) ELSE Nothing
      BY <1>5 DEF Route
    <2>2. Nothing.does = "nothing"
      BY DEF Nothing
    <2>3. ~registered => Sound(h, s, registered, Nothing)
      BY <2>2 DEF Sound
    <2> HIDE DEF p, r
    <2> QED  BY <1>2, <1>3, <1>5, <2>1, <2>3 DEF r
  <1>6. CASE p \notin PublicPaths /\ ~s.auth
    <2>1. r = Go("/login")
      BY <1>6 DEF Route
    <2> HIDE DEF p
    <2> QED  BY <1>2, <1>4, <1>6, <2>1
  <1>7. CASE p \notin PublicPaths /\ s.auth
    <2>1. CASE ~HasApiKey(s) /\ p \notin JwtOnly
      <3>1. r = Go("/keys")
        BY <1>7, <2>1 DEF Route
      <3> HIDE DEF p
      <3> QED  BY <1>2, <1>4, <2>1, <3>1
    <2>2. CASE ~(~HasApiKey(s) /\ p \notin JwtOnly)
      <3>1. r = IF s.adminOnly /\ p \notin AdminPaths THEN Go("/admin/health")
                ELSE IF p \in AdminPaths /\ ~s.admin THEN Go("/dashboard")
                ELSE IF registered /\ p \in Routes THEN Show(p)
                ELSE Go(IF HasApiKey(s) THEN "/dashboard" ELSE "/keys")
        BY <1>7, <2>2 DEF Route
      <3> HIDE DEF p
      <3>2. CASE s.adminOnly /\ p \notin AdminPaths
        BY <1>2, <1>4, <3>1, <3>2
      <3>3. CASE ~(s.adminOnly /\ p \notin AdminPaths) /\ p \in AdminPaths /\ ~s.admin
        BY <1>2, <1>4, <3>1, <3>3
      <3>4. CASE ~(s.adminOnly /\ p \notin AdminPaths) /\ ~(p \in AdminPaths /\ ~s.admin)
        <4>1. CASE registered /\ p \in Routes
          BY <1>3, <1>7, <3>1, <3>4, <4>1
        <4>2. CASE ~(registered /\ p \in Routes)
          BY <1>2, <1>4, <3>1, <3>4, <4>2
        <4> QED  BY <4>1, <4>2
      <3> QED  BY <3>2, <3>3, <3>4
    <2> QED  BY <2>1, <2>2
  <1> QED  BY <1>5, <1>6, <1>7

---------------------------------------------------------------------------
(* The parts of a step. *)

\* Rendering a page puts it on the screen with its own head and page view.
LEMMA MountEffect ==
  ASSUME ViewOK, NEW p \in Routes, NEW s, NEW key \in Keys \cup {None}, Mount(p, s, key)
  PROVE  /\ page' \in [path : Paths, shows : {"nothing", "spinner", "form", "data", "error"},
                       late : BOOLEAN]
         /\ page'.path = p
         /\ head' \in [of : Paths, describes : Paths, indexed : BOOLEAN, structured : BOOLEAN]
         /\ head'.of = HeadOf(p)
         /\ viewed' \in Paths /\ (p \notin AdminPaths => viewed' = p)
         /\ calls' \in SUBSET [path : Paths, key : Keys \cup {None}]
  <1>1. p \in Paths /\ HeadOf(p) \in Paths
    BY DEF Paths, HeadOf, Routes, AdminPaths
  <1>2. UpsertMeta(HeadOf(p)) \in Paths
    BY <1>1 DEF UpsertMeta, ViewOK
  <1>3. (HeadOf(p) \notin Noindexed) \in BOOLEAN /\ UpsertJsonLd(HeadOf(p)) \in BOOLEAN
    BY DEF UpsertJsonLd
  <1>4. head' = [of |-> HeadOf(p), indexed |-> HeadOf(p) \notin Noindexed,
                 structured |-> UpsertJsonLd(HeadOf(p)), describes |-> UpsertMeta(HeadOf(p))]
    BY DEF Mount, Announce, UpdatePageSeo
  <1>5. /\ head' \in [of : Paths, describes : Paths, indexed : BOOLEAN, structured : BOOLEAN]
        /\ head'.of = HeadOf(p)
    BY <1>1, <1>2, <1>3, <1>4
  <1>6. viewed' \in Paths /\ (p \notin AdminPaths => viewed' = p)
    <2>1. viewed' = IF AnalyticsExcluded(p) THEN viewed ELSE p
      BY DEF Mount, Announce, TrackPageView
    <2> QED  BY <1>1, <2>1 DEF AnalyticsExcluded, ViewOK
  <1>7. /\ page' \in [path : Paths, shows : {"nothing", "spinner", "form", "data", "error"},
                      late : BOOLEAN]
        /\ page'.path = p
    BY <1>1 DEF Mount
  <1>8. calls' \in SUBSET [path : Paths, key : Keys \cup {None}]
    BY <1>1 DEF Mount, ViewOK
  <1> QED  BY <1>5, <1>6, <1>7, <1>8

\* What a run of renderRoute leaves: the page of the hash on the screen, or a new
\* hash.
LEMMA RenderEffect ==
  ASSUME ViewOK, NEW h \in Paths, NEW s \in Sessions, NEW key \in Keys \cup {None},
         NEW registered \in BOOLEAN, Render(h, s, key, registered)
  PROVE  /\ hash' \in Paths
         /\ page' \in [path : Paths, shows : {"nothing", "spinner", "form", "data", "error"},
                       late : BOOLEAN]
         /\ head' \in [of : Paths, describes : Paths, indexed : BOOLEAN, structured : BOOLEAN]
         /\ viewed' \in Paths
         /\ calls' \in SUBSET [path : Paths, key : Keys \cup {None}]
         /\ hash' # h => hash' # ""
         /\ registered /\ hash' = h /\ h # "" =>
              /\ page'.path = h /\ head'.of = HeadOf(h)
              /\ h \notin AdminPaths => viewed' = h
              /\ h \notin PublicPaths => s.auth
              /\ h \in AdminPaths => s.admin
  <1> DEFINE r == Route(h, s, registered)
  <1>1. Sound(h, s, registered, r)
    BY RouteFacts
  <1>2. Routes \subseteq Paths /\ "" \notin Routes /\ "/login" \in Routes
    BY DEF Paths, Routes, PublicPaths, AdminPaths, DetailPages, UserPages, StaticPages
  <1>3. h # "" => ParseHash(h) = h
    BY DEF ParseHash
  <1>4. hash' = IF r.does = "go" THEN r.path ELSE h
    BY DEF Render
  <1>5. CASE r.does = "show"
    <2>1. Mount(r.path, s, key)
      BY <1>5 DEF Render
    <2>2. r.path \in Routes
      BY <1>1, <1>5 DEF Sound
    <2>3. hash' = h /\ r.path = ParseHash(h)
      BY <1>1, <1>4, <1>5 DEF Sound
    <2>4. /\ r.path \notin PublicPaths => s.auth
          /\ r.path \in AdminPaths => s.admin
      BY <1>1, <1>5 DEF Sound
    <2> HIDE DEF r
    <2>5. /\ page' \in [path : Paths, shows : {"nothing", "spinner", "form", "data", "error"},
                        late : BOOLEAN]
          /\ page'.path = r.path
          /\ head' \in [of : Paths, describes : Paths, indexed : BOOLEAN, structured : BOOLEAN]
          /\ head'.of = HeadOf(r.path)
          /\ viewed' \in Paths /\ (r.path \notin AdminPaths => viewed' = r.path)
          /\ calls' \in SUBSET [path : Paths, key : Keys \cup {None}]
      BY <2>1, <2>2, MountEffect
    <2> QED  BY <1>2, <1>3, <2>3, <2>4, <2>5
  <1>6. CASE r.does = "go"
    <2>1. UNCHANGED <<page, calls>> /\ (Announce("/login") \/ UNCHANGED <<head, viewed>>)
      BY <1>6 DEF Render
    <2>2. Announce("/login") => viewed' \in Paths
      BY <1>2 DEF Announce, TrackPageView, HeadOf, DetailPages, ViewOK
    <2>3. ASSUME Announce("/login")
          PROVE  head' \in [of : Paths, describes : Paths, indexed : BOOLEAN,
                            structured : BOOLEAN]
      <3>1. HeadOf("/login") = "/login" /\ UpsertMeta("/login") \in Paths
        BY <1>2 DEF HeadOf, DetailPages, UpsertMeta, ViewOK
      <3>2. ("/login" \notin Noindexed) \in BOOLEAN /\ UpsertJsonLd("/login") \in BOOLEAN
        BY DEF UpsertJsonLd
      <3>3. head' = [of |-> "/login", indexed |-> "/login" \notin Noindexed,
                     structured |-> UpsertJsonLd("/login"),
                     describes |-> UpsertMeta("/login")]
        BY <2>3, <3>1 DEF Announce, UpdatePageSeo
      <3>4. "/login" \in Paths
        BY <1>2
      <3> QED  BY <3>1, <3>2, <3>3, <3>4
    <2> HIDE DEF r
    <2> QED  BY <1>1, <1>2, <1>4, <1>6, <2>1, <2>2, <2>3 DEF Sound, ViewOK
  <1>7. CASE r.does = "nothing"
    <2>1. UNCHANGED <<page, head, viewed, calls>>
      BY <1>7 DEF Render
    <2> HIDE DEF r
    <2> QED  BY <1>1, <1>4, <1>7, <2>1 DEF Sound, ViewOK
  <1> HIDE DEF r
  <1> QED  BY <1>1, <1>5, <1>6, <1>7 DEF Sound


\* navigate() to a path leaves an address and, if it is new, an event.
LEMMA NavigateType ==
  ASSUME ViewOK, NEW p \in Paths, Navigate(p)
  PROVE  hash' \in Paths /\ due' \in BOOLEAN
  BY DEF Navigate, ViewOK

\* The server's answer is yes or no.
LEMMA AcceptsType == ASSUME NEW k, NEW p PROVE Accepts(k, p) \in BOOLEAN
  <1>1. CASE p \in AdminPaths
    BY <1>1 DEF Accepts
  <1>2. CASE p \notin AdminPaths
    BY <1>2 DEF Accepts
  <1> QED  BY <1>1, <1>2

\* Every step keeps the types: one case per action.
LEMMA TypeNext == TypeOK /\ [Next]_vars => TypeOK'
  <1> SUFFICES ASSUME TypeOK, [Next]_vars PROVE TypeOK'
    OBVIOUS
  <1>0. SessionOK /\ ViewOK
    BY TypeParts
  <1>d. ASSUME SessionOK', ViewOK' PROVE TypeOK'
    BY <1>d DEF TypeOK, SessionOK, ViewOK, Sessions, FormStates
  <1>s. Sessions = [key : Keys \cup {None}, jwt : BOOLEAN, auth : BOOLEAN,
                    admin : BOOLEAN, adminOnly : BOOLEAN]
    BY DEF Sessions
  <1>n. NoSession \in Sessions /\ IdleForm \in FormStates
    BY DEF NoSession, IdleForm, Sessions, FormStates
  <1>k. UserKeys \subseteq Keys
    BY DEF Keys
  <1>p. {"/login", "/keys", "/dashboard", "/admin/health"} \subseteq Paths
    BY DEF Paths, Routes, PublicPaths, AdminPaths, DetailPages, UserPages
  <1>c. ASSUME NEW own, Crosses(own) PROVE crossed' \in BOOLEAN
    BY <1>c DEF Crosses
  <1>a. ASSUME Act PROVE acts' \in 0 .. MaxActs
    <2>1. MaxActs \in Nat
      BY BrowserSessionAssumption, Zenon
    <2> QED  BY <1>0, <1>a, <2>1 DEF Act, SessionOK
  <1>v. ASSUME UNCHANGED view PROVE ViewOK'
    BY <1>0, <1>v DEF view, ViewOK
  <1>h. ASSUME NEW p \in Paths, Navigate(p), UNCHANGED <<page, head, viewed, calls>>
        PROVE  ViewOK'
    BY <1>0, <1>h, NavigateType DEF ViewOK
  <1>u. ASSUME UNCHANGED <<hash, due, page, head, viewed, calls>> PROVE ViewOK'
    BY <1>0, <1>u DEF ViewOK
  <1>1. ASSUME HashChange PROVE TypeOK'
    <2>1. ViewOK'
      <3>1. /\ hash \in Paths /\ session \in Sessions /\ stored \in Keys \cup {None}
            /\ (boot.at # "config") \in BOOLEAN
        BY <1>0 DEF ViewOK, SessionOK
      <3>2. Render(hash, session, stored, boot.at # "config") /\ due' \in BOOLEAN
        BY <1>1 DEF HashChange
      <3> QED  BY <1>0, <3>1, <3>2, RenderEffect DEF ViewOK
    <2> QED  BY <1>0, <1>1, <1>d, <2>1 DEF HashChange, SessionOK, signIn
  <1>f. ASSUME NEW s \in Sessions, FirstRoute(s) PROVE ViewOK'
    <2> DEFINE h == IF hash = "" THEN DefaultHash(s) ELSE hash
    <2>1. h \in Paths
      BY <1>0, <1>p DEF DefaultHash, ViewOK
    <2>2. stored \in Keys \cup {None} /\ TRUE \in BOOLEAN
      BY <1>0 DEF SessionOK
    <2>3. Render(h, s, stored, TRUE) /\ due' = (due \/ hash' # hash)
      BY <1>f DEF FirstRoute
    <2> HIDE DEF h
    <2> QED  BY <1>0, <2>1, <2>2, <2>3, RenderEffect DEF ViewOK
  <1>2. ASSUME BootConfig PROVE TypeOK'
    <2>1. ViewOK'
      <3>1. session \in Sessions
        BY <1>0 DEF SessionOK
      <3> QED  BY <1>2, <1>f, <1>v, <3>1 DEF BootConfig
    <2>2. boot' \in [at : {"config", "admin", "stats", "done"}, sent : Keys \cup {None},
                    admin : BOOLEAN]
      <3>1. boot' = [boot EXCEPT !.at = "admin", !.sent = stored] \/ boot' = Booted
        BY <1>2 DEF BootConfig
      <3>2. boot \in [at : {"config", "admin", "stats", "done"}, sent : Keys \cup {None},
                      admin : BOOLEAN] /\ stored \in Keys \cup {None}
        BY <1>0 DEF SessionOK
      <3>3. [boot EXCEPT !.at = "admin", !.sent = stored]
              \in [at : {"config", "admin", "stats", "done"}, sent : Keys \cup {None},
                   admin : BOOLEAN]
        BY <3>2
      <3>4. Booted \in [at : {"config", "admin", "stats", "done"}, sent : Keys \cup {None},
                         admin : BOOLEAN]
        BY DEF Booted
      <3> QED  BY <3>1, <3>3, <3>4
    <2>3. UNCHANGED <<keyState, stored, session, form, mail, later, first, crossed, acts>>
      BY <1>2 DEF BootConfig, signIn
    <2> QED  BY <1>0, <1>d, <2>1, <2>2, <2>3 DEF SessionOK
  <1>3. ASSUME BootAdmin PROVE TypeOK'
    <2>1. PICK admin \in {Accepts(boot.sent, "/admin/health"), FALSE} :
            /\ session' = [session EXCEPT !.admin = admin]
            /\ boot' = [at |-> "stats", sent |-> stored, admin |-> admin]
      BY <1>3 DEF BootAdmin, SetIsAdmin
    <2>2. admin \in BOOLEAN
      BY <2>1, AcceptsType
    <2>3. session' \in Sessions
      BY <1>0, <2>1, <2>2 DEF SessionOK, Sessions
    <2>4. UNCHANGED <<keyState, stored, view, signIn, crossed, acts>>
      BY <1>3 DEF BootAdmin
    <2> QED  BY <1>0, <1>d, <1>v, <2>1, <2>2, <2>3, <2>4 DEF SessionOK, signIn
  <1>4. ASSUME BootStats PROVE TypeOK'
    <2>1. PICK user \in {Accepts(boot.sent, "/dashboard"), FALSE} :
            /\ session' = [session EXCEPT !.adminOnly = boot.admin /\ ~user]
            /\ FirstRoute(session')
      BY <1>4 DEF BootStats
    <2>2. (boot.admin /\ ~user) \in BOOLEAN
      OBVIOUS
    <2>3. session' \in Sessions
      BY <1>0, <2>1, <2>2 DEF SessionOK, Sessions
    <2>4. UNCHANGED <<keyState, stored, signIn, crossed, acts>> /\ boot' = Booted
      BY <1>4 DEF BootStats
    <2>5. ViewOK'
      BY <1>f, <2>1, <2>3
    <2> QED  BY <1>0, <1>d, <2>3, <2>4, <2>5 DEF SessionOK, signIn, Booted
  <1> USE DEF SetApiKey, Logout, Booted
  <1>5. ASSUME NEW c \in calls, Answer(c) PROVE TypeOK'
    <2>1. c.path \in Paths /\ calls' = calls \ {c}
      BY <1>0, <1>5 DEF Answer, AnswerOk, Answer401, AnswerError, ViewOK
    <2>2. page' \in [path : Paths, shows : {"nothing", "spinner", "form", "data", "error"},
                     late : BOOLEAN]
      <3>1. (page.late \/ page.path # c.path) \in BOOLEAN
        OBVIOUS
      <3>2. \/ page' = page
            \/ \E s \in {"data", "error"} :
                 page' = [path |-> c.path, shows |-> s, late |-> page.late \/ page.path # c.path]
        BY <1>5 DEF Answer, AnswerOk, Answer401, AnswerError, Failed
      <3> HIDE <2>1
      <3>3. c.path \in Paths
        BY <2>1
      <3>4. CASE page' = page
        BY <1>0, <3>4 DEF ViewOK
      <3>5. ASSUME NEW s \in {"data", "error"},
                   page' = [path |-> c.path, shows |-> s,
                            late |-> page.late \/ page.path # c.path]
            PROVE  page' \in [path : Paths, late : BOOLEAN,
                              shows : {"nothing", "spinner", "form", "data", "error"}]
        BY <3>1, <3>3, <3>5
      <3> QED  BY <3>2, <3>4, <3>5
    <2>3. hash' \in Paths /\ due' \in BOOLEAN
      BY <1>0, <1>5, <1>p, NavigateType DEF Answer, AnswerOk, Answer401, AnswerError, ViewOK
    <2>4. ViewOK'
      <3>1. UNCHANGED <<head, viewed>>
        BY <1>5 DEF Answer, AnswerOk, Answer401, AnswerError
      <3> QED  BY <1>0, <2>1, <2>2, <2>3, <3>1 DEF ViewOK
    <2>5. SessionOK'
      <3>1. CASE Answer401(c)
        BY <1>0, <1>c, <1>n, <3>1 DEF Answer401, SessionOK, signIn
      <3>2. CASE AnswerOk(c) \/ AnswerError(c)
        BY <1>0, <3>2 DEF AnswerOk, AnswerError, SessionOK, signIn
      <3> QED  BY <1>5, <3>1, <3>2 DEF Answer
    <2> QED  BY <1>d, <2>4, <2>5
  <1>6. ASSUME NEW p \in Visits, Visit(p) PROVE TypeOK'
    <2>1. p \in Paths
      BY BrowserSessionAssumption, Zenon
    <2>2. ViewOK'
      BY <1>6, <1>h, <2>1 DEF Visit
    <2> QED  BY <1>0, <1>6, <1>a, <1>d, <2>2 DEF Visit, SessionOK, signIn
  <1>7. ASSUME ClickLogout PROVE TypeOK'
    <2>1. ViewOK'
      BY <1>7, <1>h, <1>p DEF ClickLogout
    <2> QED  BY <1>0, <1>7, <1>a, <1>c, <1>d, <1>n, <2>1 DEF ClickLogout, SessionOK, signIn
  <1>8. ASSUME NEW f \in Forms, NEW k \in Keys, SubmitKey(f, k) PROVE TypeOK'
    <2> DEFINE g == [at |-> "admin", key |-> k, sent |-> k, admin |-> FALSE]
    <2>1. g \in FormStates
      BY DEF FormStates
    <2>2. form' = [form EXCEPT ![f] = g] /\ session' = [session EXCEPT !.jwt = FALSE]
      BY <1>8 DEF SubmitKey, ClearJwt
    <2>3. session' \in Sessions
      BY <1>0, <2>2 DEF SessionOK, Sessions
    <2>4. ViewOK' /\ crossed' \in BOOLEAN /\ acts' \in 0 .. MaxActs
      BY <1>8, <1>a, <1>c, <1>v DEF SubmitKey
    <2> HIDE DEF g
    <2>5. form' \in [Forms -> FormStates]
      BY <1>0, <2>1, <2>2 DEF SessionOK
    <2> QED  BY <1>0, <1>8, <1>d, <2>3, <2>4, <2>5 DEF SubmitKey, SessionOK
  <1>9. ASSUME NEW f \in Forms, SigningInBy(f) PROVE TypeOK'
    <2>0. form[f] \in FormStates
      BY <1>0 DEF SessionOK
    <2>1. form' \in [Forms -> FormStates]
      <3>1. CASE KeyAdmin(f)
        <4>1. PICK admin \in {Accepts(form[f].sent, "/admin/health"), FALSE} :
                form' = [form EXCEPT ![f] = [at |-> "stats", key |-> form[f].key,
                                             sent |-> stored, admin |-> admin]]
          BY <3>1 DEF KeyAdmin
        <4>2. admin \in BOOLEAN
          BY <4>1, AcceptsType
        <4>3. [at |-> "stats", key |-> form[f].key, sent |-> stored, admin |-> admin]
                \in FormStates
          BY <1>0, <2>0, <4>2 DEF FormStates, SessionOK
        <4> QED  BY <1>0, <4>1, <4>3 DEF SessionOK
      <3>2. CASE KeyRefused(f) \/ KeyAccepted(f)
        BY <1>0, <1>n, <3>2 DEF KeyRefused, KeyAccepted, SessionOK
      <3> QED  BY <1>9, <3>1, <3>2 DEF SigningInBy
    <2>2. session' \in Sessions /\ stored' \in Keys \cup {None} /\ crossed' \in BOOLEAN
      <3>1. CASE KeyAdmin(f)
        BY <1>0, <3>1 DEF KeyAdmin, SessionOK
      <3>2. CASE KeyRefused(f)
        BY <1>0, <3>2 DEF KeyRefused, SessionOK
      <3>3. CASE KeyAccepted(f)
        <4>1. PICK user \in {Accepts(form[f].sent, "/dashboard"), FALSE} :
                /\ stored' = form[f].key
                /\ session' = [session EXCEPT !.key = form[f].key, !.auth = TRUE,
                                 !.admin = form[f].admin,
                                 !.adminOnly = form[f].admin /\ ~user]
          BY <3>3 DEF KeyAccepted
        <4>2. form[f].key \in Keys \cup {None} /\ form[f].admin \in BOOLEAN
          BY <2>0 DEF FormStates
        <4>3. (form[f].admin /\ ~user) \in BOOLEAN
          OBVIOUS
        <4>4. ASSUME NEW s \in Sessions, NEW k \in Keys \cup {None}, NEW a \in BOOLEAN,
                     NEW o \in BOOLEAN
              PROVE  [s EXCEPT !.key = k, !.auth = TRUE, !.admin = a, !.adminOnly = o]
                       \in Sessions
          BY <4>4 DEF Sessions
        <4>5. session' \in Sessions
          BY <1>0, <4>1, <4>2, <4>3, <4>4 DEF SessionOK
        <4>6. crossed' \in BOOLEAN
          BY <1>c, <3>3 DEF KeyAccepted
        <4> QED  BY <4>1, <4>2, <4>5, <4>6
      <3> QED  BY <1>9, <3>1, <3>2, <3>3 DEF SigningInBy
    <2>3. ViewOK'
      BY <1>9, <1>h, <1>p, <1>v DEF SigningInBy, KeyAdmin, KeyRefused, KeyAccepted
    <2>4. UNCHANGED <<keyState, boot, mail, later, first, acts>>
      BY <1>9 DEF SigningInBy, KeyAdmin, KeyRefused, KeyAccepted
    <2> QED  BY <1>0, <1>d, <2>1, <2>2, <2>3, <2>4 DEF SessionOK
  <1>10. ASSUME SubmitMail \/ MailRefused \/ FirstKeyAsk \/ FirstKeyFails \/ SubmitPublic
         PROVE  TypeOK'
    <2>1. ViewOK'
      BY <1>10, <1>v, <1>u
      DEF SubmitMail, MailRefused, FirstKeyAsk, FirstKeyFails, SubmitPublic, AuthError
    <2>2. SessionOK'
      BY <1>0, <1>10, <1>a
      DEF SubmitMail, MailRefused, FirstKeyAsk, FirstKeyFails, SubmitPublic, SessionOK
    <2> QED  BY <1>d, <2>1, <2>2
  <1>11. ASSUME MailAccepted PROVE TypeOK'
    <2>1. ViewOK' /\ crossed' \in BOOLEAN
      BY <1>11, <1>c, <1>h, <1>p, <1>u DEF MailAccepted
    <2>2. session' = [session EXCEPT !.jwt = TRUE, !.auth = TRUE]
      BY <1>11 DEF MailAccepted, SetJwt
    <2>3. session' \in Sessions
      BY <1>0, <2>2 DEF SessionOK, Sessions
    <2> QED  BY <1>0, <1>11, <1>d, <2>1, <2>3 DEF MailAccepted, SessionOK
  <1>12. ASSUME FirstKeySaved PROVE TypeOK'
    <2>1. ViewOK' /\ crossed' \in BOOLEAN /\ acts' \in 0 .. MaxActs
      BY <1>12, <1>a, <1>c, <1>h, <1>p DEF FirstKeySaved
    <2>2. first \in Keys /\ stored' = first
      BY <1>12, <1>k DEF FirstKeySaved
    <2>3. session' \in Sessions
      BY <1>12, <2>2 DEF FirstKeySaved, Sessions
    <2> QED  BY <1>0, <1>12, <1>d, <2>1, <2>2, <2>3 DEF FirstKeySaved, SessionOK
  <1>13. ASSUME PublicDone PROVE TypeOK'
    <2>1. ViewOK'
      BY <1>13, <1>h, <1>p, <1>u DEF PublicDone, BackToLogin, AuthError
    <2> QED  BY <1>0, <1>13, <1>d, <2>1 DEF PublicDone, SessionOK
  <1>14. ASSUME NEW k \in UserKeys, Revoke(k) \/ FirstKeyMade(k) PROVE TypeOK'
    <2>1. ViewOK'
      BY <1>14, <1>v DEF Revoke, FirstKeyMade
    <2> QED  BY <1>0, <1>14, <1>d, <2>1 DEF Revoke, FirstKeyMade, SessionOK, signIn
  <1>15. CASE UNCHANGED vars
    BY <1>0, <1>15, <1>d DEF vars, SessionOK, ViewOK
  <1> QED
    BY <1>1, <1>2, <1>3, <1>4, <1>5, <1>6, <1>7, <1>8, <1>9, <1>10, <1>11, <1>12, <1>13,
       <1>14, <1>15
    DEF Next, Booting

\* Every reachable state of BrowserSession is well typed (state.js, router.js,
\* app.js), for every value of the constants.
THEOREM TypeCorrect == Spec => []TypeOK
  <1> QED  BY TypeInit, TypeNext, PTL DEF Spec

---------------------------------------------------------------------------
(* The key the client sends. *)

\* No step leaves a key of another session in localStorage: whoever writes the
\* one place last writes the other with it, or clears it.
LEMMA StoredNext == TypeOK /\ StoredMatchesSession /\ [Next]_vars => StoredMatchesSession'
  <1> SUFFICES ASSUME TypeOK, StoredMatchesSession, [Next]_vars
               PROVE  StoredMatchesSession'
    OBVIOUS
  <1>0. session \in Sessions /\ form \in [Forms -> FormStates]
    BY TypeParts DEF SessionOK
  <1>i. IdleForm.at = "idle"
    BY DEF IdleForm
  <1>k. ASSUME NEW f \in Forms, stored' = session'.key, session'.auth
        PROVE  StoredMatchesSession'
    BY <1>k DEF StoredMatchesSession
  <1>n. ASSUME stored' = None PROVE StoredMatchesSession'
    BY <1>n DEF StoredMatchesSession
  <1>u. ASSUME UNCHANGED <<stored, form>>, session'.key = session.key,
               session.auth => session'.auth
        PROVE  StoredMatchesSession'
    BY <1>u DEF StoredMatchesSession, SigningIn
  <1>1. CASE Booting
    <2>1. UNCHANGED <<stored, form>>
      BY <1>1 DEF Booting, BootConfig, BootAdmin, BootStats, signIn
    <2>2. session'.key = session.key /\ session'.auth = session.auth
      <3>1. CASE BootConfig
        BY <3>1 DEF BootConfig
      <3>2. CASE BootAdmin
        <4>1. PICK admin : session' = [session EXCEPT !.admin = admin]
          BY <3>2 DEF BootAdmin, SetIsAdmin
        <4> QED  BY <1>0, <4>1 DEF Sessions
      <3>3. CASE BootStats
        <4>1. PICK o : session' = [session EXCEPT !.adminOnly = o]
          BY <3>3 DEF BootStats
        <4> QED  BY <1>0, <4>1 DEF Sessions
      <3> QED  BY <1>1, <3>1, <3>2, <3>3 DEF Booting
    <2> QED  BY <1>u, <2>1, <2>2
  <1>2. CASE HashChange
    BY <1>2, <1>u DEF HashChange, signIn
  <1>3. ASSUME NEW c \in calls, Answer(c) PROVE StoredMatchesSession'
    <2>1. CASE Answer401(c)
      BY <1>n, <2>1 DEF Answer401, Logout
    <2>2. CASE AnswerOk(c) \/ AnswerError(c)
      BY <1>u, <2>2 DEF AnswerOk, AnswerError, signIn
    <2> QED  BY <1>3, <2>1, <2>2 DEF Answer
  <1>4. ASSUME NEW p \in Visits, Visit(p) PROVE StoredMatchesSession'
    BY <1>4, <1>u DEF Visit, signIn
  <1>5. CASE ClickLogout
    BY <1>5, <1>n DEF ClickLogout, Logout
  <1>6. ASSUME NEW f \in Forms, SigningInBy(f) PROVE StoredMatchesSession'
    <2>1. CASE KeyAdmin(f)
      <3>1. form'[f].at = "stats"
        BY <1>0, <2>1 DEF KeyAdmin
      <3> QED  BY <3>1 DEF StoredMatchesSession, SigningIn
    <2>2. CASE KeyRefused(f)
      BY <1>n, <2>2 DEF KeyRefused
    <2>3. CASE KeyAccepted(f)
      <3>1. PICK user : SetApiKey(form[f].key, form[f].admin, form[f].admin /\ ~user)
        BY <2>3 DEF KeyAccepted
      <3>2. stored' = session'.key /\ session'.auth
        BY <1>0, <3>1 DEF SetApiKey, Sessions
      <3> QED  BY <1>k, <3>2
    <2> QED  BY <1>6, <2>1, <2>2, <2>3 DEF SigningInBy
  <1>7. ASSUME NEW f \in Forms, NEW k \in Keys, SubmitKey(f, k)
        PROVE  StoredMatchesSession'
    <2>1. form'[f].at = "admin"
      BY <1>0, <1>7 DEF SubmitKey
    <2> QED  BY <2>1 DEF StoredMatchesSession, SigningIn
  <1>8. CASE MailAccepted
    <2>1. UNCHANGED <<stored, form>> /\ session' = [session EXCEPT !.jwt = TRUE, !.auth = TRUE]
      BY <1>8 DEF MailAccepted, SetJwt
    <2>2. session'.key = session.key /\ session'.auth
      BY <1>0, <2>1 DEF Sessions
    <2> QED  BY <1>u, <2>1, <2>2
  <1>9. CASE FirstKeySaved
    <2>1. stored' = session'.key /\ session'.auth
      BY <1>9 DEF FirstKeySaved
    <2> QED  BY <2>1 DEF StoredMatchesSession
  <1>10. CASE SubmitMail \/ MailRefused \/ FirstKeyAsk \/ FirstKeyFails \/ SubmitPublic
                \/ PublicDone
    BY <1>10, <1>u DEF SubmitMail, MailRefused, FirstKeyAsk, FirstKeyFails, SubmitPublic,
                       PublicDone
  <1>11. ASSUME NEW k \in UserKeys, Revoke(k) \/ FirstKeyMade(k)
         PROVE  StoredMatchesSession'
    BY <1>11, <1>u DEF Revoke, FirstKeyMade, signIn
  <1>12. CASE UNCHANGED vars
    BY <1>12, <1>u DEF vars
  <1> QED
    BY <1>1, <1>2, <1>3, <1>4, <1>5, <1>6, <1>7, <1>8, <1>9, <1>10, <1>11, <1>12 DEF Next

\* The key the client sends (client.js reads localStorage) is the key of the
\* session it shows, or none, whenever no key form is being tried (state.js,
\* login.js, client.js).
THEOREM StoredMatchesSessionAlways == Spec => []StoredMatchesSession
  <1>1. Init => StoredMatchesSession
    <2> SUFFICES ASSUME Init PROVE StoredMatchesSession
      OBVIOUS
    <2>1. PICK jwt \in BOOLEAN :
            session = [NoSession EXCEPT !.key = stored, !.jwt = jwt,
                                        !.auth = (stored # None \/ jwt)]
      BY DEF Init
    <2>2. session.key = stored /\ (~session.auth => stored = None)
      BY <2>1 DEF NoSession
    <2> QED  BY <2>2 DEF StoredMatchesSession
  <1> QED  BY <1>1, TypeCorrect, StoredNext, PTL DEF Spec

---------------------------------------------------------------------------
(* Who is offered the console. *)

\* What a waiting start-up knows of the session it will write to: nobody else has
\* written to it.
StartUp ==
  /\ boot.at # "done" => stored = session.key /\ \A f \in Forms : ~SigningIn(f)
  /\ boot.at = "config" => ~session.adminOnly
  /\ boot.at = "admin" => boot.sent = session.key
  /\ boot.at = "stats" => session.admin = boot.admin
\* What a waiting key form knows: the first question is asked with its own key.
KeyForms ==
  \A f \in Forms :
    /\ form[f].at = "admin" => form[f].sent = form[f].key
    /\ form[f].at = "stats" /\ form[f].admin => form[f].key \in AdminKeys
Console == (~crossed => StartUp) /\ KeyForms /\ ConsoleForAdmins

\* The console accepts an administrator's key only.
LEMMA AdminAnswer ==
  ASSUME NEW k, NEW admin \in {Accepts(k, "/admin/health"), FALSE}, admin
  PROVE  k \in AdminKeys
  BY DEF Accepts, AdminPaths

\* Every step keeps what start-ups and key forms know.
LEMMA ConsoleNext == TypeOK /\ Console /\ [Next]_vars => Console'
  <1> SUFFICES ASSUME TypeOK, Console, [Next]_vars PROVE Console'
    OBVIOUS
  <1>0. /\ session \in Sessions /\ form \in [Forms -> FormStates] /\ crossed \in BOOLEAN
        /\ boot \in [at : {"config", "admin", "stats", "done"}, sent : Keys \cup {None},
                     admin : BOOLEAN]
    BY TypeParts DEF SessionOK
  <1>i. IdleForm.at = "idle" /\ Booted.at = "done"
    BY DEF IdleForm, Booted
  <1>n. ~NoSession.admin /\ ~NoSession.adminOnly
    BY DEF NoSession
  \* A step that leaves the console's flags, start-up and forms alone.
  <1>u. ASSUME UNCHANGED <<stored, form, boot>>, crossed => crossed',
               session'.key = session.key, session'.admin = session.admin,
               session'.adminOnly = session.adminOnly
        PROVE  Console'
    BY <1>u DEF Console, StartUp, KeyForms, ConsoleForAdmins, SigningIn
  \* A session is ended or replaced by one that is offered nothing.
  <1>e. ASSUME UNCHANGED <<form, boot>>, Crosses({}), ~session'.admin, ~session'.adminOnly
        PROVE  Console'
    <2>1. ~crossed' => boot'.at = "done"
      BY <1>e DEF Crosses
    <2> QED  BY <1>e, <2>1 DEF Console, StartUp, KeyForms, ConsoleForAdmins
  <1>1. CASE BootConfig
    <2>1. UNCHANGED <<stored, session, form, crossed>> /\ boot.at = "config"
      BY <1>1 DEF BootConfig, signIn
    <2>2. boot' = [boot EXCEPT !.at = "admin", !.sent = stored] \/ boot' = Booted
      BY <1>1 DEF BootConfig
    <2>3. boot'.at = "done" \/ (boot'.at = "admin" /\ boot'.sent = stored)
      BY <1>0, <1>i, <2>2
    <2> QED  BY <2>1, <2>3 DEF Console, StartUp, KeyForms, ConsoleForAdmins, SigningIn
  <1>2. CASE BootAdmin
    <2>1. UNCHANGED <<stored, form, crossed>> /\ boot.at = "admin"
      BY <1>2 DEF BootAdmin, signIn
    <2>2. PICK admin \in {Accepts(boot.sent, "/admin/health"), FALSE} :
            /\ session' = [session EXCEPT !.admin = admin]
            /\ boot' = [at |-> "stats", sent |-> stored, admin |-> admin]
      BY <1>2 DEF BootAdmin, SetIsAdmin
    <2>3. boot'.at = "stats" /\ boot'.admin = admin
      BY <2>2
    <2>4. session'.key = session.key /\ session'.admin = admin
      BY <1>0, <2>2 DEF Sessions
    <2>5. ~crossed => (admin => session.key \in AdminKeys)
      BY <2>1, <2>2, AdminAnswer DEF Console, StartUp
    <2> QED  BY <2>1, <2>3, <2>4, <2>5
             DEF Console, StartUp, KeyForms, ConsoleForAdmins, SigningIn
  <1>3. CASE BootStats
    <2>1. UNCHANGED <<stored, form, crossed>> /\ boot.at = "stats" /\ boot' = Booted
      BY <1>3 DEF BootStats, signIn
    <2>2. PICK user : session' = [session EXCEPT !.adminOnly = boot.admin /\ ~user]
      BY <1>3 DEF BootStats
    <2>3. /\ session'.key = session.key /\ session'.admin = session.admin
          /\ session'.adminOnly = (boot.admin /\ ~user)
      BY <1>0, <2>2 DEF Sessions
    <2> QED  BY <1>i, <2>1, <2>3
             DEF Console, StartUp, KeyForms, ConsoleForAdmins, SigningIn
  <1>4. CASE HashChange
    BY <1>4, <1>u DEF HashChange, signIn
  <1>5. ASSUME NEW c \in calls, Answer(c) PROVE Console'
    <2>1. CASE Answer401(c)
      BY <1>e, <1>n, <2>1 DEF Answer401, Logout, signIn
    <2>2. CASE AnswerOk(c) \/ AnswerError(c)
      BY <1>u, <2>2 DEF AnswerOk, AnswerError, signIn
    <2> QED  BY <1>5, <2>1, <2>2 DEF Answer
  <1>6. ASSUME NEW p \in Visits, Visit(p) PROVE Console'
    BY <1>6, <1>u DEF Visit, signIn
  <1>7. CASE ClickLogout
    BY <1>7, <1>e, <1>n DEF ClickLogout, Logout, signIn
  <1>8. ASSUME NEW f \in Forms, SigningInBy(f) PROVE Console'
    <2>1. CASE KeyAdmin(f)
      <3>1. UNCHANGED <<stored, session, boot, crossed>> /\ form[f].at = "admin"
        BY <2>1 DEF KeyAdmin
      <3>2. PICK admin \in {Accepts(form[f].sent, "/admin/health"), FALSE} :
              form' = [form EXCEPT ![f] = [at |-> "stats", key |-> form[f].key,
                                           sent |-> stored, admin |-> admin]]
        BY <2>1 DEF KeyAdmin
      <3>3. admin => form[f].key \in AdminKeys
        BY <3>1, <3>2, AdminAnswer DEF Console, KeyForms
      <3>4. KeyForms'
        <4> SUFFICES ASSUME NEW g \in Forms
                     PROVE  /\ form'[g].at = "admin" => form'[g].sent = form'[g].key
                            /\ form'[g].at = "stats" /\ form'[g].admin
                                 => form'[g].key \in AdminKeys
          BY DEF KeyForms
        <4>1. CASE g = f
          <5>1. /\ form'[f].at = "stats" /\ form'[f].key = form[f].key
                /\ form'[f].admin = admin
            BY <1>0, <3>2
          <5> QED  BY <3>3, <4>1, <5>1
        <4>2. CASE g # f
          BY <1>0, <3>2, <4>2 DEF Console, KeyForms
        <4> QED  BY <4>1, <4>2
      <3>5. ~crossed => boot.at = "done"
        BY <3>1 DEF Console, StartUp, SigningIn
      <3> QED  BY <3>1, <3>4, <3>5 DEF Console, StartUp, ConsoleForAdmins
    <2>2. CASE KeyRefused(f)
      <3>1. UNCHANGED <<session, boot, crossed>> /\ form[f].at = "stats"
        BY <2>2 DEF KeyRefused
      <3>2. KeyForms'
        BY <1>0, <1>i, <2>2 DEF KeyRefused, Console, KeyForms
      <3>3. ~crossed => boot.at = "done"
        BY <3>1 DEF Console, StartUp, SigningIn
      <3> QED  BY <3>1, <3>2, <3>3 DEF Console, StartUp, ConsoleForAdmins
    <2>3. CASE KeyAccepted(f)
      <3>1. PICK user : SetApiKey(form[f].key, form[f].admin, form[f].admin /\ ~user)
        BY <2>3 DEF KeyAccepted
      <3>2. session' = [session EXCEPT !.key = form[f].key, !.auth = TRUE,
                                       !.admin = form[f].admin,
                                       !.adminOnly = form[f].admin /\ ~user]
        BY <3>1 DEF SetApiKey
      <3>3. /\ session'.key = form[f].key /\ session'.admin = form[f].admin
            /\ session'.adminOnly = (form[f].admin /\ ~user)
        BY <1>0, <3>2 DEF Sessions
      <3>4. KeyForms'
        BY <1>0, <1>i, <2>3 DEF KeyAccepted, Console, KeyForms
      <3>5. form[f].at = "stats" /\ boot' = boot /\ (~crossed' => boot.at = "done")
        BY <2>3 DEF KeyAccepted, Crosses
      <3>6. form[f].admin => form[f].key \in AdminKeys
        BY <3>5 DEF Console, KeyForms
      <3> QED  BY <3>3, <3>4, <3>5, <3>6 DEF Console, StartUp, ConsoleForAdmins
    <2> QED  BY <1>8, <2>1, <2>2, <2>3 DEF SigningInBy
  <1>9. ASSUME NEW f \in Forms, NEW k \in Keys, SubmitKey(f, k) PROVE Console'
    <2>1. /\ session' = [session EXCEPT !.jwt = FALSE]
          /\ boot' = boot /\ (~crossed' => ~crossed /\ boot.at = "done")
      BY <1>0, <1>9 DEF SubmitKey, ClearJwt, Crosses, view
    <2>2. /\ session'.key = session.key /\ session'.admin = session.admin
          /\ session'.adminOnly = session.adminOnly
      BY <1>0, <2>1 DEF Sessions
    <2>3. form' = [form EXCEPT ![f] = [at |-> "admin", key |-> k, sent |-> k,
                                       admin |-> FALSE]]
      BY <1>9 DEF SubmitKey
    <2>4. KeyForms'
      <3> SUFFICES ASSUME NEW g \in Forms
                   PROVE  /\ form'[g].at = "admin" => form'[g].sent = form'[g].key
                          /\ form'[g].at = "stats" /\ form'[g].admin
                               => form'[g].key \in AdminKeys
        BY DEF KeyForms
      <3>1. CASE g = f
        <4>1. form'[f].at = "admin" /\ form'[f].sent = form'[f].key
          BY <1>0, <2>3
        <4> QED  BY <3>1, <4>1
      <3>2. CASE g # f
        BY <1>0, <2>3, <3>2 DEF Console, KeyForms
      <3> QED  BY <3>1, <3>2
    <2> QED  BY <2>1, <2>2, <2>4 DEF Console, StartUp, ConsoleForAdmins
  <1>10. CASE MailAccepted
    <2>1. /\ UNCHANGED <<stored, form, boot>>
          /\ session' = [session EXCEPT !.jwt = TRUE, !.auth = TRUE]
      BY <1>10 DEF MailAccepted, SetJwt
    <2>2. /\ session'.key = session.key /\ session'.admin = session.admin
          /\ session'.adminOnly = session.adminOnly
      BY <1>0, <2>1 DEF Sessions
    <2>3. crossed => crossed'
      BY <1>10 DEF MailAccepted, Crosses
    <2> QED  BY <1>u, <2>1, <2>2, <2>3
  <1>11. CASE FirstKeySaved
    BY <1>11, <1>e DEF FirstKeySaved
  <1>12. CASE SubmitMail \/ MailRefused \/ FirstKeyAsk \/ FirstKeyFails \/ SubmitPublic
                \/ PublicDone
    BY <1>12, <1>u DEF SubmitMail, MailRefused, FirstKeyAsk, FirstKeyFails, SubmitPublic,
                       PublicDone
  <1>13. ASSUME NEW k \in UserKeys, Revoke(k) \/ FirstKeyMade(k) PROVE Console'
    BY <1>13, <1>u DEF Revoke, FirstKeyMade, signIn
  <1>14. CASE UNCHANGED vars
    BY <1>14, <1>u DEF vars
  <1> QED
    BY <1>1, <1>2, <1>3, <1>4, <1>5, <1>6, <1>7, <1>8, <1>9, <1>10, <1>11, <1>12, <1>13,
       <1>14
    DEF Next, Booting

\* The console is offered to an administrator's key only, and a session confined
\* to it has one, unless a session changed under a waiting start-up or sign-in
\* (app.js, login.js).
THEOREM ConsoleForAdminsAlways == Spec => []ConsoleForAdmins
  <1>1. Init => Console
    <2> SUFFICES ASSUME Init PROVE Console
      OBVIOUS
    <2>1. PICK jwt \in BOOLEAN :
            session = [NoSession EXCEPT !.key = stored, !.jwt = jwt,
                                        !.auth = (stored # None \/ jwt)]
      BY DEF Init
    <2>2. session.key = stored /\ ~session.admin /\ ~session.adminOnly
      BY <2>1 DEF NoSession
    <2>3. boot.at = "config" /\ \A f \in Forms : form[f].at = "idle"
      BY DEF Init, IdleForm
    <2> QED  BY <2>2, <2>3 DEF Console, StartUp, KeyForms, ConsoleForAdmins, SigningIn
  <1>2. Console => ConsoleForAdmins
    BY DEF Console
  <1> QED  BY <1>1, <1>2, TypeCorrect, ConsoleNext, PTL DEF Spec

---------------------------------------------------------------------------
(* The page and the address bar. *)

\* What a settled screen says of its address.
Shown ==
  /\ ~page.late => page.path = hash
  /\ head.of = HeadOf(hash)
  /\ hash \notin AdminPaths => viewed = hash
Admitted ==
  /\ hash \notin PublicPaths => session.auth
  /\ ~crossed /\ hash \in AdminPaths => session.admin
\* After the first route there always is an address.
Addressed == boot.at = "done" => hash # "" /\ (~due => Shown /\ Admitted)

\* A run of renderRoute after which nothing is queued has settled.
LEMMA RenderSettles ==
  ASSUME ViewOK, NEW s \in Sessions, NEW key \in Keys \cup {None}, NEW h \in Paths,
         h # "", Render(h, s, key, TRUE),
         session' = s
  PROVE  hash' # "" /\ (hash' = h => Shown' /\ Admitted')
  <1>1. /\ hash' # h => hash' # ""
        /\ hash' = h =>
              /\ page'.path = h /\ head'.of = HeadOf(h)
              /\ h \notin AdminPaths => viewed' = h
              /\ h \notin PublicPaths => s.auth
              /\ h \in AdminPaths => s.admin
    <2>1. TRUE \in BOOLEAN
      OBVIOUS
    <2> QED  BY <2>1, RenderEffect
  <1>2. ASSUME hash' = h PROVE Shown' /\ Admitted'
    BY <1>1, <1>2 DEF Shown, Admitted, HeadOf
  <1> QED  BY <1>1, <1>2

\* Every step keeps the page at its address.
LEMMA AddressedNext == TypeOK /\ Addressed /\ [Next]_vars => Addressed'
  <1> SUFFICES ASSUME TypeOK, Addressed, [Next]_vars PROVE Addressed'
    OBVIOUS
  <1>0. /\ ViewOK /\ session \in Sessions /\ stored \in Keys \cup {None}
        /\ form \in [Forms -> FormStates] /\ hash \in Paths
        /\ boot \in [at : {"config", "admin", "stats", "done"}, sent : Keys \cup {None},
                     admin : BOOLEAN]
    BY TypeParts DEF SessionOK, ViewOK
  <1>p. {"/login", "/keys", "/dashboard", "/admin/health"} \subseteq Paths \ {""}
    BY DEF Paths, Routes, PublicPaths, AdminPaths, DetailPages, UserPages
  <1>l. /\ "/login" \in PublicPaths /\ "/login" \notin AdminPaths
        /\ "/dashboard" \notin AdminPaths /\ "/keys" \notin AdminPaths
    BY DEF PublicPaths, AdminPaths, DetailPages
  \* A step that draws nothing and keeps the address and the rights.
  <1>u. ASSUME UNCHANGED view, boot'.at = boot.at, crossed => crossed',
               session.auth => session'.auth, session.admin => session'.admin
        PROVE  Addressed'
    BY <1>u DEF Addressed, Shown, Admitted, HeadOf, view
  \* A step that sends the user to p, where the session may go.
  <1>g. ASSUME NEW p, p # "", Navigate(p), UNCHANGED <<page, head, viewed, boot>>,
               p \notin PublicPaths => session'.auth,
               p \in AdminPaths => session'.admin
        PROVE  Addressed'
    <2>1. hash' = p /\ (~due' => ~due /\ hash = p)
      BY <1>0, <1>g DEF Navigate, ViewOK
    <2> QED  BY <1>g, <2>1 DEF Addressed, Shown, Admitted, HeadOf
  <1>f. ASSUME FirstRoute(session') , session' \in Sessions PROVE Addressed'
    <2> DEFINE h == IF hash = "" THEN DefaultHash(session') ELSE hash
    <2>1. h \in Paths /\ h # ""
      BY <1>0, <1>p DEF DefaultHash
    <2>2. Render(h, session', stored, TRUE) /\ due' = (due \/ hash' # hash)
      BY <1>f DEF FirstRoute
    <2>3. h # hash => hash = ""
      OBVIOUS
    <2> HIDE DEF h
    <2>4. hash' # "" /\ (hash' = h => Shown' /\ Admitted')
      BY <1>0, <1>f, <2>1, <2>2, RenderSettles
    <2>5. ~due' => hash' = h
      BY <2>2, <2>3, <2>4
    <2> QED  BY <2>4, <2>5 DEF Addressed
  <1>1. CASE BootConfig
    <2>1. CASE session.auth
      <3>1. boot' = [boot EXCEPT !.at = "admin", !.sent = stored]
        BY <1>1, <2>1 DEF BootConfig
      <3>2. boot'.at = "admin"
        BY <1>0, <3>1
      <3> QED  BY <3>2 DEF Addressed
    <2>2. CASE ~session.auth
      <3>1. FirstRoute(session) /\ session' = session
        BY <1>1, <2>2 DEF BootConfig
      <3> QED  BY <1>0, <1>f, <3>1
    <2> QED  BY <2>1, <2>2
  <1>2. CASE BootAdmin
    <2>1. boot'.at = "stats"
      BY <1>2 DEF BootAdmin
    <2> QED  BY <2>1 DEF Addressed
  <1>3. CASE BootStats
    <2>1. PICK user \in {Accepts(boot.sent, "/dashboard"), FALSE} :
            /\ session' = [session EXCEPT !.adminOnly = boot.admin /\ ~user]
            /\ FirstRoute(session')
      BY <1>3 DEF BootStats
    <2>2. (boot.admin /\ ~user) \in BOOLEAN
      OBVIOUS
    <2>3. session' \in Sessions
      BY <1>0, <2>1, <2>2 DEF Sessions
    <2> QED  BY <1>f, <2>1, <2>3
  <1>4. CASE HashChange
    <2>1. /\ Render(hash, session, stored, boot.at # "config") /\ due' = (hash' # hash)
          /\ session' = session /\ boot' = boot
      BY <1>4 DEF HashChange
    <2>2. ASSUME boot.at = "done" PROVE hash' # "" /\ (hash' = hash => Shown' /\ Admitted')
      <3>1. hash # "" /\ Render(hash, session, stored, TRUE)
        BY <2>1, <2>2 DEF Addressed
      <3> QED  BY <1>0, <2>1, <3>1, RenderSettles
    <2> QED  BY <2>1, <2>2 DEF Addressed
  <1>5. ASSUME NEW c \in calls, Answer(c) PROVE Addressed'
    <2>1. page' = page \/ \E s : page' = [path |-> c.path, shows |-> s,
                                          late |-> page.late \/ page.path # c.path]
      BY <1>5 DEF Answer, AnswerOk, Answer401, AnswerError, Failed
    <2>2. ~page'.late => ~page.late /\ page'.path = page.path
      <3>1. CASE page' = page
        BY <3>1
      <3>2. ASSUME NEW s, page' = [path |-> c.path, shows |-> s,
                                   late |-> page.late \/ page.path # c.path]
            PROVE  ~page'.late => ~page.late /\ page'.path = page.path
        <4>1. page'.path = c.path /\ page'.late = (page.late \/ page.path # c.path)
          BY <3>2
        <4> QED  BY <4>1
      <3> QED  BY <2>1, <3>1, <3>2
    <2>3. UNCHANGED <<head, viewed, boot>>
      BY <1>5 DEF Answer, AnswerOk, Answer401, AnswerError
    <2>4. CASE Answer401(c)
      <3>1. hash' = "/login" /\ (~due' => ~due /\ hash = "/login")
        BY <1>0, <2>4 DEF Answer401, Navigate, ViewOK
      <3> QED  BY <1>l, <2>2, <2>3, <3>1 DEF Addressed, Shown, Admitted, HeadOf
    <2>5. CASE AnswerOk(c) \/ AnswerError(c)
      <3>1. UNCHANGED <<hash, due, session, crossed>>
        BY <2>5 DEF AnswerOk, AnswerError
      <3> QED  BY <2>2, <2>3, <3>1 DEF Addressed, Shown, Admitted, HeadOf
    <2> QED  BY <1>5, <2>4, <2>5 DEF Answer
  <1>6. ASSUME NEW p \in Visits, Visit(p) PROVE Addressed'
    <2>1. p # ""
      BY BrowserSessionAssumption, Zenon
    <2>2. hash' = p /\ due' /\ boot' = boot
      BY <1>6 DEF Visit, Navigate
    <2> QED  BY <2>1, <2>2 DEF Addressed
  <1>7. CASE ClickLogout
    BY <1>7, <1>g, <1>l, <1>p DEF ClickLogout
  <1>8. ASSUME NEW f \in Forms, SigningInBy(f) PROVE Addressed'
    <2>1. CASE KeyAdmin(f) \/ KeyRefused(f)
      BY <1>u, <2>1 DEF KeyAdmin, KeyRefused
    <2>2. CASE KeyAccepted(f)
      <3>1. PICK user \in {Accepts(form[f].sent, "/dashboard"), FALSE} :
              /\ user \/ form[f].admin
              /\ SetApiKey(form[f].key, form[f].admin, form[f].admin /\ ~user)
              /\ Navigate(IF user THEN "/dashboard" ELSE "/admin/health")
        BY <2>2 DEF KeyAccepted
      <3>2. session' = [session EXCEPT !.key = form[f].key, !.auth = TRUE,
                                       !.admin = form[f].admin,
                                       !.adminOnly = form[f].admin /\ ~user]
        BY <3>1 DEF SetApiKey
      <3>3. session'.auth /\ session'.admin = form[f].admin
        BY <1>0, <3>2 DEF Sessions
      <3>4. UNCHANGED <<page, head, viewed, boot>>
        BY <2>2 DEF KeyAccepted
      <3>5. CASE user
        BY <1>g, <1>l, <1>p, <3>1, <3>3, <3>4, <3>5
      <3>6. CASE ~user
        BY <1>g, <1>p, <3>1, <3>3, <3>4, <3>6
      <3> QED  BY <3>5, <3>6
    <2> QED  BY <1>8, <2>1, <2>2 DEF SigningInBy
  <1>9. ASSUME NEW f \in Forms, NEW k \in Keys, SubmitKey(f, k) PROVE Addressed'
    <2>1. session' = [session EXCEPT !.jwt = FALSE]
      BY <1>9 DEF SubmitKey, ClearJwt
    <2>2. session'.auth = session.auth /\ session'.admin = session.admin
      BY <1>0, <2>1 DEF Sessions
    <2>3. UNCHANGED view /\ boot' = boot /\ (crossed => crossed')
      BY <1>9 DEF SubmitKey, Crosses
    <2> QED  BY <1>u, <2>2, <2>3
  <1>10. CASE MailAccepted
    <2>1. session' = [session EXCEPT !.jwt = TRUE, !.auth = TRUE]
      BY <1>10 DEF MailAccepted, SetJwt
    <2>2. session'.auth /\ session'.admin = session.admin
      BY <1>0, <2>1 DEF Sessions
    <2>3. UNCHANGED <<page, head, viewed, calls, boot>> /\ (crossed => crossed')
      BY <1>10 DEF MailAccepted, Crosses
    <2>4. CASE Navigate("/keys")
      BY <1>g, <1>l, <1>p, <2>2, <2>3, <2>4
    <2>5. CASE UNCHANGED <<hash, due>>
      BY <1>u, <2>2, <2>3, <2>5 DEF view
    <2> QED  BY <1>10, <2>4, <2>5 DEF MailAccepted
  <1>11. CASE FirstKeySaved
    <2>1. session'.auth
      BY <1>11 DEF FirstKeySaved
    <2> QED  BY <1>11, <1>g, <1>l, <1>p, <2>1 DEF FirstKeySaved
  <1>12. CASE SubmitMail \/ MailRefused \/ FirstKeyAsk \/ FirstKeyFails \/ SubmitPublic
    BY <1>12, <1>u DEF SubmitMail, MailRefused, FirstKeyAsk, FirstKeyFails, SubmitPublic,
                       AuthError, view
  <1>13. CASE PublicDone
    <2>1. CASE BackToLogin
      BY <1>13, <1>g, <1>l, <1>p, <2>1 DEF PublicDone, BackToLogin
    <2>2. CASE AuthError
      BY <1>13, <1>u, <2>2 DEF PublicDone, AuthError, view
    <2> QED  BY <1>13, <2>1, <2>2 DEF PublicDone
  <1>14. ASSUME NEW k \in UserKeys, Revoke(k) \/ FirstKeyMade(k) PROVE Addressed'
    BY <1>14, <1>u DEF Revoke, FirstKeyMade
  <1>15. CASE UNCHANGED vars
    BY <1>15, <1>u DEF vars, view
  <1> QED
    BY <1>1, <1>2, <1>3, <1>4, <1>5, <1>6, <1>7, <1>8, <1>9, <1>10, <1>11, <1>12, <1>13,
       <1>14, <1>15
    DEF Next, Booting

\* With nothing queued the screen, the head of the document and the analytics are
\* those of the address, and the session may be there (router.js, app.js, seo.js).
THEOREM PageIsAddressedAlways == Spec => []PageIsAddressed
  <1>1. Init => Addressed
    <2> SUFFICES ASSUME Init PROVE Addressed
      OBVIOUS
    <2>1. boot = [at |-> "config", sent |-> None, admin |-> FALSE]
      BY DEF Init
    <2>2. boot.at = "config"
      BY <2>1
    <2> QED  BY <2>2 DEF Addressed
  <1>2. Addressed => PageIsAddressed
    BY DEF Addressed, Shown, Admitted, PageIsAddressed
  <1> QED  BY <1>1, <1>2, TypeCorrect, AddressedNext, PTL DEF Spec

=============================================================================
