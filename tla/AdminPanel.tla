----------------------------- MODULE AdminPanel -----------------------------
(***************************************************************************)
(* The sessions of the admin panel (internal/admin/handler.go) and the     *)
(* tabs of one browser that use them (internal/admin/web).  The tabs share *)
(* one cookie; each page keeps the CSRF token it was rendered with.  A     *)
(* request carries the cookie and the token of the moment it is sent, and  *)
(* sessions begin, expire and end while it is under way.                   *)
(*                                                                         *)
(* An id stands for a session with its CSRF token, both random: a token is *)
(* written as the id of its session.  Requests with a bearer token keep no *)
(* state and are left out.                                                 *)
(***************************************************************************)
EXTENDS Naturals, FiniteSets

CONSTANTS Tabs, Ids, None,
          Fetching  \* bound: how many calls of pages are under way at once
ASSUME PanelAssumption ==
    Ids \subseteq Nat /\ None \notin Ids /\ Fetching \in Nat \ {0}

VARIABLES sessions,  \* of each id: what h.sessions knows of it
          cookie,    \* tunnl_admin_session in the browser
          page,      \* of each tab: what it shows
          csrf,      \* of each tab: the token in the page it shows
          requests   \* the requests under way

vars == <<sessions, cookie, page, csrf, requests>>

\* "expired" is over and still in the map, "deleted" is no longer in it.
SessionStates == {"unused", "live", "expired", "deleted"}
Pages == {"blank", "loading", "form", "panel"}
Loads == {"/", "/login", "sign in"}
Mutations == {"change", "logout"}
Fetches == Mutations \cup {"poll"}
\* How far a request is: sent, past requireAuth, or which answer it got.
Progress == {"sent", "let in", "401", "redirect", "panel", "form",
             "refused", "signed in", "logged out"}
\* here: the page that sent it is still shown.  late: the session of its
\* cookie was over when it was sent (a history field, until it is refused).
Requests == [tab : Tabs, kind : Loads \cup Fetches, at : Progress,
             cookie : Ids \cup {None}, csrf : Ids \cup {None},
             here : BOOLEAN, late : BOOLEAN]

Live(s) == s # None /\ sessions[s] = "live"
Of(t, kinds) == {r \in requests : r.tab = t /\ r.kind \in kinds}

Init == /\ sessions = [s \in Ids |-> "unused"]
        /\ cookie = None
        /\ page = [t \in Tabs |-> "blank"]
        /\ csrf = [t \in Tabs |-> None]
        /\ requests = {}

-----------------------------------------------------------------------------
(* The handlers.                                                           *)

\* Faulty variant: an expired session is still accepted.
AuthorizedWhenExpired(r) ==
    r.cookie # None /\ sessions[r.cookie] \in {"live", "expired"}

\* authorize, by the cookie: whether it succeeds, and the map after it failed.
Authorized(r) == Live(r.cookie)
Without(s) == [i \in Ids |-> IF i = s THEN "deleted" ELSE sessions[i]]
AfterAuthorize(r) == IF Authorized(r) THEN sessions ELSE Without(r.cookie)

Reply(r, s) == requests' = (requests \ {r}) \cup {s}
Answer(r, at) == Reply(r, [r EXCEPT !.at = at, !.cookie = None, !.late = FALSE])
\* An answer that the page only displays ends the request.
Display(r) == requests' = requests \ {r}

\* Faulty variant: the CSRF token is not compared.
RequireAuthUnprotected(r) ==
    /\ r.at = "sent" /\ r.kind \in Fetches \cup {"/"}
    /\ sessions' = AfterAuthorize(r)
    /\ IF Authorized(r) THEN Reply(r, [r EXCEPT !.at = "let in"])
       ELSE CASE r.kind = "/" -> Answer(r, "redirect")
              [] r.kind = "logout" -> Display(r)
              [] OTHER -> Answer(r, "401")

\* Faulty variant: the API redirects to /login as the pages do.
RequireAuthRedirects(r) ==
    /\ r.at = "sent" /\ r.kind \in Fetches \cup {"/"}
    /\ sessions' = AfterAuthorize(r)
    /\ \/ /\ ~Authorized(r) /\ r.kind = "/"
          /\ Answer(r, "redirect")
       \/ /\ \/ ~Authorized(r) /\ r.kind \in Fetches
             \/ Authorized(r) /\ r.kind \in Mutations /\ r.csrf # r.cookie
          /\ Display(r)
       \/ /\ Authorized(r) /\ (r.kind \in Mutations => r.csrf = r.cookie)
          /\ Reply(r, [r EXCEPT !.at = "let in"])

\* requireAuth in front of "/", /logout and the API.  The page displays a 403,
\* and what a refused logout is redirected to (it is not below /api/): fetch
\* follows to a document that is not JSON.
RequireAuth(r) ==
    /\ r.at = "sent" /\ r.kind \in Fetches \cup {"/"}
    /\ sessions' = AfterAuthorize(r)
    /\ \/ /\ ~Authorized(r) /\ r.kind \in {"poll", "change"}
          /\ Answer(r, "401")
       \/ /\ ~Authorized(r) /\ r.kind = "/"
          /\ Answer(r, "redirect")
       \/ /\ \/ ~Authorized(r) /\ r.kind = "logout"
             \/ Authorized(r) /\ r.kind \in Mutations /\ r.csrf # r.cookie
          /\ Display(r)
       \/ /\ Authorized(r) /\ (r.kind \in Mutations => r.csrf = r.cookie)
          /\ Reply(r, [r EXCEPT !.at = "let in"])

\* indexPage authorizes a second time and renders the token it gets, which
\* is empty when the session ended in between.
IndexPage(r) ==
    /\ r.at = "let in" /\ r.kind = "/"
    /\ sessions' = AfterAuthorize(r)
    /\ Reply(r, [r EXCEPT !.at = "panel", !.cookie = None,
                          !.csrf = IF Authorized(r) THEN r.cookie ELSE None])

\* logout deletes the session of the request's cookie; its answer removes
\* the cookie by its name.
Logout(r) ==
    /\ r.at = "let in" /\ r.kind = "logout"
    /\ sessions' = Without(r.cookie)
    /\ Answer(r, "logged out")

\* status, metrics, tokens, dns and the operations that change something:
\* whatever the backend says is displayed.
CallBackend(r) ==
    /\ r.at = "let in" /\ r.kind \in {"poll", "change"}
    /\ Display(r)
    /\ UNCHANGED sessions

\* Faulty variant: loginPage takes any cookie for a session.
LoginPageTrusts(r) ==
    /\ r.at = "sent" /\ r.kind = "/login"
    /\ sessions' = AfterAuthorize(r)
    /\ Answer(r, IF r.cookie # None THEN "redirect" ELSE "form")

LoginPage(r) ==
    /\ r.at = "sent" /\ r.kind = "/login"
    /\ sessions' = AfterAuthorize(r)
    /\ Answer(r, IF Authorized(r) THEN "redirect" ELSE "form")

\* Faulty variant: the new session is not put into the map.
LoginSubmitForgets(r, s) ==
    /\ r.at = "sent" /\ r.kind = "sign in"
    /\ sessions[s] = "unused" /\ \A i \in Ids : i < s => sessions[i] # "unused"
    /\ UNCHANGED sessions
    /\ Reply(r, [r EXCEPT !.at = "signed in", !.cookie = s])

\* loginSubmit: with the wrong token, or with the right one.  A session that
\* the browser had before stays in the map.  Ids are numbered as they are used.
LoginRefused(r) ==
    /\ r.at = "sent" /\ r.kind = "sign in"
    /\ Answer(r, "refused")
    /\ UNCHANGED sessions

LoginSubmit(r, s) ==
    /\ r.at = "sent" /\ r.kind = "sign in"
    /\ sessions[s] = "unused" /\ \A i \in Ids : i < s => sessions[i] # "unused"
    /\ sessions' = [sessions EXCEPT ![s] = "live"]
    /\ Reply(r, [r EXCEPT !.at = "signed in", !.cookie = s])

Handles(r) ==
    /\ \/ RequireAuth(r) \/ IndexPage(r) \/ Logout(r) \/ CallBackend(r)
       \/ LoginPage(r) \/ LoginRefused(r) \/ \E s \in Ids : LoginSubmit(r, s)
    /\ UNCHANGED <<cookie, page, csrf>>

\* expiresAt passes; the entry stays until the cookie is shown.
Expires(s) ==
    /\ sessions[s] = "live"
    /\ sessions' = [sessions EXCEPT ![s] = "expired"]
    /\ UNCHANGED <<cookie, page, csrf, requests>>

\* tunnld restarts: the map and what it was handling are gone.  A poll on its
\* way is sent again.
Restart ==
    /\ sessions' = [s \in Ids |-> IF sessions[s] = "unused" THEN "unused"
                                  ELSE "deleted"]
    /\ page' = [t \in Tabs |-> IF page[t] = "loading" THEN "blank" ELSE page[t]]
    /\ requests' = {r \in requests : r.kind = "poll" /\ r.at # "let in"}
    /\ UNCHANGED <<cookie, csrf>>

-----------------------------------------------------------------------------
(* The browser.                                                            *)

Sent(t, kind, c) ==
    [tab |-> t, kind |-> kind, at |-> "sent", here |-> TRUE,
     cookie |-> IF kind = "sign in" THEN None ELSE c,
     csrf |-> IF kind \in Mutations THEN csrf[t] ELSE None,
     late |-> kind \in Fetches \cup {"/"} /\ ~Live(c)]

\* A navigation leaves the page: its calls are dropped, but for a logout, whose
\* answer still counts for the cookie.
Navigates(t, kind, others, c) ==
    /\ page' = [page EXCEPT ![t] = "loading"]
    /\ csrf' = [csrf EXCEPT ![t] = None]
    /\ requests' = {r \in others : r.tab # t}
                   \cup {[r EXCEPT !.here = FALSE] :
                         r \in {q \in others : q.tab = t /\ q.kind = "logout"}}
                   \cup {Sent(t, kind, c)}

\* The user opens the panel, or loads it again.
Visits(t) ==
    /\ page[t] # "loading"
    /\ Navigates(t, "/", requests, cookie)
    /\ UNCHANGED <<sessions, cookie>>

SignsIn(t) ==
    /\ page[t] = "form"
    /\ Navigates(t, "sign in", requests, cookie)
    /\ UNCHANGED <<sessions, cookie>>

\* The page calls the server: refreshLive every five seconds, or the user.
Calls(t, kind) ==
    /\ page[t] = "panel"
    /\ Cardinality({r \in requests : r.kind \in Fetches}) < Fetching
    /\ requests' = requests \cup {Sent(t, kind, cookie)}
    /\ UNCHANGED <<sessions, cookie, page, csrf>>

Shows(r) ==
    /\ r.at \in {"form", "panel"}
    /\ page' = [page EXCEPT ![r.tab] = r.at]
    /\ csrf' = [csrf EXCEPT ![r.tab] = r.csrf]
    /\ requests' = requests \ {r}
    /\ UNCHANGED <<sessions, cookie>>

Follows(r) ==
    /\ r.kind \in Loads /\ r.at \in {"redirect", "refused", "signed in"}
    /\ cookie' = IF r.at = "signed in" THEN r.cookie ELSE cookie
    /\ Navigates(r.tab, IF r.kind = "/" \/ r.at = "refused" THEN "/login" ELSE "/",
                 requests \ {r}, cookie')
    /\ UNCHANGED sessions

\* api() leaves the page on 401.
Leaves(r) ==
    /\ r.at = "401"
    /\ Navigates(r.tab, "/login", requests \ {r}, cookie)
    /\ UNCHANGED <<sessions, cookie>>

\* The answer of logout takes the cookie away, and the page goes to /login.
LoggedOut(r) ==
    /\ r.at = "logged out"
    /\ cookie' = None
    /\ IF r.here THEN Navigates(r.tab, "/login", requests \ {r}, None)
       ELSE requests' = requests \ {r} /\ UNCHANGED <<page, csrf>>
    /\ UNCHANGED sessions

Receives(r) == Shows(r) \/ Follows(r) \/ Leaves(r) \/ LoggedOut(r)

\* The network, or the WriteTimeout of the admin listener, while the request
\* or its answer is on its way.  A poll that is lost is sent again, as one that
\* is late.
Lost(r) ==
    /\ r.kind # "poll"
    /\ requests' = requests \ {r}
    /\ page' = IF r.kind \in Loads THEN [page EXCEPT ![r.tab] = "blank"] ELSE page
    /\ UNCHANGED <<sessions, cookie, csrf>>

\* The cookie's own MaxAge passes, or the user removes it.
CookieGone ==
    /\ cookie # None
    /\ cookie' = None
    /\ UNCHANGED <<sessions, page, csrf, requests>>

Next ==
    \/ \E r \in requests : Handles(r) \/ Receives(r) \/ Lost(r)
    \/ \E s \in Ids : Expires(s)
    \/ \E t \in Tabs : Visits(t) \/ SignsIn(t) \/ \E k \in Fetches : Calls(t, k)
    \/ Restart \/ CookieGone

Spec == Init /\ [][Next]_vars

\* A request is handled and answered unless it is lost, and a panel goes on
\* polling (setInterval): not each of its polls is lost.
Fairness ==
    \A t \in Tabs :
        /\ WF_vars(\E r \in Of(t, Loads) : Handles(r) \/ Receives(r))
        /\ WF_vars(\E r \in Of(t, Fetches) : Handles(r) \/ Receives(r))
        /\ SF_vars(Calls(t, "poll"))

FairSpec == Spec /\ Fairness

-----------------------------------------------------------------------------
(* Properties.                                                             *)

\* Types.  The cookie is a session that was handed out, and a tab loads one
\* document at a time.
TypeOK ==
    /\ sessions \in [Ids -> SessionStates]
    /\ cookie \in Ids \cup {None}
    /\ cookie # None => sessions[cookie] # "unused"
    /\ page \in [Tabs -> Pages]
    /\ csrf \in [Tabs -> Ids \cup {None}]
    /\ requests \subseteq Requests
    /\ \A t \in Tabs :
         Cardinality(Of(t, Loads)) = IF page[t] = "loading" THEN 1 ELSE 0

\* A request sent after its session was logged out, had expired or went with
\* a restart is never let in by requireAuth, and no panel is rendered for it,
\* whatever else the browser has under way (handler.go:101-139).
EndedSessionActsNoMore ==
    \A r \in requests :
        r.late => r.at = "sent"

\* When a page is told that it is logged out, the session of that page is
\* over, even if the browser has signed in again since it was rendered:
\* logout ends the session of the cookie, and only the CSRF check makes it
\* the one of the page (handler.go:112-115, 175-183).
LogoutEndsItsPage ==
    \A r \in requests : r.at = "logged out" => ~Live(r.csrf)

\* A load ends with a page: / and /login do not send a browser back and forth
\* for ever, whatever cookie it holds (handler.go:109, 141-148).
LoadEnds == \A t \in Tabs : page[t] = "loading" ~> page[t] # "loading"

\* A panel whose session is over, or that was rendered without a token, does
\* not stay: its next poll sends it to /login, unless the browser holds
\* another session by then (handler.go:105-108; app.js:15, 261).
EndedPanelLeaves ==
    \A t \in Tabs :
        (page[t] = "panel" /\ ~Live(csrf[t])) ~> (page[t] # "panel" \/ Live(cookie))
=============================================================================
