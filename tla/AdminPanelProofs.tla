-------------------------- MODULE AdminPanelProofs --------------------------
(***************************************************************************)
(* What TLAPS proves of AdminPanel for any number of tabs and sessions and *)
(* any number of calls under way.                                          *)
(***************************************************************************)
EXTENDS AdminPanel, FiniteSetTheorems, TLAPS

-----------------------------------------------------------------------------
(* The invariant.                                                          *)

PanelTypes ==
    /\ sessions \in [Ids -> SessionStates]
    /\ cookie \in Ids \cup {None}
    /\ page \in [Tabs -> Pages]
    /\ csrf \in [Tabs -> Ids \cup {None}]
    /\ requests \subseteq Requests

\* A cookie, kept or under way, is that of a session that was opened: no later
\* login makes it live again.
CookieWasIssued == cookie # None => sessions[cookie] # "unused"

\* A request whose session was over when it was sent is still to be refused, and a
\* logout that was let in is that of the session of its page, and has ended it when
\* it is answered.
RequestFits(r) ==
    /\ r.cookie # None => sessions[r.cookie] # "unused"
    /\ r.at \in {"form", "panel"} => r.kind \in Loads
    /\ r.at \in {"401", "let in"} => r.kind \in Fetches \cup {"/"}
    /\ r.late => r.at = "sent" /\ ~Live(r.cookie) /\ r.kind \in Fetches \cup {"/"}
    /\ r.at = "let in" /\ r.kind = "logout" => r.cookie # None /\ r.csrf = r.cookie
    /\ r.at = "logged out" =>
         r.kind = "logout" /\ r.csrf \in Ids /\ sessions[r.csrf] \in {"expired", "deleted"}

\* A tab that loads has one request for its document, every other tab none.
OneLoad ==
    /\ \A t \in Tabs :
         page[t] = "loading" <=> \E r \in requests : r.tab = t /\ r.kind \in Loads
    /\ \A r, s \in requests :
         r.kind \in Loads /\ s.kind \in Loads /\ r.tab = s.tab => r = s

PanelInv ==
    /\ PanelTypes
    /\ CookieWasIssued
    /\ \A r \in requests : RequestFits(r)
    /\ OneLoad

LEMMA PanelInit == Init => PanelInv
BY PanelAssumption
   DEF Init, PanelInv, PanelTypes, SessionStates, Pages, CookieWasIssued, OneLoad

-----------------------------------------------------------------------------
(* The sessions.                                                           *)

\* What every step does to the sessions: one that is over stays over, and one
\* that was opened is not handed out again.
SessionsGoOn ==
    /\ sessions' \in [Ids -> SessionStates]
    /\ \A i \in Ids :
         /\ sessions[i] # "unused" => sessions'[i] # "unused"
         /\ sessions'[i] = "live" => sessions[i] \in {"live", "unused"}
         /\ sessions[i] \in {"expired", "deleted"} => sessions'[i] \in {"expired", "deleted"}

LEMMA SessionsStep == ASSUME PanelInv, [Next]_vars PROVE SessionsGoOn
<1> USE PanelAssumption DEF PanelInv, PanelTypes, SessionStates, SessionsGoOn
<1>1. ASSUME NEW r \in requests, sessions' = AfterAuthorize(r) PROVE SessionsGoOn
    BY <1>1 DEF AfterAuthorize, Without
<1>2. ASSUME UNCHANGED sessions PROVE SessionsGoOn BY <1>2
<1>3. ASSUME NEW r \in requests, Handles(r) PROVE SessionsGoOn
    <2>1. CASE Logout(r) BY <2>1 DEF Logout, Without
    <2>2. ASSUME NEW s \in Ids, LoginSubmit(r, s) PROVE SessionsGoOn
        BY <2>2 DEF LoginSubmit
    <2>3. QED BY <1>1, <1>2, <1>3, <2>1, <2>2
          DEF Handles, RequireAuth, IndexPage, CallBackend, LoginPage, LoginRefused
<1>4. ASSUME NEW s \in Ids, Expires(s) PROVE SessionsGoOn BY <1>4 DEF Expires
<1>5. CASE Restart BY <1>5 DEF Restart
<1>6. QED BY <1>2, <1>3, <1>4, <1>5
      DEF Next, vars, Receives, Shows, Follows, Leaves, LoggedOut, Lost, Visits, SignsIn, Calls,
          CookieGone

\* What holds of a request goes on to hold while it waits.
LEMMA RequestStays ==
    ASSUME PanelInv, SessionsGoOn, NEW r \in requests
    PROVE  RequestFits(r)'
<1>1. r.cookie \in Ids \cup {None} BY DEF PanelInv, PanelTypes, Requests
<1>2. QED BY <1>1 DEF PanelInv, PanelTypes, RequestFits, SessionsGoOn, Live

LEMMA CookieStays ==
    ASSUME PanelInv, SessionsGoOn, UNCHANGED cookie
    PROVE  CookieWasIssued'
BY DEF PanelInv, PanelTypes, CookieWasIssued, SessionsGoOn

\* What loads is not disturbed by the end of a call.
LEMMA LoadsStay ==
    ASSUME PanelInv, UNCHANGED page, NEW r, r.kind \in Fetches, requests' = requests \ {r}
    PROVE  OneLoad'
<1>1. r.kind \notin Loads BY DEF Fetches, Mutations, Loads
<1>2. \A q : q.kind \in Loads => (q \in requests' <=> q \in requests)
    BY <1>1
<1> HIDE DEF Loads
<1>3. \A t \in Tabs :
        page'[t] = "loading" <=> \E q \in requests' : q.tab = t /\ q.kind \in Loads
    BY <1>2 DEF PanelInv, OneLoad
<1>4. \A q, s \in requests' :
        q.kind \in Loads /\ s.kind \in Loads /\ q.tab = s.tab => q = s
    BY <1>2 DEF PanelInv, OneLoad
<1>5. QED BY <1>3, <1>4 DEF OneLoad

-----------------------------------------------------------------------------
(* The handlers.                                                           *)

\* A request is answered, and nothing else changes for the browser.
LEMMA AnswerKeeps ==
    ASSUME PanelInv, SessionsGoOn, UNCHANGED <<cookie, page, csrf>>,
           NEW r \in requests, NEW s \in Requests, s.tab = r.tab, s.kind = r.kind,
           Reply(r, s), RequestFits(s)'
    PROVE  PanelInv'
<1>1. PanelTypes' BY DEF PanelInv, PanelTypes, SessionsGoOn, Reply
<1>2. CookieWasIssued' BY CookieStays
<1>3. ASSUME NEW q \in requests' PROVE RequestFits(q)'
    BY <1>3, RequestStays DEF Reply
<1>4. OneLoad' BY DEF PanelInv, OneLoad, Reply
<1>5. QED BY <1>1, <1>2, <1>3, <1>4 DEF PanelInv

\* A call of a page ends, and nothing else changes for the browser.
LEMMA DisplayKeeps ==
    ASSUME PanelInv, SessionsGoOn, UNCHANGED <<cookie, page, csrf>>,
           NEW r \in requests, r.kind \in Fetches, Display(r)
    PROVE  PanelInv'
<1>1. PanelTypes' BY DEF PanelInv, PanelTypes, SessionsGoOn, Display
<1>2. CookieWasIssued' BY CookieStays
<1>3. ASSUME NEW q \in requests' PROVE RequestFits(q)'
    BY <1>3, RequestStays DEF Display
<1>4. OneLoad' BY LoadsStay DEF Display
<1>5. QED BY <1>1, <1>2, <1>3, <1>4 DEF PanelInv

LEMMA HandlersKeep ==
    ASSUME PanelInv, SessionsGoOn, NEW r \in requests, Handles(r)
    PROVE  PanelInv'
<1> UNCHANGED <<cookie, page, csrf>> BY DEF Handles
<1>0. r \in Requests /\ RequestFits(r) BY DEF PanelInv, PanelTypes
\* An answer without a cookie, to whichever request, fits.
<1>1. ASSUME NEW at \in Progress, Answer(r, at),
             at \in {"form", "panel"} => r.kind \in Loads,
             at = "401" => r.kind \in Fetches,
             at = "let in" => FALSE, at = "logged out" => FALSE
      PROVE  PanelInv'
    <2> DEFINE s == [r EXCEPT !.at = at, !.cookie = None, !.late = FALSE]
    <2>1. /\ s \in Requests /\ s.tab = r.tab /\ s.kind = r.kind
          /\ s.at = at /\ s.cookie = None /\ s.late = FALSE
        BY <1>0 DEF Requests
    <2>2. Reply(r, s) BY <1>1 DEF Answer
    <2> HIDE DEF s
    <2>3. RequestFits(s)' BY <1>1, <2>1 DEF RequestFits
    <2>4. QED BY <2>1, <2>2, <2>3, AnswerKeeps
<1>2. ASSUME r.at = "sent", Authorized(r), UNCHANGED sessions,
             r.kind \in Fetches \cup {"/"}, r.kind \in Mutations => r.csrf = r.cookie,
             Reply(r, [r EXCEPT !.at = "let in"])
      PROVE  PanelInv'
    <2> DEFINE s == [r EXCEPT !.at = "let in"]
    <2>1. /\ s \in Requests /\ s.tab = r.tab /\ s.kind = r.kind /\ s.at = "let in"
          /\ s.cookie = r.cookie /\ s.csrf = r.csrf /\ s.late = r.late
        BY <1>0 DEF Requests, Progress
    <2>2. Reply(r, s) BY <1>2
    <2> HIDE DEF s
    <2>3. RequestFits(s)'
        BY <1>0, <1>2, <2>1 DEF RequestFits, Authorized, Live, Mutations
    <2>4. QED BY <2>1, <2>2, <2>3, AnswerKeeps
<1>3. CASE RequireAuth(r)
    <2> USE DEF RequireAuth
    <2>1. CASE ~Authorized(r) /\ r.kind \in {"poll", "change"} /\ Answer(r, "401")
        BY <1>1, <2>1 DEF Progress, Fetches, Mutations
    <2>2. CASE ~Authorized(r) /\ r.kind = "/" /\ Answer(r, "redirect")
        BY <1>1, <2>2 DEF Progress
    <2>3. CASE Display(r) /\ r.kind \in Mutations
        BY <2>3, DisplayKeeps DEF Fetches
    <2>4. CASE Authorized(r) /\ (r.kind \in Mutations => r.csrf = r.cookie)
               /\ Reply(r, [r EXCEPT !.at = "let in"])
        BY <1>2, <1>3, <2>4 DEF AfterAuthorize
    <2>5. QED BY <1>3, <2>1, <2>2, <2>3, <2>4 DEF Mutations
<1>4. CASE IndexPage(r)
    <2>1. PICK s \in Requests : /\ s.tab = r.tab /\ s.kind = r.kind /\ s.at = "panel"
                                /\ s.cookie = None /\ s.late = r.late /\ Reply(r, s)
        <3> DEFINE s == [r EXCEPT !.at = "panel", !.cookie = None,
                                  !.csrf = IF Authorized(r) THEN r.cookie ELSE None]
        <3>1. /\ s \in Requests /\ s.tab = r.tab /\ s.kind = r.kind /\ s.at = "panel"
              /\ s.cookie = None /\ s.late = r.late
            BY <1>0 DEF Requests, Progress
        <3>2. Reply(r, s) BY <1>4 DEF IndexPage
        <3> HIDE DEF s
        <3>3. QED BY <3>1, <3>2
    <2>2. r.kind = "/" /\ ~r.late BY <1>0, <1>4 DEF IndexPage, RequestFits
    <2>3. RequestFits(s)' BY <2>1, <2>2 DEF RequestFits, Loads
    <2>4. QED BY <2>1, <2>3, AnswerKeeps
<1>5. CASE Logout(r)
    <2> DEFINE s == [r EXCEPT !.at = "logged out", !.cookie = None, !.late = FALSE]
    <2>1. /\ s \in Requests /\ s.tab = r.tab /\ s.kind = r.kind /\ s.at = "logged out"
          /\ s.cookie = None /\ s.late = FALSE /\ s.csrf = r.csrf
        BY <1>0 DEF Requests, Progress
    <2>2. Reply(r, s) /\ r.at = "let in" /\ r.kind = "logout" BY <1>5 DEF Logout, Answer
    <2>3. r.csrf \in Ids /\ r.csrf = r.cookie
        BY <1>0, <2>2 DEF RequestFits, Requests
    <2>4. sessions'[r.csrf] = "deleted" BY <1>5, <2>3 DEF Logout, Without
    <2> HIDE DEF s
    <2>5. RequestFits(s)' BY <2>1, <2>2, <2>3, <2>4 DEF RequestFits
    <2>6. QED BY <2>1, <2>2, <2>5, AnswerKeeps
<1>6. CASE CallBackend(r)
    BY <1>6, DisplayKeeps DEF CallBackend, Fetches, Mutations
<1>7. CASE LoginPage(r)
    <2>1. Answer(r, "redirect") \/ Answer(r, "form") BY <1>7 DEF LoginPage
    <2>2. r.kind \in Loads BY <1>7 DEF LoginPage, Loads
    <2>3. QED BY <1>1, <2>1, <2>2 DEF Progress
<1>8. CASE LoginRefused(r)
    BY <1>1, <1>8 DEF LoginRefused, Progress
<1>9. ASSUME NEW i \in Ids, LoginSubmit(r, i) PROVE PanelInv'
    <2> DEFINE s == [r EXCEPT !.at = "signed in", !.cookie = i]
    <2>1. /\ s \in Requests /\ s.tab = r.tab /\ s.kind = r.kind /\ s.at = "signed in"
          /\ s.cookie = i /\ s.late = r.late
        BY <1>0 DEF Requests, Progress
    <2>2. Reply(r, s) /\ r.kind = "sign in" BY <1>9 DEF LoginSubmit
    <2>3. sessions'[i] = "live" BY <1>9 DEF LoginSubmit, PanelInv, PanelTypes
    <2> HIDE DEF s
    <2>4. ~r.late BY <1>0, <2>2 DEF RequestFits, Fetches, Mutations
    <2>5. RequestFits(s)' BY <2>1, <2>3, <2>4 DEF RequestFits
    <2>6. QED BY <2>1, <2>2, <2>5, AnswerKeeps
<1>10. QED BY <1>3, <1>4, <1>5, <1>6, <1>7, <1>8, <1>9 DEF Handles

LEMMA ServerKeeps ==
    ASSUME PanelInv, SessionsGoOn, Restart \/ \E i \in Ids : Expires(i)
    PROVE  PanelInv'
<1> USE DEF PanelInv
<1>1. CASE Restart
    <2>1. requests' \subseteq requests /\ \A r \in requests' : r.kind = "poll"
        BY <1>1 DEF Restart
    <2>2. PanelTypes' BY <1>1, <2>1 DEF Restart, PanelTypes, SessionsGoOn, Pages
    <2>3. CookieWasIssued' BY <1>1, CookieStays DEF Restart
    <2>4. \A r \in requests' : RequestFits(r)' BY <2>1, RequestStays
    <2>5. OneLoad'
        <3>1. \A t \in Tabs : page'[t] # "loading" BY <1>1 DEF Restart, PanelTypes
        <3>2. QED BY <2>1, <3>1 DEF OneLoad, Loads
    <2>6. QED BY <2>2, <2>3, <2>4, <2>5
<1>2. ASSUME NEW i \in Ids, Expires(i) PROVE PanelInv'
    <2>1. PanelTypes' BY <1>2 DEF Expires, PanelTypes, SessionsGoOn
    <2>2. CookieWasIssued' BY <1>2, CookieStays DEF Expires
    <2>3. \A r \in requests' : RequestFits(r)' BY <1>2, RequestStays DEF Expires
    <2>4. OneLoad' BY <1>2 DEF Expires, OneLoad
    <2>5. QED BY <2>1, <2>2, <2>3, <2>4
<1>3. QED BY <1>1, <1>2

-----------------------------------------------------------------------------
(* The browser.                                                            *)

\* What a page sends, with a cookie that was issued.
LEMMA SentFits ==
    ASSUME PanelInv, SessionsGoOn, NEW t \in Tabs, NEW kind \in Loads \cup Fetches,
           NEW c \in Ids \cup {None}, c # None => sessions[c] # "unused",
           NEW s, s = Sent(t, kind, c)
    PROVE  s \in Requests /\ s.tab = t /\ s.kind = kind /\ RequestFits(s)'
<1>1. /\ s.tab = t /\ s.kind = kind /\ s.at = "sent" /\ s.here = TRUE
      /\ s.cookie = IF kind = "sign in" THEN None ELSE c
      /\ s.csrf = IF kind \in Mutations THEN csrf[t] ELSE None
      /\ s.late = (kind \in Fetches \cup {"/"} /\ ~Live(c))
    BY DEF Sent
<1>2. s \in Requests
    <2>1. csrf[t] \in Ids \cup {None} BY DEF PanelInv, PanelTypes
    <2>2. QED BY <2>1 DEF Sent, Requests, Progress
<1>3. s.late => ~Live(s.cookie)'
    <2>1. CASE kind = "sign in" BY <1>1, <2>1 DEF Fetches, Mutations
    <2>2. CASE kind # "sign in"
        BY <1>1, <2>2 DEF Live, SessionsGoOn
    <2>3. QED BY <2>1, <2>2
<1>4. s.cookie # None => sessions'[s.cookie] # "unused"
    BY <1>1 DEF SessionsGoOn
<1>5. s.late => s.kind \in Fetches \cup {"/"} BY <1>1
<1>6. QED BY <1>1, <1>2, <1>3, <1>4, <1>5 DEF RequestFits

LEMMA NavigationKeeps ==
    ASSUME PanelInv, SessionsGoOn, UNCHANGED sessions,
           NEW t \in Tabs, NEW kind \in Loads, NEW others, others \subseteq requests,
           cookie' \in Ids \cup {None}, cookie' # None => sessions[cookie'] # "unused",
           Navigates(t, kind, others, cookie'),
           \A r \in requests \ others : r.tab = t
    PROVE  PanelInv'
<1>1. PICK s : s = Sent(t, kind, cookie') OBVIOUS
<1>2. s \in Requests /\ s.tab = t /\ s.kind = kind /\ RequestFits(s)' BY <1>1, SentFits
<1> DEFINE Left(r) == [r EXCEPT !.here = FALSE]
<1>3. requests' = {r \in others : r.tab # t}
                  \cup {Left(r) : r \in {q \in others : q.tab = t /\ q.kind = "logout"}}
                  \cup {s}
    BY <1>1 DEF Navigates
<1>4. ASSUME NEW r \in requests
      PROVE  /\ Left(r) \in Requests
             /\ Left(r).tab = r.tab /\ Left(r).kind = r.kind /\ Left(r).at = r.at
             /\ Left(r).cookie = r.cookie /\ Left(r).csrf = r.csrf /\ Left(r).late = r.late
    BY DEF PanelInv, PanelTypes, Requests
<1>5. ASSUME NEW r \in requests PROVE RequestFits(Left(r))'
    <2>1. RequestFits(r)' BY RequestStays
    <2>2. PICK l : l = Left(r) OBVIOUS
    <2> HIDE DEF Left
    <2>3. /\ l.tab = r.tab /\ l.kind = r.kind /\ l.at = r.at
          /\ l.cookie = r.cookie /\ l.csrf = r.csrf /\ l.late = r.late
        BY <1>4, <2>2
    <2>4. RequestFits(l)' BY <2>1, <2>3 DEF RequestFits
    <2>5. QED BY <2>2, <2>4
<1> HIDE DEF Left
<1>6. ASSUME NEW q \in requests'
      PROVE  /\ q \in Requests /\ RequestFits(q)'
             /\ \/ q \in others /\ q.tab # t
                \/ q.tab = t /\ (q = s \/ q.kind = "logout")
    <2>1. CASE q \in others /\ q.tab # t
        <3>1. q \in requests /\ q \in Requests BY <2>1 DEF PanelInv, PanelTypes
        <3>2. RequestFits(q)' BY <3>1, RequestStays
        <3>3. QED BY <2>1, <3>1, <3>2
    <2>2. ASSUME NEW r \in others, r.tab = t, r.kind = "logout", q = Left(r)
          PROVE  q \in Requests /\ RequestFits(q)' /\ q.tab = t /\ q.kind = "logout"
        BY <1>4, <1>5, <2>2
    <2>3. CASE q = s BY <1>2, <2>3
    <2>4. QED BY <1>3, <2>1, <2>2, <2>3
<1>7. s \in requests' BY <1>3
<1>8. page' = [page EXCEPT ![t] = "loading"] /\ csrf' = [csrf EXCEPT ![t] = None]
    BY DEF Navigates
<1>9. PanelTypes'
    BY <1>6, <1>8 DEF PanelInv, PanelTypes, Pages
<1>10. CookieWasIssued' BY DEF CookieWasIssued
<1>11. OneLoad'
    <2>1. ASSUME NEW u \in Tabs, u # t
          PROVE  page'[u] = "loading" <=> \E r \in requests' : r.tab = u /\ r.kind \in Loads
        <3>1. page'[u] = page[u] BY <1>8, <2>1 DEF PanelInv, PanelTypes
        <3>2. \A r : r \in requests' /\ r.tab = u <=> r \in requests /\ r.tab = u
            BY <1>3, <1>6, <2>1
        <3>3. QED BY <3>1, <3>2 DEF PanelInv, OneLoad
    <2>2. page'[t] = "loading" /\ s \in requests' /\ s.tab = t /\ s.kind \in Loads
        BY <1>2, <1>7, <1>8 DEF PanelInv, PanelTypes
    <2>3. ASSUME NEW q \in requests', NEW r \in requests',
                 q.kind \in Loads, r.kind \in Loads, q.tab = r.tab
          PROVE  q = r
        <3>1. CASE q.tab = t BY <1>6, <2>3, <3>1 DEF Loads
        <3>2. CASE q.tab # t BY <1>6, <2>3, <3>2 DEF PanelInv, OneLoad
        <3>3. QED BY <3>1, <3>2
    <2>4. QED BY <2>1, <2>2, <2>3 DEF OneLoad
<1>12. QED BY <1>6, <1>9, <1>10, <1>11 DEF PanelInv

LEMMA BrowserKeeps ==
    ASSUME PanelInv, SessionsGoOn,
           \/ \E r \in requests : Receives(r) \/ Lost(r)
           \/ \E t \in Tabs : Visits(t) \/ SignsIn(t) \/ \E k \in Fetches : Calls(t, k)
           \/ CookieGone \/ UNCHANGED vars
    PROVE  PanelInv'
<1>0. cookie \in Ids \cup {None} /\ (cookie # None => sessions[cookie] # "unused")
    BY DEF PanelInv, PanelTypes, CookieWasIssued
<1>1. ASSUME NEW r \in requests
      PROVE  /\ r \in Requests /\ r.tab \in Tabs /\ RequestFits(r)
             /\ \A q \in requests \ (requests \ {r}) : q.tab = r.tab
             /\ requests \ {r} \subseteq requests
    BY DEF PanelInv, PanelTypes, Requests
<1>2. ASSUME NEW r \in requests, Shows(r) PROVE PanelInv'
    <2>1. r.kind \in Loads BY <1>1, <1>2 DEF Shows, RequestFits
    <2>2. PanelTypes'
        BY <1>1, <1>2 DEF Shows, PanelInv, PanelTypes, Pages, Requests
    <2>3. CookieWasIssued' BY <1>2, CookieStays DEF Shows
    <2>4. ASSUME NEW q \in requests' PROVE RequestFits(q)'
        BY <1>2, <2>4, RequestStays DEF Shows
    <2>5. OneLoad'
        BY <1>1, <1>2, <2>1 DEF Shows, PanelInv, PanelTypes, OneLoad
    <2>6. QED BY <2>2, <2>3, <2>4, <2>5 DEF PanelInv
<1>3. ASSUME NEW r \in requests, Follows(r) PROVE PanelInv'
    <2>1. cookie' \in Ids \cup {None} /\ (cookie' # None => sessions[cookie'] # "unused")
        BY <1>0, <1>1, <1>3 DEF Follows, Requests, RequestFits
    <2>2. PICK kind \in Loads : Navigates(r.tab, kind, requests \ {r}, cookie')
        BY <1>3 DEF Follows, Loads
    <2>3. UNCHANGED sessions BY <1>3 DEF Follows
    <2>4. QED BY <1>1, <2>1, <2>2, <2>3, NavigationKeeps
<1>4. ASSUME NEW r \in requests, Leaves(r) PROVE PanelInv'
    <2>1. cookie' = cookie /\ UNCHANGED sessions
          /\ Navigates(r.tab, "/login", requests \ {r}, cookie')
        BY <1>4 DEF Leaves
    <2>2. "/login" \in Loads BY DEF Loads
    <2>3. QED BY <1>0, <1>1, <2>1, <2>2, NavigationKeeps
<1>5. ASSUME NEW r \in requests, LoggedOut(r) PROVE PanelInv'
    <2>1. cookie' = None /\ UNCHANGED sessions BY <1>5 DEF LoggedOut
    <2>2. CASE r.here
        <3>1. Navigates(r.tab, "/login", requests \ {r}, cookie')
            BY <1>5, <2>1, <2>2 DEF LoggedOut
        <3>2. "/login" \in Loads BY DEF Loads
        <3>3. QED BY <1>1, <2>1, <3>1, <3>2, NavigationKeeps
    <2>3. CASE ~r.here
        <3>1. requests' = requests \ {r} /\ UNCHANGED <<page, csrf>> /\ r.kind = "logout"
            BY <1>1, <1>5, <2>3 DEF LoggedOut, RequestFits
        <3>2. PanelTypes' BY <2>1, <3>1 DEF PanelInv, PanelTypes
        <3>3. CookieWasIssued' BY <2>1 DEF CookieWasIssued
        <3>4. ASSUME NEW q \in requests' PROVE RequestFits(q)'
            BY <3>1, <3>4, RequestStays
        <3>5. OneLoad' BY <3>1, LoadsStay DEF Fetches, Mutations
        <3>6. QED BY <3>2, <3>3, <3>4, <3>5 DEF PanelInv
    <2>4. QED BY <2>2, <2>3
<1>6. ASSUME NEW r \in requests, Lost(r) PROVE PanelInv'
    <2>1. PanelTypes' BY <1>1, <1>6 DEF Lost, PanelInv, PanelTypes, Pages
    <2>2. CookieWasIssued' BY <1>6, CookieStays DEF Lost
    <2>3. ASSUME NEW q \in requests' PROVE RequestFits(q)'
        BY <1>6, <2>3, RequestStays DEF Lost
    <2>4. OneLoad'
        BY <1>1, <1>6 DEF Lost, PanelInv, PanelTypes, OneLoad
    <2>5. QED BY <2>1, <2>2, <2>3, <2>4 DEF PanelInv
<1>7. ASSUME NEW t \in Tabs, Visits(t) \/ SignsIn(t) PROVE PanelInv'
    <2>1. PICK kind \in Loads : Navigates(t, kind, requests, cookie')
        BY <1>7 DEF Visits, SignsIn, Loads
    <2>2. cookie' = cookie /\ UNCHANGED sessions BY <1>7 DEF Visits, SignsIn
    <2>3. QED BY <1>0, <2>1, <2>2, NavigationKeeps
<1>8. ASSUME NEW t \in Tabs, NEW k \in Fetches, Calls(t, k) PROVE PanelInv'
    <2>1. PICK s : s = Sent(t, k, cookie) OBVIOUS
    <2>2. s \in Requests /\ s.tab = t /\ s.kind = k /\ RequestFits(s)'
        BY <1>0, <2>1, SentFits
    <2>3. requests' = requests \cup {s} /\ UNCHANGED <<sessions, cookie, page, csrf>>
        BY <1>8, <2>1 DEF Calls
    <2>4. PanelTypes' BY <2>2, <2>3 DEF PanelInv, PanelTypes
    <2>5. CookieWasIssued' BY <2>3, CookieStays
    <2>6. ASSUME NEW q \in requests' PROVE RequestFits(q)'
        BY <2>2, <2>3, <2>6, RequestStays
    <2>7. OneLoad'
        BY <2>2, <2>3 DEF PanelInv, OneLoad, Loads, Fetches, Mutations
    <2>8. QED BY <2>4, <2>5, <2>6, <2>7 DEF PanelInv
<1>9. CASE CookieGone \/ UNCHANGED vars
    <2>1. UNCHANGED <<sessions, page, csrf, requests>> /\ cookie' \in {cookie, None}
        BY <1>9 DEF CookieGone, vars
    <2>2. PanelTypes' BY <2>1 DEF PanelInv, PanelTypes
    <2>3. CookieWasIssued' BY <1>0, <2>1 DEF CookieWasIssued
    <2>4. ASSUME NEW q \in requests' PROVE RequestFits(q)'
        BY <2>1, <2>4, RequestStays
    <2>5. OneLoad' BY <2>1 DEF PanelInv, OneLoad
    <2>6. QED BY <2>2, <2>3, <2>4, <2>5 DEF PanelInv
<1>10. QED BY <1>2, <1>3, <1>4, <1>5, <1>6, <1>7, <1>8, <1>9 DEF Receives

-----------------------------------------------------------------------------
\* The sessions, the cookie and each request under way fit together, however
\* logins, logouts, expiries and restarts overlap.
THEOREM PanelInvariance == Spec => []PanelInv
<1>1. PanelInv /\ [Next]_vars => PanelInv'
    <2> SUFFICES ASSUME PanelInv, [Next]_vars PROVE PanelInv' OBVIOUS
    <2>1. SessionsGoOn BY SessionsStep
    <2>2. ASSUME NEW r \in requests, Handles(r) PROVE PanelInv' BY <2>1, <2>2, HandlersKeep
    <2>3. CASE Restart \/ \E i \in Ids : Expires(i) BY <2>1, <2>3, ServerKeeps
    <2>4. CASE \/ \E r \in requests : Receives(r) \/ Lost(r)
               \/ \E t \in Tabs : Visits(t) \/ SignsIn(t) \/ \E k \in Fetches : Calls(t, k)
               \/ CookieGone \/ UNCHANGED vars
        BY <2>1, <2>4, BrowserKeeps
    <2>5. QED BY <2>2, <2>3, <2>4 DEF Next
<1>2. QED BY PanelInit, <1>1, PTL DEF Spec

\* Every variable keeps its type, the cookie is that of a session that was opened,
\* and a tab loads one document at a time.
THEOREM PanelTypeCorrect == Spec => []TypeOK
<1>1. ASSUME PanelInv, NEW t \in Tabs
      PROVE  Cardinality(Of(t, Loads)) = IF page[t] = "loading" THEN 1 ELSE 0
    <2>1. CASE page[t] = "loading"
        <3>1. PICK r \in requests : r.tab = t /\ r.kind \in Loads
            BY <1>1, <2>1 DEF PanelInv, OneLoad
        <3>2. Of(t, Loads) = {r} BY <1>1, <3>1 DEF PanelInv, OneLoad, Of
        <3>3. QED BY <2>1, <3>2, FS_Singleton
    <2>2. CASE page[t] # "loading"
        <3>1. Of(t, Loads) = {} BY <1>1, <2>2 DEF PanelInv, OneLoad, Of
        <3>2. QED BY <2>2, <3>1, FS_EmptySet
    <2>3. QED BY <2>1, <2>2
<1>2. PanelInv => TypeOK
    BY <1>1 DEF PanelInv, PanelTypes, CookieWasIssued, TypeOK
<1>3. QED BY <1>2, PanelInvariance, PTL

\* A request sent when its session was over is never let in (handler.go:101-139).
THEOREM EndedSessionsStayOut == Spec => []EndedSessionActsNoMore
<1>1. PanelInv => EndedSessionActsNoMore
    BY DEF PanelInv, RequestFits, EndedSessionActsNoMore
<1>2. QED BY <1>1, PanelInvariance, PTL

\* A page that is told that it is logged out has no live session any more
\* (handler.go:112-115, 175-183).
THEOREM LogoutsEndTheirPages == Spec => []LogoutEndsItsPage
<1>1. PanelInv => LogoutEndsItsPage
    BY DEF PanelInv, RequestFits, Live, LogoutEndsItsPage
<1>2. QED BY <1>1, PanelInvariance, PTL
=============================================================================
