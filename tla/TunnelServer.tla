---------------------------- MODULE TunnelServer ----------------------------
(***************************************************************************)
(* The relay process of tunnl (internal/server and internal/store): one    *)
(* handler goroutine per QUIC connection (handleTunnel), the in-memory     *)
(* registry of active sessions, the SQLite tables of name reservations and *)
(* managed client tokens, the admin operation that revokes a token, and    *)
(* the registry lookup a public request makes.                             *)
(*                                                                         *)
(* Every critical section of the registry and every SQL statement or       *)
(* transaction is one atomic action; what the code does after an unlock or *)
(* between two statements is a step of its own, so handlers, revocations   *)
(* and requests interleave exactly there.                                  *)
(***************************************************************************)
EXTENDS Naturals, FiniteSets

CONSTANTS
    Conns,      \* QUIC connections, numbered in the order of their dialling
    Tokens,     \* client tokens, standing for the SHA-256 hashes of them
    Bootstrap,  \* the tokens of Config.AuthTokens
    Domains,    \* the normalised names a tunnel may have
    Revokers,   \* calls of RevokeToken
    Requests,   \* public HTTP requests
    NoConn, NoToken,
    Unnamed,    \* Hello.Domain = "": the server allocates a name
    BadName     \* a Hello.Domain that names.Normalize refuses

ASSUME ConstantsAssumption ==
    /\ Conns \subseteq Nat
    /\ Bootstrap \subseteq Tokens
    /\ NoConn \notin Conns
    /\ NoToken \notin Tokens
    /\ Unnamed \notin Domains
    /\ BadName \notin Domains

VARIABLES
    mode,      \* the process: "up", "draining" (ctx cancelled) or "down"
    pc,        \* pc[c]: the step handleTunnel has reached for connection c
    link,      \* link[c]: the QUIC connection as the server sees it
    token,     \* token[c]: hello.Token
    domain,    \* domain[c]: handleTunnel's variable domain
    told,      \* told[c]: the Welcome that was sent to the client
    previous,  \* previous[c]: register's variable previous
    sessions,  \* registry.sessions: the connection that serves a name
    owner,     \* domain_reservations: the token that owns a name
    managed,   \* client_tokens
    revoked,   \* tokens deleted from client_tokens: never issued again
    revoking,  \* revoking[r]: the step a call of RevokeToken has reached
    target,    \* target[r]: the token it revokes
    matches,   \* matches[r]: disconnectToken's variable matches
    seen,      \* seen[r]: what was registered for the token as it was deleted
    asking,    \* asking[q]: the step a public request has reached
    host,      \* host[q]: the name it asks for
    found      \* found[q]: the session registry.open looked up for it

connVars    == <<pc, link, token, domain, told, previous>>
storeVars   == <<owner, managed, revoked>>
revokeVars  == <<revoking, target, matches, seen>>
requestVars == <<asking, host, found>>
vars == <<mode, connVars, sessions, storeVars, revokeVars, requestVars>>

-----------------------------------------------------------------------------
Steps == {"new", "control", "hello", "authenticate", "reserve", "register",
          "replace", "welcome", "serve", "unregister", "close", "done"}

\* The codes of CloseWithError, by their message.
CloseCodes == {"ended", "refused", "replaced", "token revoked"}

\* "lost" is a connection ended by the peer, the network or the idle timeout.
Links == {"none", "open", "lost"} \cup CloseCodes

\* The steps of a handler whose name is reserved.
Named == {"register", "replace", "welcome", "serve", "unregister", "close"}

Names == Domains \cup {Unnamed, BadName}

Running == mode # "down"

(***************************************************************************)
(* conn.CloseWithError: the first close decides the code, a later one has  *)
(* no effect.                                                              *)
(***************************************************************************)
Closed(c, code) ==
    [link EXCEPT ![c] = IF @ = "open" THEN code ELSE @]

(***************************************************************************)
(* What a live session is: the registered names of a token.                *)
(***************************************************************************)
RegisteredFor(t) == {c \in Conns : \E d \in Domains : sessions[d] = c /\ token[c] = t}

Init ==
    /\ mode = "up"
    /\ pc = [c \in Conns |-> "new"]
    /\ link = [c \in Conns |-> "none"]
    /\ token = [c \in Conns |-> NoToken]
    /\ domain = [c \in Conns |-> Unnamed]
    /\ told = [c \in Conns |-> "nothing"]
    /\ previous = [c \in Conns |-> NoConn]
    /\ sessions = [d \in Domains |-> NoConn]
    /\ owner = [d \in Domains |-> NoToken]
    /\ managed = {}
    /\ revoked = {}
    /\ revoking = [r \in Revokers |-> "idle"]
    /\ target = [r \in Revokers |-> NoToken]
    /\ matches = [r \in Revokers |-> {}]
    /\ seen = [r \in Revokers |-> {}]
    /\ asking = [q \in Requests |-> "idle"]
    /\ host = [q \in Requests |-> Unnamed]
    /\ found = [q \in Requests |-> NoConn]

-----------------------------------------------------------------------------
(* handleTunnel, one action per step that shares state with another actor. *)

Goto(c, step) == pc' = [pc EXCEPT ![c] = step]

\* The early returns: an error Welcome where the code sends one, close code 1.
Refuse(c, answer) ==
    /\ Goto(c, "done")
    /\ link' = Closed(c, "refused")
    /\ told' = [told EXCEPT ![c] = answer]

Accept(c) ==
    /\ Running /\ pc[c] = "new"
    /\ \A earlier \in Conns : earlier < c => pc[earlier] # "new"
    /\ Goto(c, "control")
    /\ link' = [link EXCEPT ![c] = "open"]
    /\ UNCHANGED <<mode, token, domain, told, previous, sessions, storeVars, revokeVars, requestVars>>

ControlStream(c) ==
    /\ Running /\ pc[c] = "control" /\ link[c] = "open"
    /\ Goto(c, "hello")
    /\ UNCHANGED <<mode, link, token, domain, told, previous, sessions, storeVars, revokeVars, requestVars>>

\* AcceptStream(ctx) has no deadline of its own: it fails when the connection
\* ends or when the server's context is cancelled.
NoControlStream(c) ==
    /\ Running /\ pc[c] = "control"
    /\ link[c] # "open" \/ mode = "draining"
    /\ Refuse(c, told[c])
    /\ UNCHANGED <<mode, token, domain, previous, sessions, storeVars, revokeVars, requestVars>>

Hello(c) ==
    /\ Running /\ pc[c] = "hello" /\ link[c] = "open"
    /\ \E t \in Tokens, name \in Names :
        /\ token' = [token EXCEPT ![c] = t]
        /\ domain' = [domain EXCEPT ![c] = name]
    /\ Goto(c, "authenticate")
    /\ UNCHANGED <<mode, link, told, previous, sessions, storeVars, revokeVars, requestVars>>

\* Faulty variant, for the sensitivity of the properties: no deadline for the
\* Hello.
BadHelloNoDeadline(c) ==
    /\ Running /\ pc[c] = "hello" /\ link[c] # "open"
    /\ \E answer \in {told[c], "error"} : Refuse(c, answer)
    /\ UNCHANGED <<mode, token, domain, previous, sessions, storeVars, revokeVars, requestVars>>

\* No valid Hello within 10 seconds (nothing is sent back), or one of another
\* protocol version (an error Welcome is sent).
BadHello(c) ==
    /\ Running /\ pc[c] = "hello"
    /\ \E answer \in {told[c], "error"} : Refuse(c, answer)
    /\ UNCHANGED <<mode, token, domain, previous, sessions, storeVars, revokeVars, requestVars>>

\* A statement run with the server's context succeeds only before shutdown.
Authentic(t) == t \in Bootstrap \/ (mode = "up" /\ t \in managed)

Authenticate(c) ==
    /\ Running /\ pc[c] = "authenticate"
    /\ Authentic(token[c])
    /\ Goto(c, "reserve")
    /\ UNCHANGED <<mode, link, token, domain, told, previous, sessions, storeVars, revokeVars, requestVars>>

\* A token that is not managed, or a database error: both answer
\* "authentication failed".
AuthenticationFails(c) ==
    /\ Running /\ pc[c] = "authenticate"
    /\ token[c] \notin Bootstrap
    /\ Refuse(c, "error")
    /\ UNCHANGED <<mode, token, domain, previous, sessions, storeVars, revokeVars, requestVars>>

\* What Reserve and Allocate may pick: the name asked for, or any random one.
Candidates(name) == IF name = Unnamed THEN Domains ELSE {name} \cap Domains

\* Faulty variant, for the sensitivity of the properties: Reserve does not
\* compare the owner.
ReservableByAnyone(d, t) == owner[d] \in {NoToken, t} \cup Tokens

Reservable(d, t) == owner[d] \in {NoToken, t}

\* Faulty variant, for the sensitivity of the properties: the name Allocate returns
\* goes to a variable of an inner scope.
ReserveShadowed(c) ==
    /\ mode = "up" /\ pc[c] = "reserve"
    /\ \E d \in Candidates(domain[c]) :
        /\ Reservable(d, token[c])
        /\ owner' = [owner EXCEPT ![d] = token[c]]
    /\ Goto(c, "register")
    /\ UNCHANGED <<mode, link, token, domain, told, previous, sessions,
                   managed, revoked, revokeVars, requestVars>>

Reserve(c) ==
    /\ mode = "up" /\ pc[c] = "reserve"
    /\ \E d \in Candidates(domain[c]) :
        /\ Reservable(d, token[c])
        /\ owner' = [owner EXCEPT ![d] = token[c]]
        /\ domain' = [domain EXCEPT ![c] = d]
    /\ Goto(c, "register")
    /\ UNCHANGED <<mode, link, token, told, previous, sessions, managed, revoked, revokeVars, requestVars>>

\* Unsupported mode, invalid name, ErrDomainTaken, 32 taken names in a row, or
\* a database error, which may strike whatever the request is.
ReserveFails(c) ==
    /\ Running /\ pc[c] = "reserve"
    /\ Refuse(c, "error")
    /\ UNCHANGED <<mode, token, domain, previous, sessions, storeVars, revokeVars, requestVars>>

\* register, under the lock. The connection may have ended long before: nothing
\* between ControlStream and here looks at it.
Register(c) ==
    /\ Running /\ pc[c] = "register"
    /\ previous' = [previous EXCEPT ![c] = sessions[domain[c]]]
    /\ sessions' = [sessions EXCEPT ![domain[c]] = c]
    /\ Goto(c, "replace")
    /\ UNCHANGED <<mode, link, token, domain, told, storeVars, revokeVars, requestVars>>

\* Faulty variant, for the sensitivity of the properties: the displaced session is
\* left open.
ClosePreviousForgotten(c) ==
    /\ Running /\ pc[c] = "replace"
    /\ previous' = [previous EXCEPT ![c] = NoConn]
    /\ Goto(c, "welcome")
    /\ UNCHANGED <<mode, link, token, domain, told, sessions, storeVars, revokeVars, requestVars>>

\* register, after the unlock: close the session it displaced, if any.
ClosePrevious(c) ==
    /\ Running /\ pc[c] = "replace"
    /\ link' = IF previous[c] = NoConn THEN link ELSE Closed(previous[c], "replaced")
    /\ previous' = [previous EXCEPT ![c] = NoConn]
    /\ Goto(c, "welcome")
    /\ UNCHANGED <<mode, token, domain, told, sessions, storeVars, revokeVars, requestVars>>

SendWelcome(c) ==
    /\ Running /\ pc[c] = "welcome" /\ link[c] = "open"
    /\ told' = [told EXCEPT ![c] = "ok"]
    /\ Goto(c, "serve")
    /\ UNCHANGED <<mode, link, token, domain, previous, sessions, storeVars, revokeVars, requestVars>>

\* Faulty variant, for the sensitivity of the properties: unregister is deferred
\* only after the Welcome.
WelcomeFailsEarly(c) ==
    /\ Running /\ pc[c] = "welcome"
    /\ Goto(c, "close")
    /\ UNCHANGED <<mode, link, token, domain, told, previous, sessions, storeVars, revokeVars, requestVars>>

\* Encode fails: the connection has ended, or the peer refused the stream.
WelcomeFails(c) ==
    /\ Running /\ pc[c] = "welcome"
    /\ Goto(c, "unregister")
    /\ UNCHANGED <<mode, link, token, domain, told, previous, sessions, storeVars, revokeVars, requestVars>>

\* The heartbeat loop. A ping changes nothing; Decode fails when the connection
\* has ended ...
SessionEnds(c) ==
    /\ Running /\ pc[c] = "serve" /\ link[c] # "open"
    /\ Goto(c, "unregister")
    /\ UNCHANGED <<mode, link, token, domain, told, previous, sessions, storeVars, revokeVars, requestVars>>

\* Faulty variant, for the sensitivity of the properties: no read deadline, so the
\* loop waits for the connection to end.
HeartbeatFailsNoDeadline(c) ==
    /\ Running /\ pc[c] = "serve" /\ link[c] # "open"
    /\ Goto(c, "unregister")
    /\ UNCHANGED <<mode, link, token, domain, told, previous, sessions, storeVars, revokeVars, requestVars>>

\* ... or when no ping came within HeartbeatTimeout; any other message closes
\* the connection with code 1 first.
HeartbeatFails(c) ==
    /\ Running /\ pc[c] = "serve" /\ link[c] = "open"
    /\ link' \in {link, Closed(c, "refused")}
    /\ Goto(c, "unregister")
    /\ UNCHANGED <<mode, token, domain, told, previous, sessions, storeVars, revokeVars, requestVars>>

\* Faulty variant, for the sensitivity of the properties: unregister deletes by name,
\* whoever is registered.
UnregisterByName(c) ==
    /\ Running /\ pc[c] = "unregister"
    /\ sessions' = [sessions EXCEPT ![domain[c]] = NoConn]
    /\ Goto(c, "close")
    /\ UNCHANGED <<mode, link, token, domain, told, previous, storeVars, revokeVars, requestVars>>

\* The deferred calls, last in first out: unregister, then CloseWithError(0).
Unregister(c) ==
    /\ Running /\ pc[c] = "unregister"
    /\ sessions' = IF sessions[domain[c]] = c
                   THEN [sessions EXCEPT ![domain[c]] = NoConn]
                   ELSE sessions
    /\ Goto(c, "close")
    /\ UNCHANGED <<mode, link, token, domain, told, previous, storeVars, revokeVars, requestVars>>

CloseSession(c) ==
    /\ Running /\ pc[c] = "close"
    /\ link' = Closed(c, "ended")
    /\ Goto(c, "done")
    /\ UNCHANGED <<mode, token, domain, told, previous, sessions, storeVars, revokeVars, requestVars>>

\* The peer closes the connection, or it stays silent for the idle timeout.
ConnectionLost(c) ==
    /\ Running /\ link[c] = "open"
    /\ link' = [link EXCEPT ![c] = "lost"]
    /\ UNCHANGED <<mode, pc, token, domain, told, previous, sessions, storeVars, revokeVars, requestVars>>

-----------------------------------------------------------------------------
(* The admin operations on managed tokens.                                 *)

\* A secret is 32 random bytes: a created token is none that existed before.
CreateToken(t) ==
    /\ Running
    /\ t \notin Bootstrap \cup managed \cup revoked
    /\ managed' = managed \cup {t}
    /\ UNCHANGED <<mode, connVars, sessions, owner, revoked, revokeVars, requestVars>>

RevokeGoto(r, step) == revoking' = [revoking EXCEPT ![r] = step]

\* RevokeToken: ClientTokenHash.
RevokeLookup(r, t) ==
    /\ Running /\ revoking[r] = "idle"
    /\ t \in managed
    /\ target' = [target EXCEPT ![r] = t]
    /\ RevokeGoto(r, "delete")
    /\ UNCHANGED <<mode, connVars, sessions, storeVars, matches, seen, requestVars>>

\* The effect of the DELETE. seen records, for the properties only, the sessions
\* of the token that are registered at this moment.
DeleteRow(r) ==
    /\ target[r] \in managed
    /\ managed' = managed \ {target[r]}
    /\ revoked' = revoked \cup {target[r]}
    /\ seen' = [seen EXCEPT ![r] = RegisteredFor(target[r])]

RevokeDelete(r) ==
    /\ Running /\ revoking[r] = "delete"
    /\ DeleteRow(r)
    /\ RevokeGoto(r, "snapshot")
    /\ UNCHANGED <<mode, connVars, sessions, owner, target, matches, requestVars>>

\* Another call deleted the row first ("token was not found"), or the statement
\* returns an error, which its effect may survive: the admin's request was
\* cancelled as the statement ended.
RevokeDeleteFails(r) ==
    /\ Running /\ revoking[r] = "delete"
    /\ DeleteRow(r) \/ UNCHANGED <<managed, revoked, seen>>
    /\ RevokeGoto(r, "failed")
    /\ UNCHANGED <<mode, connVars, sessions, owner, target, matches, requestVars>>

\* Faulty variant, for the sensitivity of the properties: disconnectToken stops at
\* the first session.
DisconnectSnapshotFirst(r) ==
    /\ Running /\ revoking[r] = "snapshot"
    /\ matches' = [matches EXCEPT ![r] =
            {c \in RegisteredFor(target[r]) : \A b \in RegisteredFor(target[r]) : c <= b}]
    /\ RevokeGoto(r, "closing")
    /\ UNCHANGED <<mode, connVars, sessions, storeVars, target, seen, requestVars>>

\* disconnectToken, under the read lock.
DisconnectSnapshot(r) ==
    /\ Running /\ revoking[r] = "snapshot"
    /\ matches' = [matches EXCEPT ![r] = RegisteredFor(target[r])]
    /\ RevokeGoto(r, "closing")
    /\ UNCHANGED <<mode, connVars, sessions, storeVars, target, seen, requestVars>>

\* disconnectToken, after the unlock: one CloseWithError after the other.
DisconnectOne(r) ==
    /\ Running /\ revoking[r] = "closing"
    /\ \E c \in matches[r] :
        /\ link' = Closed(c, "token revoked")
        /\ matches' = [matches EXCEPT ![r] = @ \ {c}]
    /\ UNCHANGED <<mode, pc, token, domain, told, previous, sessions, storeVars,
                   revoking, target, seen, requestVars>>

RevokeReturns(r) ==
    /\ Running /\ revoking[r] = "closing" /\ matches[r] = {}
    /\ RevokeGoto(r, "done")
    /\ UNCHANGED <<mode, connVars, sessions, storeVars, target, matches, seen, requestVars>>

-----------------------------------------------------------------------------
(* registry.open on behalf of a public request.                            *)

\* The lookup, under the read lock.
Lookup(q, d) ==
    /\ Running /\ asking[q] = "idle"
    /\ host' = [host EXCEPT ![q] = d]
    /\ found' = [found EXCEPT ![q] = sessions[d]]
    /\ asking' = [asking EXCEPT ![q] = IF sessions[d] = NoConn THEN "offline" ELSE "opening"]
    /\ UNCHANGED <<mode, connVars, sessions, storeVars, revokeVars>>

\* OpenStreamSync, on the session found, which may have been replaced since.
OpenStream(q) ==
    /\ Running /\ asking[q] = "opening"
    /\ link[found[q]] = "open"
    /\ asking' = [asking EXCEPT ![q] = "forwarding"]
    /\ UNCHANGED <<mode, connVars, sessions, storeVars, revokeVars, host, found>>

\* The connection has ended, or 15 seconds passed without stream credit.
OpenStreamFails(q) ==
    /\ Running /\ asking[q] = "opening"
    /\ asking' = [asking EXCEPT ![q] = "offline"]
    /\ UNCHANGED <<mode, connVars, sessions, storeVars, revokeVars, host, found>>

-----------------------------------------------------------------------------
(* The process.                                                            *)

\* ctx is cancelled: Run drains the HTTP servers while the tunnels live on.
Drain ==
    /\ mode = "up"
    /\ mode' = "draining"
    /\ UNCHANGED <<connVars, sessions, storeVars, revokeVars, requestVars>>

\* The process ends, at any point: whatever is not in SQLite is gone.
Exit ==
    /\ Running
    /\ mode' = "down"
    /\ pc' = [c \in Conns |-> IF pc[c] = "new" THEN "new" ELSE "done"]
    /\ link' = [c \in Conns |-> IF link[c] = "open" THEN "lost" ELSE link[c]]
    /\ previous' = [c \in Conns |-> NoConn]
    /\ sessions' = [d \in Domains |-> NoConn]
    /\ revoking' = [r \in Revokers |->
         IF revoking[r] \in {"idle", "done"} THEN revoking[r] ELSE "failed"]
    /\ matches' = [r \in Revokers |-> {}]
    /\ asking' = [q \in Requests |-> IF asking[q] = "opening" THEN "offline" ELSE asking[q]]
    /\ UNCHANGED <<token, domain, told, storeVars, target, seen, host, found>>

Restart ==
    /\ mode = "down"
    /\ mode' = "up"
    /\ UNCHANGED <<connVars, sessions, storeVars, revokeVars, requestVars>>

-----------------------------------------------------------------------------
HandlerStep(c) ==
    \/ ControlStream(c) \/ NoControlStream(c) \/ Hello(c) \/ BadHello(c)
    \/ Authenticate(c) \/ AuthenticationFails(c) \/ Reserve(c) \/ ReserveFails(c)
    \/ Register(c) \/ ClosePrevious(c) \/ SendWelcome(c) \/ WelcomeFails(c)
    \/ SessionEnds(c) \/ HeartbeatFails(c) \/ Unregister(c) \/ CloseSession(c)

RevokeStep(r) ==
    \/ \E t \in Tokens : RevokeLookup(r, t)
    \/ RevokeDelete(r) \/ RevokeDeleteFails(r)
    \/ DisconnectSnapshot(r) \/ DisconnectOne(r) \/ RevokeReturns(r)

RequestStep(q) ==
    \/ \E d \in Domains : Lookup(q, d)
    \/ OpenStream(q) \/ OpenStreamFails(q)

Next ==
    \/ \E c \in Conns : Accept(c) \/ HandlerStep(c) \/ ConnectionLost(c)
    \/ \E t \in Tokens : CreateToken(t)
    \/ \E r \in Revokers : RevokeStep(r)
    \/ \E q \in Requests : RequestStep(q)
    \/ Drain \/ Exit \/ Restart

Spec == Init /\ [][Next]_vars

-----------------------------------------------------------------------------
TypeOK ==
    /\ mode \in {"up", "draining", "down"}
    /\ pc \in [Conns -> Steps]
    /\ link \in [Conns -> Links]
    /\ token \in [Conns -> Tokens \cup {NoToken}]
    /\ domain \in [Conns -> Names]
    /\ \A c \in Conns : pc[c] \in Named => domain[c] \in Domains
    /\ told \in [Conns -> {"nothing", "ok", "error"}]
    /\ previous \in [Conns -> Conns \cup {NoConn}]
    /\ sessions \in [Domains -> Conns \cup {NoConn}]
    /\ owner \in [Domains -> Tokens \cup {NoToken}]
    /\ managed \subseteq Tokens
    /\ revoked \subseteq Tokens
    /\ revoking \in [Revokers -> {"idle", "delete", "snapshot", "closing", "done", "failed"}]
    /\ target \in [Revokers -> Tokens \cup {NoToken}]
    /\ matches \in [Revokers -> SUBSET Conns]
    /\ seen \in [Revokers -> SUBSET Conns]
    /\ asking \in [Requests -> {"idle", "opening", "forwarding", "offline"}]
    /\ host \in [Requests -> Domains \cup {Unnamed}]
    /\ found \in [Requests -> Conns \cup {NoConn}]

\* The session that p's handler has displaced from the registry but not closed yet.
Displacing(p, c) == pc[p] = "replace" /\ previous[p] = c

\* A name is only ever served by a tunnel whose token holds its reservation:
\* reservations (store.Reserve) and the registry (registry.register) are two
\* stores written at different times by different handlers, and a restart
\* empties one of them.
SessionsOwned ==
    \A d \in Domains : \A c \in Conns :
        sessions[d] = c => /\ owner[d] = token[c]
                           /\ domain[c] = d

\* What a client was told in a Welcome stays true: the name it was given, and
\* will ask for again, is reserved for its token, across restarts too.
WelcomeIsKept ==
    \A c \in Conns : told[c] = "ok" =>
        /\ domain[c] \in Domains
        /\ owner[domain[c]] = token[c]

\* A tunnel that its client may believe to be online is the one registered for
\* its name, or the handler that displaced it is about to close it: no client
\* stays attached to an unregistered session (docs/architecture/0001).
NoOrphanedTunnel ==
    \A c \in Conns :
        pc[c] \in {"replace", "welcome", "serve"} /\ link[c] = "open" =>
            \/ sessions[domain[c]] = c
            \/ \E p \in Conns : Displacing(p, c)

\* A request reaches only a tunnel of the token that owns the requested name,
\* also when the session it looked up was replaced, closed or unregistered
\* before the stream was opened (registry.open).
RoutedToOwner ==
    \A q \in Requests :
        asking[q] \in {"opening", "forwarding"} =>
            /\ found[q] \in Conns
            /\ token[found[q]] = owner[host[q]]

\* A successful RevokeToken has closed every tunnel of the token that was
\* registered when its row was deleted, except one that a reconnect displaced
\* meanwhile and whose displacing handler is about to close, or one that its
\* own handler is about to close.
RevocationCloses ==
    \A r \in Revokers : revoking[r] = "done" =>
        \A c \in seen[r] :
            link[c] = "open" =>
                \/ pc[c] = "close"
                \/ \E p \in Conns : Displacing(p, c)

\* A registered name goes offline only when the handler of the session that
\* serves it says so (or the process ends): the late exit of a replaced handler
\* never takes its successor offline (registry.unregister).
VacatedByItsHandler ==
    [][\A d \in Domains :
        sessions[d] # NoConn /\ sessions'[d] = NoConn /\ mode' # "down"
            => pc[sessions[d]] = "unregister"]_vars

\* Once its row is deleted a token lets nobody in any more: of the handlers, only
\* those that had authenticated before go on, and their number never grows again
\* (store.AuthenticateClientToken; handleTunnel asks it once, server.go:265).
RevokedLetsNobodyIn ==
    [][\A c \in Conns :
        token'[c] \in revoked \ Bootstrap /\ pc'[c] \in {"reserve"} \cup Named
            => token[c] = token'[c] /\ pc[c] \in {"reserve"} \cup Named]_vars

\* README: a revocation "immediately closes its active tunnels": once
\* RevokeToken has returned success, no tunnel of the token is online.
RevokedTokenOffline ==
    \A r \in Revokers : revoking[r] = "done" =>
        \A c \in RegisteredFor(target[r]) : link[c] # "open"

\* A session whose connection has ended leaves the registry.
DeadSessionLeaves ==
    \A d \in Domains, c \in Conns :
        (sessions[d] = c /\ link[c] # "open") ~> (sessions[d] # c)

\* Once the control stream is there, the handshake ends: the tunnel serves, or
\* its handler is gone. No handler waits for another one.
HandshakeEnds ==
    \A c \in Conns : (pc[c] = "hello") ~> (pc[c] \in {"serve", "done"})

-----------------------------------------------------------------------------
(***************************************************************************)
(* The inductive invariant: at which step of its handler a connection may  *)
(* be registered, hold a reservation, be handed to a request or be         *)
(* recorded by a revocation.                                               *)
(***************************************************************************)
Known  == {"authenticate", "reserve"} \cup Named
Online == {"replace", "welcome", "serve", "unregister"}
Past   == Online \cup {"close", "done"}

HandlersHoldNames ==
    \A c \in Conns :
        /\ pc[c] \in Known => token[c] \in Tokens
        /\ pc[c] \in Named => owner[domain[c]] = token[c]
        /\ told[c] = "ok" => /\ pc[c] \in Past
                             /\ token[c] \in Tokens

RegisteredOnline ==
    \A d \in Domains, c \in Conns : sessions[d] = c => pc[c] \in Online

RequestsHoldSessions ==
    \A q \in Requests : found[q] # NoConn =>
        /\ host[q] \in Domains
        /\ pc[found[q]] \in Past
        /\ token[found[q]] \in Tokens

\* The handler of c, or of its successor, is about to close it.
Ending(c) == pc[c] = "close" \/ \E p \in Conns : Displacing(p, c)

RevocationReaches ==
    \A r \in Revokers : \A c \in seen[r] :
        /\ pc[c] \in Past
        /\ link[c] = "open" =>
            /\ revoking[r] = "snapshot" => c \in RegisteredFor(target[r]) \/ Ending(c)
            /\ revoking[r] = "closing"  => c \in matches[r] \/ Ending(c)
            /\ revoking[r] = "done"     => Ending(c)

IInv ==
    /\ TypeOK
    /\ HandlersHoldNames
    /\ RegisteredOnline
    /\ SessionsOwned
    /\ WelcomeIsKept
    /\ NoOrphanedTunnel
    /\ RequestsHoldSessions
    /\ RoutedToOwner
    /\ RevocationReaches

-----------------------------------------------------------------------------
(***************************************************************************)
(* The abstract service: which token serves a name, and to whom a request  *)
(* was handed.                                                             *)
(***************************************************************************)
HolderOf(c) == IF c = NoConn THEN NoToken ELSE token[c]

serving == [d \in Domains |-> HolderOf(sessions[d])]

FateOf == [idle |-> "waiting", opening |-> "assigned",
           forwarding |-> "forwarded", offline |-> "refused"]

fate == [q \in Requests |-> FateOf[asking[q]]]

server == [q \in Requests |-> HolderOf(found[q])]

Service == INSTANCE RelayService WITH asked <- host

\* The server implements the abstract service: reservations never move and
\* survive restarts, only the owner serves a name, a takeover by the same token
\* never shows, and a request is handed to the owner or refused.
ImplementsService == Service!Spec
=============================================================================
