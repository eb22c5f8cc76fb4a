---------------------------- MODULE TunnelSystem ----------------------------
(***************************************************************************)
(* TunnelServer with its clients (internal/client, cmd/tunnl): processes   *)
(* of one user's machine that dial the relay, send the Hello, wait for the *)
(* Welcome, save the name they were given, serve, and dial again when the  *)
(* tunnel breaks.  All of them are started for the same relay and target,  *)
(* so they share one state file; other pairs have files of their own.      *)
(*                                                                         *)
(* link is the server's view of a connection.  A client may see it break   *)
(* at any time, also while the server still takes it for open; a Welcome   *)
(* may be lost with the connection that carries it.                        *)
(***************************************************************************)
EXTENDS TunnelServer

CONSTANTS
    Clients,    \* processes of the tunnl command
    Flags,      \* the flags they may be started with: [token, domain]
    SaveFails,  \* whether saveDomain may fail (the code goes on regardless)
    Nothing     \* no name: no file, no Hello

ASSUME ClientAssumption ==
    /\ Flags # {}
    /\ \A f \in Flags : f.token \in Tokens /\ f.domain \in Names
    /\ SaveFails \in BOOLEAN
    /\ Nothing \notin Names

VARIABLES
    at,      \* at[k]: the step the process k has reached
    flags,   \* flags[k]: what it was started with
    conn,    \* conn[k]: its connection
    shown,   \* shown[k]: the name of the public URL it last printed when it was
             \* started without --domain
    sent,    \* sent[c]: the Hello.Domain written on connection c
    dialler, \* dialler[c]: the flags of the client that dialled c
    saved    \* the state file

clientVars == <<at, flags, conn, shown, sent, dialler, saved>>
allVars == <<vars, clientVars>>

ClientSteps == {"stopped", "dial", "hello", "welcome", "save", "ready",
                "backoff", "rejected"}

SystemInit ==
    /\ Init
    /\ at = [k \in Clients |-> "stopped"]
    /\ flags \in [Clients -> Flags]
    /\ conn = [k \in Clients |-> NoConn]
    /\ shown = [k \in Clients |-> Nothing]
    /\ sent = [c \in Conns |-> Nothing]
    /\ dialler \in [Conns -> {CHOOSE f \in Flags : TRUE}]
    /\ saved = Nothing

-----------------------------------------------------------------------------
(* The client: tunnl's loop around Client.Run.                             *)

Go(k, step) == at' = [at EXCEPT ![k] = step]

\* The user starts tunnl, with the same flags as before or others.
Start(k) ==
    /\ at[k] = "stopped"
    /\ \E f \in Flags : flags' = [flags EXCEPT ![k] = f]
    /\ Go(k, "dial")
    /\ UNCHANGED <<vars, conn, shown, sent, dialler, saved>>

\* Interrupted, or killed, between any two steps, those of saveDomain included:
\* then the file holds the old name or the new one (module StateFile, where
\* rename replaces and the machine keeps its power).
Stop(k) ==
    /\ at[k] # "stopped"
    /\ Go(k, "stopped")
    /\ conn' = [conn EXCEPT ![k] = NoConn]
    /\ saved' \in {saved} \cup (IF at[k] = "save" THEN {domain[conn[k]]} ELSE {})
    /\ UNCHANGED <<vars, flags, shown, sent, dialler>>

Dial(k) ==
    /\ at[k] = "dial" /\ mode = "up"
    /\ \E c \in Conns :
        /\ Accept(c)
        /\ conn' = [conn EXCEPT ![k] = c]
        /\ dialler' = [dialler EXCEPT ![c] = flags[k]]
    /\ Go(k, "hello")
    /\ UNCHANGED <<flags, shown, sent, saved>>

\* DialAddr, OpenStreamSync, Encode, Decode or AcceptStream returns an error:
\* Run returns one that is not a rejection, and the loop goes to sleep.
Breaks(k) ==
    /\ at[k] \in {"dial", "hello", "welcome", "ready"}
    /\ Go(k, "backoff")
    /\ conn' = [conn EXCEPT ![k] = NoConn]
    /\ UNCHANGED <<vars, flags, shown, sent, dialler, saved>>

\* The name in the state file is read for each Hello; --domain goes before it.
WantedName(k) ==
    IF flags[k].domain # Unnamed THEN flags[k].domain
    ELSE IF saved # Nothing THEN saved ELSE Unnamed

\* Faulty variant, for the sensitivity of the properties: the name is saved as it
\* is asked for, not as it is granted.
SendHelloSaving(k) ==
    /\ at[k] = "hello"
    /\ sent' = [sent EXCEPT ![conn[k]] = WantedName(k)]
    /\ saved' = IF WantedName(k) = Unnamed THEN saved ELSE WantedName(k)
    /\ Go(k, "welcome")
    /\ UNCHANGED <<vars, flags, conn, shown, dialler>>

SendHello(k) ==
    /\ at[k] = "hello"
    /\ sent' = [sent EXCEPT ![conn[k]] = WantedName(k)]
    /\ Go(k, "welcome")
    /\ UNCHANGED <<vars, flags, conn, shown, dialler, saved>>

ReadWelcome(k) ==
    /\ at[k] = "welcome" /\ told[conn[k]] = "ok"
    /\ Go(k, "save")
    /\ UNCHANGED <<vars, flags, conn, shown, sent, dialler, saved>>

\* "relay rejected tunnel": the process prints the error and ends.
ReadRejection(k) ==
    /\ at[k] = "welcome" /\ told[conn[k]] = "error"
    /\ Go(k, "rejected")
    /\ UNCHANGED <<vars, flags, conn, shown, sent, dialler, saved>>

Shows(k) == shown' = [shown EXCEPT ![k] = IF flags[k].domain = Unnamed
                                             THEN domain[conn[k]] ELSE @]

\* Faulty variant, for the sensitivity of the properties: the name is not saved
\* before the URL is printed, but as the tunnel ends.
SaveDomainNever(k) ==
    /\ at[k] = "save"
    /\ Shows(k)
    /\ Go(k, "ready")
    /\ UNCHANGED <<vars, flags, conn, sent, dialler, saved>>

\* saveDomain, whose error is only logged; then OnReady prints the URL.
SaveDomain(k) ==
    /\ at[k] = "save"
    /\ saved' \in {domain[conn[k]]} \cup (IF SaveFails THEN {saved} ELSE {})
    /\ Shows(k)
    /\ Go(k, "ready")
    /\ UNCHANGED <<vars, flags, conn, sent, dialler>>

\* The delay, doubled up to 30 seconds and reset by OnReady, passes.
Retry(k) ==
    /\ at[k] = "backoff"
    /\ Go(k, "dial")
    /\ UNCHANGED <<vars, flags, conn, shown, sent, dialler, saved>>

ClientStep(k) ==
    \/ Start(k) \/ Stop(k) \/ Dial(k) \/ Breaks(k) \/ SendHello(k)
    \/ ReadWelcome(k) \/ ReadRejection(k) \/ SaveDomain(k) \/ Retry(k)

-----------------------------------------------------------------------------
(* The server, for what its clients send.                                  *)

\* A stream exists for the server once something was written on it.
ControlArrives(c) == sent[c] # Nothing /\ ControlStream(c)

HelloArrives(c) ==
    /\ Hello(c)
    /\ token'[c] = dialler[c].token
    /\ domain'[c] = sent[c]

\* The Hello of a client has the right version; it may still come too late.
HelloLost(c) == BadHello(c) /\ told'[c] = told[c]

Served(c) ==
    \/ ControlArrives(c) \/ NoControlStream(c) \/ HelloArrives(c) \/ HelloLost(c)
    \/ Authenticate(c) \/ AuthenticationFails(c) \/ Reserve(c) \/ ReserveFails(c)
    \/ Register(c) \/ ClosePrevious(c) \/ SendWelcome(c) \/ WelcomeFails(c)
    \/ SessionEnds(c) \/ HeartbeatFails(c) \/ Unregister(c) \/ CloseSession(c)

ServerStep ==
    \/ \E c \in Conns : Served(c) \/ ConnectionLost(c)
    \/ \E t \in Tokens : CreateToken(t)
    \/ \E r \in Revokers : RevokeStep(r)
    \/ \E q \in Requests : RequestStep(q)
    \/ Drain \/ Exit \/ Restart

SystemNext ==
    \/ \E k \in Clients : ClientStep(k)
    \/ ServerStep /\ UNCHANGED clientVars

\* The client whose tunnel c is, in its own eyes.
Attached(c) == \E k \in Clients : conn[k] = c /\ at[k] \in {"save", "ready"}

(***************************************************************************)
(* Fairness: of a client, that it goes on where nothing but itself is      *)
(* waited for, and that it notices a closed connection (the close frame,   *)
(* or its own idle timeout of 45 seconds); of the server, its deadlines    *)
(* and, in the heartbeat loop, the one of HeartbeatTimeout once the        *)
(* client is gone.  A Hello need never come, since 10 seconds end the wait *)
(* for it (HelloLost); AcceptStream has no deadline, so nothing is assumed *)
(* of a connection without a control stream but that its client goes on or *)
(* is gone.                                                                *)
(***************************************************************************)
Expires(c) == ~Attached(c) /\ HeartbeatFails(c) /\ UNCHANGED clientVars

NoticesClose(k) ==
    at[k] \in {"hello", "welcome", "ready"} /\ link[conn[k]] # "open" /\ Breaks(k)

GoesOn(c) ==
    /\ \/ NoControlStream(c) \/ HelloLost(c)
       \/ Authenticate(c) \/ AuthenticationFails(c) \/ Reserve(c) \/ ReserveFails(c)
       \/ Register(c) \/ ClosePrevious(c) \/ SendWelcome(c) \/ WelcomeFails(c)
       \/ SessionEnds(c) \/ Unregister(c) \/ CloseSession(c)
    /\ UNCHANGED clientVars

SystemFairness ==
    /\ \A k \in Clients :
        /\ WF_allVars(SendHello(k) \/ SaveDomain(k) \/ Retry(k))
        /\ WF_allVars(NoticesClose(k))
    /\ \A c \in Conns : WF_allVars(GoesOn(c)) /\ WF_allVars(Expires(c))

SystemSpec == SystemInit /\ [][SystemNext]_allVars
FairSystemSpec == SystemSpec /\ SystemFairness

-----------------------------------------------------------------------------
ClientTypeOK ==
    /\ at \in [Clients -> ClientSteps]
    /\ flags \in [Clients -> Flags]
    /\ conn \in [Clients -> Conns \cup {NoConn}]
    /\ shown \in [Clients -> Domains \cup {Nothing}]
    /\ sent \in [Conns -> Names \cup {Nothing}]
    /\ dialler \in [Conns -> Flags]
    /\ saved \in Domains \cup {Nothing}
    /\ \A k \in Clients : at[k] \in {"hello", "welcome", "save", "ready"} => conn[k] \in Conns

\* The names that the user has asked for with --domain under token t.
AskedWith(t) == {f.domain : f \in {g \in Flags : g.token = t}} \ {Unnamed}

\* README: "Random subdomains are saved locally and reused automatically": the
\* public URL of a client that asks for no name stays the same over reconnects
\* and restarts, of the client and of the relay, or becomes a name that was asked
\* for with --domain under the same token. It never becomes another random one.
\* That the first name is given up for the second is what saveDomain does
\* (client.go:112), whoever asked for the name; README.md says nothing of it.
NameIsStable ==
    [][\A k \in Clients :
        flags[k].domain = Unnamed /\ shown[k] # Nothing
            => shown'[k] \in {shown[k]} \cup AskedWith(flags[k].token)]_allVars

\* The name that a client without --domain asks for, since it is in the file, was
\* granted to a tunnel of this machine and is still reserved for the token of that
\* one, over kills in saveDomain, reconnects and restarts of the relay. A client
\* of another token asks for it all the same, is refused, and ends (client.go:91-95).
AskedNameWasGranted ==
    \A c \in Conns :
        pc[c] = "reserve" /\ dialler[c].domain = Unnamed /\ domain[c] # Unnamed =>
            \E earlier \in Conns :
                /\ told[earlier] = "ok" /\ domain[earlier] = domain[c]
                /\ owner[domain[c]] = token[earlier]

\* The name in the state file is reserved for a token of this machine. It need not
\* be the token of who reads the file next.
SavedNameIsOurs ==
    saved # Nothing => \E f \in Flags : owner[saved] = f.token

\* The public URL that a client shows is its own: while its connection is up, a
\* request for the name finds this client in the registry, or the relay is about
\* to close the connection (the handler that displaced it, or its own that ends).
\* Handlers of earlier connections may still be at any step (registry.go:33-51).
ShownUrlIsServed ==
    \A k \in Clients :
        at[k] \in {"save", "ready"} /\ link[conn[k]] = "open" =>
            /\ owner[domain[conn[k]]] = flags[k].token
            /\ \/ sessions[domain[conn[k]]] = conn[k]
               \/ pc[conn[k]] \in {"unregister", "close"}
               \/ \E p \in Conns : Displacing(p, conn[k])

\* A public URL that was printed stays with this machine, also when its clients
\* are gone, killed or refused, and when the relay was restarted: it is reserved
\* for a token of the machine, and a request for it reaches a tunnel of that
\* token or none (store.go:67-101, registry.go:59-67, client.go:104-118).
ShownUrlIsPrivate ==
    \A k \in Clients : shown[k] # Nothing =>
        \E f \in Flags :
            /\ owner[shown[k]] = f.token
            /\ \A q \in Requests :
                 asking[q] \in {"opening", "forwarding"} /\ host[q] = shown[k]
                     => token[found[q]] = f.token

\* docs/architecture/0001: "so the client can reconnect rather than remaining
\* attached to an unregistered session".
NoAttachmentToTheUnregistered ==
    \A k \in Clients, c \in Conns :
        (at[k] = "ready" /\ conn[k] = c /\ \A d \in Domains : sessions[d] # c)
            ~> ~(at[k] = "ready" /\ conn[k] = c)

\* README: "The server expires clients that stop sending heartbeats."
GoneClientExpires ==
    \A c \in Conns, d \in Domains :
        (sessions[d] = c /\ ~Attached(c)) ~> (sessions[d] # c \/ Attached(c))
=============================================================================
