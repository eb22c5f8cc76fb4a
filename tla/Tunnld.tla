------------------------------- MODULE Tunnld -------------------------------
(***************************************************************************)
(* The process of tunnld (cmd/tunnld/main.go, server.New, Server.Run):     *)
(* what it opens and closes again, its listeners, each in a goroutine, and *)
(* its end by a signal or by the failure of a listener, with the public    *)
(* requests under way and the metrics they count in.                       *)
(*                                                                         *)
(* What a configuration must satisfy is an outcome of Refuses and          *)
(* ConfigureFails.  Tunnels and the requests of the admin listener are     *)
(* modelled elsewhere (TunnelServer, AdminPanel); established QUIC         *)
(* connections outlive their listener, so that requests go on while the    *)
(* relay shuts down.                                                       *)
(***************************************************************************)
EXTENDS Metrics

CONSTANTS HTTP,     \* the HTTP listeners configured
          Requests  \* public requests
\* A listener is neither the name of what else is open nor the fate of a request.
ASSUME TunnldAssumption ==
    HTTP \cap {"database", "certificate", "quic", "no", "answered", "failed", "cut"} = {}

VARIABLES main,      \* the step of the main goroutine
          opened,    \* what is open: the database, the certificate cache, sockets
          server,    \* of each HTTP listener: its goroutine, or what that sent
          accepting, \* the goroutine of acceptTunnels, likewise
          stopping,  \* the servers whose Shutdown has begun
          drained,   \* those whose Shutdown has returned
          signalled, \* SIGINT or SIGTERM: ctx is cancelled
          late,      \* the 15 seconds of the shutdown have passed
          received,  \* what the select took from errorsChannel
          result,    \* what run returns
          request    \* of each request: "no", its listener, or its fate

startVars == <<main, opened, result>>
listenVars == <<server, accepting>>
endVars == <<stopping, drained, late, received>>
vars == <<startVars, listenVars, endVars, signalled, request, metricVars>>

Steps == {"check", "open", "configure", "certificate", "sample", "listen",
          "select", "shutdown", "wait", "unwind", "exited"}
Goroutines == {"none", "starting", "serving", "failed", "closed", "nil"}
Sent == {"failed", "closed", "nil"}

Init ==
    /\ MetricsInit
    /\ main = "check" /\ opened = {} /\ result = "none"
    /\ server = [h \in HTTP |-> "none"] /\ accepting = "none"
    /\ stopping = {} /\ drained = {} /\ late = FALSE /\ received = "none"
    /\ signalled = FALSE
    /\ request = [q \in Requests |-> "no"]

\* errorsChannel: it holds an error of each goroutine, and only the first one
\* is ever received; which one that is of several is left open.
Errors == Sent \cap ({accepting} \cup {server[h] : h \in HTTP})
Elsewhere == UNCHANGED <<signalled, request, metricVars>>

-----------------------------------------------------------------------------
(* New, and Run up to its listeners.                                       *)

Advances(from, to, open) ==
    /\ main = from /\ main' = to /\ opened' = opened \cup open
    /\ UNCHANGED <<result, listenVars, endVars>> /\ Elsewhere

Leaves(from, to, open) ==
    /\ main = from /\ main' = to /\ opened' = open /\ result' = "error"
    /\ UNCHANGED <<listenVars, endVars>> /\ Elsewhere

\* main.go and New before the database is opened, and store.Open, which closes
\* what it has opened when a statement fails.
Refuses == Leaves("check", "exited", {}) \/ Leaves("open", "exited", {})

\* Faulty variant: New returns and leaves the database open.
ConfigureFailsOpen == Leaves("configure", "exited", opened)

\* The tokens cannot be counted, there are none and no admin listener, or
\* NewHandler refuses the admin token: New closes the database.
ConfigureFails == Leaves("configure", "exited", {})

\* NewSource fails, also because ctx is cancelled, and stops its cache; or
\* quic.ListenAddr fails.
RunFails == Leaves("certificate", "unwind", opened) \/ Leaves("listen", "unwind", opened)

Starts ==
    \/ Advances("check", "open", {})
    \/ Advances("open", "configure", {"database"})
    \/ Advances("configure", "certificate", {})
    \/ Advances("certificate", "sample", {"certificate"})
    \/ readings # <<>> /\ Advances("sample", "listen", {})

\* The QUIC listener, and a goroutine for it and for each HTTP listener.
Listen ==
    /\ main = "listen" /\ main' = "select" /\ opened' = opened \cup {"quic"}
    /\ accepting' = "serving" /\ server' = [h \in HTTP |-> "starting"]
    /\ UNCHANGED <<result, endVars>> /\ Elsewhere

\* Run takes the first sample itself, the goroutine of sampleMetrics the others
\* until ctx is cancelled or Run returns.
TakesSample(c) ==
    /\ \/ main = "sample" /\ readings = <<>> /\ Tick(c)
       \/ main \in {"listen", "select", "shutdown", "wait"} /\ ~signalled /\ Tick(c)
       \/ main # "exited" /\ SampleGoesOn(c)
    /\ UNCHANGED <<startVars, listenVars, endVars, signalled, request>>

-----------------------------------------------------------------------------
(* The goroutines of the listeners.                                        *)

GoroutineStep(h, state, open) ==
    /\ server' = [server EXCEPT ![h] = state] /\ opened' = open
    /\ UNCHANGED <<main, result, accepting, endVars>> /\ Elsewhere

\* ListenAndServe: a socket, or a port that is taken.  Once Shutdown has begun
\* it returns ErrServerClosed.
Serve(h) ==
    /\ main # "exited" /\ server[h] = "starting"
    /\ IF h \in stopping THEN GoroutineStep(h, "closed", opened)
       ELSE GoroutineStep(h, "serving", opened \cup {h}) \/ GoroutineStep(h, "failed", opened)

\* The accept loop ends: because of Shutdown, or by itself.
ServeEnds(h) ==
    /\ main # "exited" /\ server[h] = "serving"
    /\ GoroutineStep(h, IF h \in stopping THEN "closed" ELSE "failed", opened \ {h})

\* acceptTunnels: the error of Accept, or nil when ctx is cancelled.
AcceptEnds ==
    /\ main # "exited" /\ accepting = "serving"
    /\ accepting' = IF signalled THEN "nil" ELSE "failed"
    /\ UNCHANGED <<startVars, server, endVars>> /\ Elsewhere

-----------------------------------------------------------------------------
(* The end.                                                                *)

\* main.go listens for signals when New has returned; before that a signal just
\* kills the process.
Signal ==
    /\ main \notin {"check", "open", "configure", "exited"} /\ ~signalled /\ signalled' = TRUE
    /\ UNCHANGED <<startVars, listenVars, endVars, request, metricVars>>

\* The select of Run: whichever is ready.
Select ==
    /\ main = "select" /\ main' = "shutdown"
    /\ \/ signalled /\ UNCHANGED received
       \/ received' \in Errors
    /\ UNCHANGED <<opened, result, listenVars, stopping, drained, late>> /\ Elsewhere

\* shutdown starts a goroutine for each server, which closes its socket first.
BeginShutdown(h) ==
    /\ main \in {"shutdown", "wait"} /\ h \notin stopping
    /\ stopping' = stopping \cup {h} /\ opened' = opened \ {h}
    /\ UNCHANGED <<main, result, listenVars, drained, late, received>> /\ Elsewhere

CloseQUIC ==
    /\ main = "shutdown" /\ main' = "wait" /\ opened' = opened \ {"quic"}
    /\ UNCHANGED <<result, listenVars, endVars>> /\ Elsewhere

Drains(h) ==
    /\ main \in {"shutdown", "wait"} /\ h \in stopping \ drained
    /\ drained' = drained \cup {h}
    /\ UNCHANGED <<startVars, listenVars, stopping, late, received>> /\ Elsewhere

NoneAt(h) == \A q \in Requests : request[q] # h

\* Faulty variant: without a timeout.
ShutdownReturnsDrained(h) == NoneAt(h) /\ Drains(h)

\* Shutdown returns when no request is left or the 15 seconds have passed.
ShutdownReturns(h) == (NoneAt(h) \/ late) /\ Drains(h)

TimePasses ==
    /\ main \in {"shutdown", "wait"} /\ ~late /\ late' = TRUE
    /\ UNCHANGED <<startVars, listenVars, stopping, drained, received>> /\ Elsewhere

Ends(value) ==
    /\ main = "wait" /\ main' = "unwind" /\ result' = value
    /\ UNCHANGED <<opened, listenVars, endVars>> /\ Elsewhere

Outcome == IF received = "failed" /\ ~signalled THEN "error" ELSE "ok"

\* Faulty variant: the goroutines of Shutdown are not waited for.
ReturnsAtOnce == Ends(Outcome)

\* group.Wait, and the value of Run: an error counts unless ctx is cancelled,
\* be it during the shutdown.
Returns == drained = HTTP /\ Ends(Outcome)

\* The deferred calls of Run and of main.  Then the process ends, and with it
\* whatever request is still under way.
Unwind ==
    /\ main = "unwind" /\ main' = "exited"
    /\ opened' = opened \ {"quic", "certificate", "database"}
    /\ request' = [q \in Requests |-> IF request[q] \in HTTP THEN "cut" ELSE request[q]]
    /\ UNCHANGED <<result, listenVars, endVars, signalled, metricVars>>

-----------------------------------------------------------------------------
(* Public requests: proxy counts each, and each that fails.                *)

RequestStep(q, from, to) ==
    /\ request[q] \in from /\ request' = [request EXCEPT ![q] = to]
    /\ UNCHANGED <<startVars, listenVars, endVars, signalled,
                   sampling, current, previous, history, readings>>

\* Faulty variant: a request counts only if it is not refused.
ArrivesUncounted(q, h) ==
    server[h] = "serving" /\ h \in opened /\ RequestStep(q, {"no"}, h) /\ UNCHANGED counters

Arrives(q, h) ==
    server[h] = "serving" /\ h \in opened /\ RequestStep(q, {"no"}, h) /\ CountRequest

\* An upgrade, a host that is none of this relay's, a tunnel that is offline,
\* an answer that fails or breaks off.
Fails(q) == RequestStep(q, HTTP, "failed") /\ CountFailure

Answered(q) == RequestStep(q, HTTP, "answered") /\ UNCHANGED counters

-----------------------------------------------------------------------------
MainStep == \/ Refuses \/ Starts \/ ConfigureFails \/ RunFails \/ Listen
            \/ Select \/ CloseQUIC \/ Returns \/ Unwind

ShutdownStep(h) == BeginShutdown(h) \/ ShutdownReturns(h)

Next ==
    \/ MainStep \/ Signal \/ TimePasses \/ AcceptEnds
    \/ \E h \in HTTP : Serve(h) \/ ServeEnds(h) \/ ShutdownStep(h)
    \/ \E c \in Calls : TakesSample(c)
    \/ \E q \in Requests : Fails(q) \/ Answered(q) \/ \E h \in HTTP : Arrives(q, h)

Spec == Init /\ [][Next]_vars

\* The main goroutine and those of the shutdown go on, and the timeout passes.
\* Nothing is assumed of requests, which may last for ever.
Fairness ==
    /\ WF_vars(MainStep) /\ WF_vars(TimePasses)
    /\ \A h \in HTTP : WF_vars(ShutdownStep(h))
    /\ WF_vars(main = "sample" /\ \E c \in Calls : TakesSample(c))

FairSpec == Spec /\ Fairness

-----------------------------------------------------------------------------
ProcessTypeOK ==
    /\ main \in Steps /\ opened \subseteq HTTP \cup {"database", "certificate", "quic"}
    /\ server \in [HTTP -> Goroutines] /\ accepting \in Goroutines
    /\ stopping \subseteq HTTP /\ drained \subseteq stopping
    /\ received \in Sent \cup {"none"} /\ result \in {"none", "ok", "error"}
    /\ signalled \in BOOLEAN /\ late \in BOOLEAN
    /\ request \in [Requests -> HTTP \cup {"no", "answered", "failed", "cut"}]

\* Types, and that no request fails twice or without having been counted (proxy).
TypeOK == ProcessTypeOK /\ MetricsTypeOK

\* When tunnld exits, by whatever error of its start or its end, it has closed
\* the database and every listener, also one whose goroutine came late
\* (server.go:104-124, 146, 170, 197-211; main.go:107).
EverythingReleased == main = "exited" => opened = {}

\* README: "Shutdown drains HTTP listeners before the server exits": a request
\* is cut off only when the 15 seconds have passed, also when it was a failing
\* listener that ended the relay (server.go:197-217).
RequestsDrained ==
    main = "exited" => late \/ \A q \in Requests : request[q] # "cut"

\* A relay that ends although nobody asked it to says so: run returns an error,
\* and the process exits with 1 (server.go:212-217).
UnaskedEndIsAnError == main = "exited" /\ ~signalled => result = "error"

\* A signal ends the relay, however long its requests last, and so does the end
\* of any listener: it does not go on with some of them (server.go:206-217).
RelayEnds == (signalled \/ Errors # {}) ~> main = "exited"
=============================================================================
