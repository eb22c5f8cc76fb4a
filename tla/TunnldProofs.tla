---------------------------- MODULE TunnldProofs ----------------------------
(***************************************************************************)
(* What TLAPS proves of Tunnld and Metrics for any number of listeners and *)
(* requests.                                                               *)
(***************************************************************************)
EXTENDS Tunnld, FiniteSetTheorems, SequenceTheorems, TLAPS

-----------------------------------------------------------------------------
(* The process: its invariant.                                             *)

Fixed == {"database", "certificate", "quic"}
Starting == {"check", "open", "configure", "certificate", "sample", "listen"}

\* Which goroutines there are at each step of the main one.
GoroutinesInStep ==
    /\ main \in Starting => \A h \in HTTP : server[h] = "none"
    /\ main \in Starting => accepting = "none"
    /\ main \in Starting \cup {"select"} => stopping = {}
    /\ main \in {"unwind", "exited"} =>
         drained = HTTP \/ \A h \in HTTP : server[h] = "none"
    /\ \A q \in Requests : request[q] \in HTTP => server[request[q]] # "none"

\* Whatever is open is closed by a deferred call, or is the socket of a listener
\* that serves and that nobody has shut down yet.
OpenIsClosedLater ==
    /\ \A x \in opened : x \in Fixed \/ (server[x] = "serving" /\ x \notin stopping)
    /\ main \in {"check", "open", "exited"} => opened = {}

\* A listener that is drained has no request.
DrainedIsEmpty ==
    /\ ~late => \A h \in drained : NoneAt(h)
    /\ main # "exited" => \A q \in Requests : request[q] # "cut"
    /\ RequestsDrained

\* The relay ends because it was told to, or with the error it has received.
AskedOrFailed ==
    /\ accepting # "closed" /\ (accepting = "nil" => signalled)
    /\ \A h \in HTTP : server[h] # "nil" /\ (server[h] = "closed" => h \in stopping)
    /\ main \in {"shutdown", "wait"} /\ ~signalled => received = "failed"
    /\ main \in {"unwind", "exited"} /\ ~signalled => result = "error"

ProcessInv ==
    ProcessTypeOK /\ GoroutinesInStep /\ OpenIsClosedLater /\ DrainedIsEmpty /\ AskedOrFailed

LEMMA ProcessInit == Init => ProcessInv
BY TunnldAssumption
   DEF Init, ProcessInv, ProcessTypeOK, Steps, Goroutines, Sent, GoroutinesInStep,
       OpenIsClosedLater, DrainedIsEmpty, NoneAt, RequestsDrained, AskedOrFailed

LEMMA StartKeeps ==
    ASSUME ProcessInv, Refuses \/ Starts \/ ConfigureFails \/ RunFails \/ Listen
    PROVE  ProcessInv'
<1> USE TunnldAssumption
    DEF ProcessInv, ProcessTypeOK, Steps, Goroutines, Sent, GoroutinesInStep, Starting, Fixed,
        OpenIsClosedLater, DrainedIsEmpty, NoneAt, RequestsDrained, AskedOrFailed,
        listenVars, endVars, Elsewhere, Advances, Leaves
<1>1. CASE Refuses BY <1>1 DEF Refuses
<1>2. CASE Starts BY <1>2 DEF Starts
<1>3. CASE ConfigureFails BY <1>3 DEF ConfigureFails
<1>4. CASE RunFails BY <1>4 DEF RunFails
<1>5. CASE Listen BY <1>5 DEF Listen
<1>6. QED BY <1>1, <1>2, <1>3, <1>4, <1>5

LEMMA GoroutinesKeep ==
    ASSUME ProcessInv, AcceptEnds \/ \E h \in HTTP : Serve(h) \/ ServeEnds(h)
    PROVE  ProcessInv'
<1> USE TunnldAssumption
    DEF ProcessInv, ProcessTypeOK, Steps, Goroutines, Sent, GoroutinesInStep, Starting, Fixed,
        OpenIsClosedLater, DrainedIsEmpty, NoneAt, RequestsDrained, AskedOrFailed,
        startVars, endVars, Elsewhere, GoroutineStep
<1>1. CASE AcceptEnds BY <1>1 DEF AcceptEnds
<1>2. ASSUME NEW h \in HTTP, Serve(h) PROVE ProcessInv'
    BY <1>2 DEF Serve
<1>3. ASSUME NEW h \in HTTP, ServeEnds(h) PROVE ProcessInv'
    BY <1>3 DEF ServeEnds
<1>4. QED BY <1>1, <1>2, <1>3

LEMMA EndKeeps ==
    ASSUME ProcessInv,
           \/ Signal \/ Select \/ CloseQUIC \/ TimePasses \/ Returns \/ Unwind
           \/ \E h \in HTTP : ShutdownStep(h)
    PROVE  ProcessInv'
<1> USE TunnldAssumption
    DEF ProcessInv, ProcessTypeOK, Steps, Goroutines, Sent, GoroutinesInStep, Starting, Fixed,
        OpenIsClosedLater, DrainedIsEmpty, NoneAt, RequestsDrained, AskedOrFailed,
        startVars, listenVars, endVars, Elsewhere
<1>1. CASE Signal BY <1>1 DEF Signal
<1>2. CASE Select
    <2>1. ASSUME ~signalled, NEW e \in Errors PROVE e = "failed"
        BY <1>2, <2>1 DEF Select, Errors
    <2>2. Errors \subseteq Sent BY DEF Errors
    <2>3. QED BY <1>2, <2>1, <2>2 DEF Select
<1>3. CASE CloseQUIC BY <1>3 DEF CloseQUIC
<1>4. CASE TimePasses BY <1>4 DEF TimePasses
<1>5. CASE Returns BY <1>5 DEF Returns, Ends, Outcome
<1>6. CASE Unwind BY <1>6 DEF Unwind
<1>7. ASSUME NEW h \in HTTP, BeginShutdown(h) PROVE ProcessInv'
    BY <1>7 DEF BeginShutdown
<1>8. ASSUME NEW h \in HTTP, ShutdownReturns(h) PROVE ProcessInv'
    BY <1>8 DEF ShutdownReturns, Drains
<1>9. QED BY <1>1, <1>2, <1>3, <1>4, <1>5, <1>6, <1>7, <1>8 DEF ShutdownStep

LEMMA RequestsKeep ==
    ASSUME ProcessInv,
           \/ \E c \in Calls : TakesSample(c)
           \/ \E q \in Requests : Fails(q) \/ Answered(q) \/ \E h \in HTTP : Arrives(q, h)
           \/ UNCHANGED vars
    PROVE  ProcessInv'
<1> USE TunnldAssumption
    DEF ProcessInv, ProcessTypeOK, Steps, Goroutines, Sent, GoroutinesInStep, Starting, Fixed,
        OpenIsClosedLater, DrainedIsEmpty, NoneAt, RequestsDrained, AskedOrFailed,
        startVars, listenVars, endVars, RequestStep
<1>1. ASSUME NEW c \in Calls, TakesSample(c) PROVE ProcessInv'
    BY <1>1 DEF TakesSample
<1>2. ASSUME NEW q \in Requests, NEW h \in HTTP, Arrives(q, h) PROVE ProcessInv'
    BY <1>2 DEF Arrives
<1>3. ASSUME NEW q \in Requests, Fails(q) \/ Answered(q) PROVE ProcessInv'
    BY <1>3 DEF Fails, Answered
<1>4. CASE UNCHANGED vars BY <1>4 DEF vars
<1>5. QED BY <1>1, <1>2, <1>3, <1>4

LEMMA ProcessInvariance == Spec => []ProcessInv
<1>1. ProcessInv /\ [Next]_vars => ProcessInv'
    BY StartKeeps, GoroutinesKeep, EndKeeps, RequestsKeep DEF Next, MainStep
<1>2. QED BY ProcessInit, <1>1, PTL DEF Spec

\* Whatever error ends it, and however late its goroutines start, tunnld has closed
\* all it opened when it exits (server.go:104-124, 146, 170, 197-211; main.go:107).
THEOREM AllIsReleased == Spec => []EverythingReleased
<1>1. ProcessInv => EverythingReleased
    BY DEF ProcessInv, OpenIsClosedLater, EverythingReleased
<1>2. QED BY <1>1, ProcessInvariance, PTL

\* A request is cut off only when the 15 seconds of the shutdown have passed
\* (server.go:197-217).
THEOREM RequestsAreDrained == Spec => []RequestsDrained
<1>1. ProcessInv => RequestsDrained
    BY DEF ProcessInv, DrainedIsEmpty
<1>2. QED BY <1>1, ProcessInvariance, PTL

\* Without a signal, tunnld exits with an error only (server.go:212-217).
THEOREM UnaskedEndFails == Spec => []UnaskedEndIsAnError
<1>1. ProcessInv => UnaskedEndIsAnError
    BY DEF ProcessInv, AskedOrFailed, UnaskedEndIsAnError
<1>2. QED BY <1>1, ProcessInvariance, PTL

-----------------------------------------------------------------------------
(* The metrics: what a step of the relay is for them.                      *)

Counts == CountRequest \/ CountFailure
Samples == \E c \in Calls : Tick(c) \/ LoadFailures(c) \/ Record(c)
samplingVars == <<sampling, current, previous, history, readings>>

LEMMA MetricsStep ==
    ASSUME [Next]_vars
    PROVE  (Counts /\ UNCHANGED samplingVars) \/ Samples \/ UNCHANGED metricVars
<1> USE DEF samplingVars, metricVars, counters
<1>1. CASE MainStep
    BY <1>1 DEF MainStep, Refuses, Starts, ConfigureFails, RunFails, Listen, Select, CloseQUIC,
                Returns, Ends, Unwind, Advances, Leaves, Elsewhere
<1>2. CASE Signal \/ TimePasses \/ AcceptEnds
    BY <1>2 DEF Signal, TimePasses, AcceptEnds, Elsewhere
<1>3. ASSUME NEW h \in HTTP, Serve(h) \/ ServeEnds(h) \/ ShutdownStep(h)
      PROVE  UNCHANGED metricVars
    BY <1>3 DEF Serve, ServeEnds, GoroutineStep, ShutdownStep, BeginShutdown, ShutdownReturns,
                Drains, Elsewhere
<1>4. ASSUME NEW c \in Calls, TakesSample(c) PROVE Samples
    BY <1>4 DEF TakesSample, SampleGoesOn, Samples
<1>5. ASSUME NEW q \in Requests, NEW h \in HTTP, Arrives(q, h)
      PROVE  Counts /\ UNCHANGED samplingVars
    BY <1>5 DEF Arrives, RequestStep, Counts
<1>6. ASSUME NEW q \in Requests, Fails(q)
      PROVE  Counts /\ UNCHANGED samplingVars
    BY <1>6 DEF Fails, RequestStep, Counts
<1>7. ASSUME NEW q \in Requests, Answered(q) PROVE UNCHANGED metricVars
    BY <1>7 DEF Answered, RequestStep
<1>8. CASE UNCHANGED vars BY <1>8 DEF vars
<1>9. QED BY <1>1, <1>2, <1>3, <1>4, <1>5, <1>6, <1>7, <1>8 DEF Next

-----------------------------------------------------------------------------
(* No request is counted twice, and none fails that was not counted.       *)

Counted == {q \in Requests : request[q] # "no"}
Failed == {q \in Requests : request[q] = "failed"}

CountsAreExact ==
    /\ IsFiniteSet(Counted)
    /\ totalRequests = Cardinality(Counted)
    /\ failedRequests = Cardinality(Failed)

LEMMA CountsInit == Init => CountsAreExact
<1>1. ASSUME Init PROVE Counted = {} /\ Failed = {}
    BY <1>1 DEF Init, Counted, Failed
<1>2. QED BY <1>1, FS_EmptySet DEF Init, MetricsInit, CountsAreExact

LEMMA CountsKeep ==
    ASSUME ProcessTypeOK, CountsAreExact, [Next]_vars
    PROVE  CountsAreExact'
<1> USE TunnldAssumption
<1>1. ASSUME Counted' = Counted, Failed' = Failed, UNCHANGED counters PROVE CountsAreExact'
    BY <1>1 DEF CountsAreExact, counters
<1>2. ASSUME NEW q \in Requests, NEW h \in HTTP, Arrives(q, h) PROVE CountsAreExact'
    <2>1. /\ q \notin Counted /\ Counted' = Counted \cup {q} /\ Failed' = Failed
        BY <1>2 DEF Arrives, RequestStep, Counted, Failed, ProcessTypeOK
    <2>2. QED BY <1>2, <2>1, FS_AddElement DEF Arrives, CountRequest, CountsAreExact
<1>3. ASSUME NEW q \in Requests, Fails(q) PROVE CountsAreExact'
    <2>1. /\ q \notin Failed /\ Counted' = Counted /\ Failed' = Failed \cup {q}
        BY <1>3 DEF Fails, RequestStep, Counted, Failed, ProcessTypeOK
    <2>2. IsFiniteSet(Failed) BY FS_Subset DEF CountsAreExact, Counted, Failed
    <2>3. QED BY <1>3, <2>1, <2>2, FS_AddElement DEF Fails, CountFailure, CountsAreExact
<1>4. ASSUME NEW q \in Requests, Answered(q) PROVE CountsAreExact'
    <2>1. Counted' = Counted /\ Failed' = Failed
        BY <1>4 DEF Answered, RequestStep, Counted, Failed, ProcessTypeOK
    <2>2. QED BY <1>1, <1>4, <2>1 DEF Answered
<1>5. CASE Unwind
    <2>1. Counted' = Counted /\ Failed' = Failed
        BY <1>5 DEF Unwind, Counted, Failed, ProcessTypeOK
    <2>2. QED BY <1>1, <1>5, <2>1 DEF Unwind, metricVars, counters
<1>6. ASSUME UNCHANGED <<request, counters>> PROVE CountsAreExact'
    BY <1>1, <1>6 DEF Counted, Failed
<1>7. CASE MainStep /\ ~Unwind
    BY <1>6, <1>7 DEF MainStep, Refuses, Starts, ConfigureFails, RunFails, Listen, Select,
                      CloseQUIC, Returns, Ends, Advances, Leaves, Elsewhere, metricVars
<1>8. CASE Signal \/ TimePasses \/ AcceptEnds
    BY <1>6, <1>8 DEF Signal, TimePasses, AcceptEnds, Elsewhere, metricVars
<1>9. ASSUME NEW h \in HTTP, Serve(h) \/ ServeEnds(h) \/ ShutdownStep(h)
      PROVE  CountsAreExact'
    BY <1>6, <1>9 DEF Serve, ServeEnds, GoroutineStep, ShutdownStep, BeginShutdown,
                      ShutdownReturns, Drains, Elsewhere, metricVars
<1>10. ASSUME NEW c \in Calls, TakesSample(c) PROVE CountsAreExact'
    BY <1>6, <1>10 DEF TakesSample, SampleGoesOn, Tick, Loads, LoadFailures, Record, counters
<1>11. CASE UNCHANGED vars BY <1>6, <1>11 DEF vars, metricVars
<1>12. QED BY <1>2, <1>3, <1>4, <1>5, <1>7, <1>8, <1>9, <1>10, <1>11 DEF Next

LEMMA CountsBound ==
    ASSUME CountsAreExact
    PROVE  totalRequests \in Nat /\ failedRequests \in 0 .. totalRequests
<1>1. Failed \in SUBSET Counted BY DEF Counted, Failed
<1>2. QED BY <1>1, FS_Subset, FS_CardinalityType DEF CountsAreExact

-----------------------------------------------------------------------------
(* The window: sequences cut to their last elements.                       *)

\* What Last returns: the sequence, or its end, moved down.
LEMMA LastIsTheEnd ==
    ASSUME NEW S, NEW s \in Seq(S), NEW n \in Nat \ {0}
    PROVE  /\ Last(n, s) \in Seq(S)
           /\ Len(Last(n, s)) = IF Len(s) < n THEN Len(s) ELSE n
           /\ \A i \in 1 .. Len(Last(n, s)) :
                Last(n, s)[i] = s[Len(s) - Len(Last(n, s)) + i]
<1>1. CASE Len(s) <= n
    <2>1. Last(n, s) = s BY <1>1, LenProperties DEF Last
    <2>2. QED BY <1>1, <2>1, LenProperties
<1>2. CASE Len(s) > n
    <2>1. Last(n, s) = SubSeq(s, Len(s) - n + 1, Len(s)) BY <1>2 DEF Last
    <2>2. \A i \in Len(s) - n + 1 .. Len(s) : s[i] \in S BY <1>2, LenProperties, ElementOfSeq
    <2>3. QED BY <1>2, <2>1, <2>2, LenProperties, SubSeqProperties
<1>3. QED BY <1>1, <1>2, LenProperties

IsPushed(t, s, e, n) ==
    /\ t \in Seq(Reading)
    /\ Len(t) = IF Len(s) < n THEN Len(s) + 1 ELSE n
    /\ t[Len(t)] = e
    /\ \A i \in 1 .. Len(t) - 1 : t[i] = s[Len(s) + 1 - Len(t) + i]

\* A sample that is recorded is the last one; the others move down or stay.
LEMMA AppendedAndCut ==
    ASSUME NEW s \in Seq(Reading), NEW e \in Reading, NEW n \in Nat \ {0}, Len(s) <= n
    PROVE  IsPushed(Last(n, Append(s, e)), s, e, n)
<1> DEFINE a == Append(s, e)
           t == Last(n, a)
<1>1. /\ a \in Seq(Reading) /\ Len(a) = Len(s) + 1 /\ a[Len(s) + 1] = e
      /\ \A i \in 1 .. Len(s) : a[i] = s[i]
    BY AppendProperties
<1>2. /\ t \in Seq(Reading)
      /\ Len(t) = IF Len(a) < n THEN Len(a) ELSE n
      /\ \A i \in 1 .. Len(t) : t[i] = a[Len(a) - Len(t) + i]
    BY <1>1, LastIsTheEnd
<1> HIDE DEF a, t
<1>3. Len(s) \in Nat BY LenProperties
<1>4. Len(t) = IF Len(s) < n THEN Len(s) + 1 ELSE n BY <1>1, <1>2, <1>3
<1>5. t[Len(t)] = e
    <2>1. Len(t) \in 1 .. Len(t) /\ Len(a) - Len(t) + Len(t) = Len(s) + 1
        BY <1>1, <1>3, <1>4
    <2>2. t[Len(t)] = a[Len(a) - Len(t) + Len(t)] BY <1>2, <2>1
    <2>3. QED BY <1>1, <2>1, <2>2
<1>6. ASSUME NEW i \in 1 .. Len(t) - 1 PROVE t[i] = s[Len(s) + 1 - Len(t) + i]
    <2>1. /\ i \in 1 .. Len(t)
          /\ Len(a) - Len(t) + i = Len(s) + 1 - Len(t) + i
          /\ Len(s) + 1 - Len(t) + i \in 1 .. Len(s)
        BY <1>1, <1>3, <1>4
    <2>2. t[i] = a[Len(s) + 1 - Len(t) + i] BY <1>2, <2>1
    <2>3. QED BY <1>1, <2>1, <2>2
<1>7. IsPushed(t, s, e, n) BY <1>2, <1>4, <1>5, <1>6 DEF IsPushed
<1>8. QED BY <1>7 DEF t, a

-----------------------------------------------------------------------------
(* The history of the metrics: its invariant.                              *)

\* A difference of counters, the later one not behind, is not larger than it.
LEMMA MinusIsBounded ==
    ASSUME NEW a \in Reading, NEW b \in Reading,
           b.requests <= a.requests, b.failures <= a.failures
    PROVE  /\ Minus(a, b) \in Reading
           /\ Minus(a, b).requests <= a.requests /\ Minus(a, b).failures <= a.failures
<1>1. ASSUME NEW m \in Nat, NEW n \in Nat, n <= m
      PROVE  (m - n) % Width \in Nat /\ (m - n) % Width <= m
    BY <1>1, MetricsAssumption
<1>2. QED BY <1>1 DEF Minus, Reading

SamplingTypes ==
    /\ sampling \in [Calls -> {"idle", "requests", "failures"}]
    /\ current \in [Calls -> Reading]
    /\ previous \in Seq(Reading) /\ Len(previous) <= 1
    /\ history \in Seq(Reading) /\ readings \in Seq(Reading)

\* One call at a time; what it has loaded is not behind the last record, and not
\* ahead of the counters.
LoadedInOrder ==
    /\ \A c, d \in Calls : sampling[c] # "idle" /\ sampling[d] # "idle" => c = d
    /\ \A c \in Calls : /\ current[c].requests <= totalRequests
                        /\ current[c].failures <= failedRequests
    /\ previous # <<>> =>
         /\ previous[1].requests <= totalRequests /\ previous[1].failures <= failedRequests
         /\ \A c \in Calls :
              /\ sampling[c] # "idle" => previous[1].requests <= current[c].requests
              /\ sampling[c] = "failures" => previous[1].failures <= current[c].failures

\* previous is the last reading, and the readings are those of the history and
\* the one before.
ReadingsAreRecent ==
    /\ Len(readings) <= Limit + 1
    /\ (previous = <<>>) <=> (readings = <<>>)
    /\ previous # <<>> => previous[1] = readings[Len(readings)]

HistoryInv ==
    SamplingTypes /\ LoadedInOrder /\ NoSampleWraps /\ ReadingsAreRecent /\ HistoryIsTheWindow

LEMMA HistoryInit == Init => HistoryInv
<1> SUFFICES ASSUME Init PROVE HistoryInv OBVIOUS
<1> USE MetricsAssumption, EmptySeq DEF Init, MetricsInit, Zero, Reading
<1>1. SamplingTypes BY DEF SamplingTypes
<1>2. LoadedInOrder BY DEF LoadedInOrder
<1>3. NoSampleWraps BY DEF NoSampleWraps
<1>4. ReadingsAreRecent BY DEF ReadingsAreRecent
<1>5. HistoryIsTheWindow BY DEF HistoryIsTheWindow
<1>6. QED BY <1>1, <1>2, <1>3, <1>4, <1>5 DEF HistoryInv

\* What is compared are natural numbers.
LEMMA LoadedAreNumbers ==
    ASSUME SamplingTypes
    PROVE  /\ \A c \in Calls : current[c].requests \in Nat /\ current[c].failures \in Nat
           /\ previous # <<>> =>
                /\ Head(previous) = previous[1] /\ previous[1] \in Reading
                /\ previous[1].requests \in Nat /\ previous[1].failures \in Nat
           /\ DOMAIN history = 1 .. Len(history) /\ Len(history) \in Nat
           /\ \A i \in 1 .. Len(history) :
                history[i].requests \in Nat /\ history[i].failures \in Nat
<1>1. ASSUME NEW r \in Reading PROVE r.requests \in Nat /\ r.failures \in Nat
    BY DEF Reading
<1>2. previous # <<>> => Head(previous) = previous[1] /\ previous[1] \in Reading
    BY LenProperties, ElementOfSeq, EmptySeq DEF SamplingTypes
<1>3. /\ DOMAIN history = 1 .. Len(history) /\ Len(history) \in Nat
      /\ \A i \in 1 .. Len(history) : history[i] \in Reading
    BY LenProperties, ElementOfSeq DEF SamplingTypes
<1>4. \A c \in Calls : current[c] \in Reading BY DEF SamplingTypes
<1>5. QED BY <1>1, <1>2, <1>3, <1>4

\* The window depends on the readings and the history only.
LEMMA WindowUnchanged ==
    ASSUME UNCHANGED <<previous, history, readings>>, ReadingsAreRecent, HistoryIsTheWindow
    PROVE  ReadingsAreRecent' /\ HistoryIsTheWindow'
<1>1. ReadingsAreRecent' BY DEF ReadingsAreRecent
<1>2. HistoryIsTheWindow' BY DEF HistoryIsTheWindow
<1>3. QED BY <1>1, <1>2

LEMMA CountsKeepHistory ==
    ASSUME HistoryInv, CountsAreExact, Counts, UNCHANGED samplingVars
    PROVE  HistoryInv'
<1> USE CountsBound DEF HistoryInv, Counts, CountRequest, CountFailure, samplingVars
<1>1. SamplingTypes' BY DEF SamplingTypes
<1>2. LoadedInOrder'
    BY LoadedAreNumbers DEF LoadedInOrder
<1>3. NoSampleWraps'
    BY LoadedAreNumbers DEF NoSampleWraps
<1>4. QED BY <1>1, <1>2, <1>3, WindowUnchanged

LEMMA LoadsKeepHistory ==
    ASSUME HistoryInv, CountsAreExact, NEW c \in Calls, Tick(c) \/ LoadFailures(c)
    PROVE  HistoryInv'
<1>1. UNCHANGED <<counters, previous, history, readings>>
    BY DEF Tick, Loads, LoadFailures
<1>2. SamplingTypes'
    <2>1. totalRequests \in Nat /\ failedRequests \in Nat /\ current[c].requests \in Nat
        BY CountsBound, LoadedAreNumbers DEF HistoryInv
    <2>2. [requests |-> totalRequests, failures |-> 0] \in Reading
          /\ [requests |-> current[c].requests, failures |-> failedRequests] \in Reading
        BY <2>1 DEF Reading
    <2>3. current' \in [Calls -> Reading]
        BY <2>2 DEF HistoryInv, SamplingTypes, Tick, Loads, LoadFailures
    <2>4. sampling' \in [Calls -> {"idle", "requests", "failures"}]
        BY DEF HistoryInv, SamplingTypes, Tick, Loads, LoadFailures
    <2>5. QED BY <1>1, <2>3, <2>4 DEF HistoryInv, SamplingTypes
<1>3. LoadedInOrder'
    <2> USE CountsBound DEF counters
    <2>1. CASE Tick(c)
        BY <1>1, <2>1 DEF HistoryInv, LoadedInOrder, SamplingTypes, Reading, Tick, Loads
    <2>2. CASE LoadFailures(c)
        BY <1>1, <2>2 DEF HistoryInv, LoadedInOrder, SamplingTypes, Reading, LoadFailures
    <2>3. QED BY <2>1, <2>2
<1>4. NoSampleWraps'
    BY <1>1 DEF HistoryInv, NoSampleWraps, counters
<1>5. QED BY <1>1, <1>2, <1>3, <1>4, WindowUnchanged DEF HistoryInv

LEMMA RecordKeepsHistory ==
    ASSUME HistoryInv, CountsAreExact, NEW c \in Calls, Record(c)
    PROVE  HistoryInv'
<1> DEFINE x == IF previous = <<>> THEN Zero ELSE Minus(current[c], Head(previous))
<1> USE MetricsAssumption
<1>1. /\ totalRequests \in Nat /\ failedRequests \in Nat
      /\ current[c] \in Reading
      /\ current[c].requests <= totalRequests /\ current[c].failures <= failedRequests
    BY CountsBound DEF HistoryInv, SamplingTypes, LoadedInOrder
<1>2. ASSUME previous # <<>>
      PROVE  /\ Head(previous) = previous[1] /\ previous[1] \in Reading
             /\ previous[1].requests <= current[c].requests
             /\ previous[1].failures <= current[c].failures
    <2>1. previous[1] \in Reading /\ Head(previous) = previous[1]
        BY <1>2, LenProperties, ElementOfSeq, EmptySeq DEF HistoryInv, SamplingTypes
    <2>2. QED BY <1>2, <2>1 DEF Record, HistoryInv, LoadedInOrder
<1>3. x \in Reading /\ x.requests <= totalRequests /\ x.failures <= failedRequests
    <2>1. CASE previous = <<>> BY <1>1, <2>1 DEF Zero, Reading
    <2>2. CASE previous # <<>>
        <3>1. /\ x = Minus(current[c], previous[1]) /\ x \in Reading
              /\ x.requests <= current[c].requests /\ x.failures <= current[c].failures
            BY <1>1, <1>2, <2>2, MinusIsBounded
        <3>2. QED BY <1>1, <3>1 DEF Reading
    <2>3. QED BY <2>1, <2>2
<1>4. Len(history) \in Nat /\ Len(readings) \in Nat /\ Len(history) <= Limit
    BY LenProperties DEF HistoryInv, SamplingTypes, HistoryIsTheWindow
<1>5. /\ history' \in Seq(Reading)
      /\ Len(history') = IF Len(history) < Limit THEN Len(history) + 1 ELSE Limit
      /\ history'[Len(history')] = x
      /\ \A i \in 1 .. Len(history') - 1 :
           history'[i] = history[Len(history) + 1 - Len(history') + i]
    <2>1. history' = Last(Limit, Append(history, x)) BY DEF Record, Trimmed
    <2>2. history \in Seq(Reading) BY DEF HistoryInv, SamplingTypes
    <2> HIDE DEF x
    <2>3. IsPushed(Last(Limit, Append(history, x)), history, x, Limit)
        BY <1>3, <1>4, <2>2, AppendedAndCut
    <2>4. QED BY <2>1, <2>3 DEF IsPushed
<1>6. /\ readings' \in Seq(Reading)
      /\ Len(readings') = IF Len(readings) < Limit + 1 THEN Len(readings) + 1 ELSE Limit + 1
      /\ readings'[Len(readings')] = current[c]
      /\ \A i \in 1 .. Len(readings') - 1 :
           readings'[i] = readings[Len(readings) + 1 - Len(readings') + i]
    <2>1. readings' = Last(Limit + 1, Append(readings, current[c])) BY DEF Record
    <2>2. readings \in Seq(Reading) /\ Len(readings) <= Limit + 1 /\ Limit + 1 \in Nat \ {0}
        BY DEF HistoryInv, SamplingTypes, ReadingsAreRecent
    <2>3. IsPushed(Last(Limit + 1, Append(readings, current[c])), readings, current[c], Limit + 1)
        BY <1>1, <2>2, AppendedAndCut
    <2>4. QED BY <2>1, <2>3 DEF IsPushed
<1>7. previous' = <<current[c]>> /\ previous' # <<>> /\ previous'[1] = current[c]
    BY DEF Record
<1>8. SamplingTypes'
    <2>1. previous' \in Seq(Reading) /\ Len(previous') <= 1 BY <1>1, <1>7
    <2>2. QED BY <1>1, <1>5, <1>6, <2>1 DEF Record, HistoryInv, SamplingTypes, Zero, Reading
<1>9. LoadedInOrder'
    BY <1>1, <1>7 DEF Record, HistoryInv, SamplingTypes, LoadedInOrder, Zero, Reading, counters
<1>10. NoSampleWraps'
    <2>1. UNCHANGED counters BY DEF Record
    <2>2. DOMAIN history = 1 .. Len(history) BY LenProperties DEF HistoryInv, SamplingTypes
    <2>3. DOMAIN history' = 1 .. Len(history') /\ Len(history') \in Nat BY <1>5, LenProperties
    <2> SUFFICES ASSUME NEW i \in 1 .. Len(history')
                 PROVE  /\ history'[i].requests <= totalRequests
                        /\ history'[i].failures <= failedRequests
        BY <2>1, <2>3 DEF NoSampleWraps, counters
    <2> HIDE DEF x
    <2>4. CASE i = Len(history') BY <1>3, <1>5, <2>4
    <2>5. CASE i # Len(history')
        <3>1. /\ i \in 1 .. Len(history') - 1
              /\ Len(history) + 1 - Len(history') + i \in 1 .. Len(history)
            BY <1>4, <1>5, <2>3, <2>5
        <3>2. QED BY <1>5, <2>2, <3>1 DEF HistoryInv, NoSampleWraps
    <2>6. QED BY <2>4, <2>5
<1>11. ReadingsAreRecent'
    <2>1. readings' # <<>> BY <1>4, <1>6, EmptySeq
    <2>2. QED BY <1>4, <1>6, <1>7, <2>1 DEF ReadingsAreRecent
<1>12. HistoryIsTheWindow'
    <2> DEFINE n == Len(readings)
               m == Len(history)
               n2 == Len(readings')
               m2 == Len(history')
               Sample(rs, r) == IF r = 1 THEN Zero ELSE Minus(rs[r], rs[r - 1])
    <2>1. /\ n \in Nat /\ m \in Nat /\ m = (IF n < Limit THEN n ELSE Limit) /\ n <= Limit + 1
          /\ \A i \in 1 .. m : history[i] = Sample(readings, n - m + i)
        <3>1. DOMAIN history = 1 .. m BY LenProperties DEF HistoryInv, SamplingTypes
        <3>2. QED BY <1>4, <3>1 DEF HistoryInv, HistoryIsTheWindow, ReadingsAreRecent
    <2>2. /\ n2 \in Nat /\ m2 \in Nat /\ DOMAIN history' = 1 .. m2
          /\ n2 = (IF n < Limit + 1 THEN n + 1 ELSE n) /\ m2 = (IF n < Limit THEN n + 1 ELSE Limit)
        <3>1. /\ DOMAIN history' = 1 .. m2 /\ n2 \in Nat /\ m2 \in Nat
            BY <1>5, <1>6, LenProperties
        <3>2. QED BY <1>5, <1>6, <2>1, <3>1
    <2>3. n = 0 <=> previous = <<>>
        BY EmptySeq DEF HistoryInv, SamplingTypes, ReadingsAreRecent
    <2>4. \A i \in 1 .. n2 - 1 : readings'[i] = readings[n + 1 - n2 + i]
        BY <1>6
    <2>5. \A i \in 1 .. m2 - 1 : history'[i] = history[m + 1 - m2 + i]
        BY <1>5
    <2>6. readings'[n2] = current[c] /\ history'[m2] = x
        BY <1>5, <1>6
    <2>7. n # 0 => x = Minus(current[c], readings[n])
        BY <1>2, <2>3 DEF HistoryInv, ReadingsAreRecent
    <2>8. n = 0 => x = Zero BY <2>3
    <2> HIDE DEF n, m, n2, m2, x
    <2>9. ASSUME NEW i \in 1 .. m2 PROVE history'[i] = Sample(readings', n2 - m2 + i)
        <3>1. CASE i = m2 /\ n = 0
            BY <2>1, <2>2, <2>6, <2>8, <3>1
        <3>2. CASE i = m2 /\ n # 0
            <4>1. n2 - m2 + i = n2 /\ n2 # 1 /\ n2 - 1 \in 1 .. n2 - 1 /\ n + 1 - n2 + (n2 - 1) = n
                BY <2>1, <2>2, <3>2
            <4>2. readings'[n2 - 1] = readings[n] BY <2>4, <4>1
            <4>3. QED BY <2>6, <2>7, <3>2, <4>1, <4>2
        <3>3. CASE i # m2
            <4> DEFINE j == m + 1 - m2 + i
                       r == n2 - m2 + i
            <4>1. /\ i \in 1 .. m2 - 1 /\ j \in 1 .. m /\ r \in 1 .. n2 - 1
                  /\ n - m + j = n + 1 - n2 + r
                  /\ (n - m + j = 1) <=> (r = 1)
                <5>1. i \in Int /\ 1 <= i /\ i <= m2 - 1 /\ Limit \in Nat \ {0}
                    BY <2>2, <3>3
                <5>2. CASE n < Limit BY <2>1, <2>2, <5>1, <5>2
                <5>3. CASE n = Limit BY <2>1, <2>2, <5>1, <5>3
                <5>4. CASE n = Limit + 1 BY <2>1, <2>2, <5>1, <5>4
                <5>5. n < Limit \/ n = Limit \/ n = Limit + 1 BY <2>1, <5>1
                <5>6. QED BY <5>2, <5>3, <5>4, <5>5
            <4>2. history'[i] = Sample(readings, n + 1 - n2 + r)
                BY <2>1, <2>5, <4>1
            <4>3. CASE r = 1 BY <4>1, <4>2, <4>3
            <4>4. CASE r # 1
                <5> DEFINE k == n + 1 - n2 + r
                <5>1. r - 1 \in 1 .. n2 - 1 /\ n + 1 - n2 + (r - 1) = k - 1 /\ k # 1
                    BY <2>2, <2>1, <4>1, <4>4
                <5>2. readings'[r] = readings[k] /\ readings'[r - 1] = readings[k - 1]
                    BY <2>4, <4>1, <5>1
                <5>3. history'[i] = Sample(readings, k) BY <4>2
                <5> HIDE DEF k, r
                <5>4. Sample(readings, k) = Minus(readings[k], readings[k - 1])
                    BY <5>1
                <5>5. Sample(readings', r) = Minus(readings'[r], readings'[r - 1])
                    BY <4>4
                <5>6. history'[i] = Sample(readings', r) BY <5>2, <5>3, <5>4, <5>5
                <5>7. QED BY <5>6 DEF r
            <4>5. QED BY <4>3, <4>4
        <3>4. QED BY <3>1, <3>2, <3>3
    <2>10. m2 = (IF n2 < Limit THEN n2 ELSE Limit) BY <2>1, <2>2
    <2>11. QED BY <2>2, <2>9, <2>10 DEF HistoryIsTheWindow, n2, m2
<1>13. QED BY <1>8, <1>9, <1>10, <1>11, <1>12 DEF HistoryInv

LEMMA HistoryKeeps ==
    ASSUME ProcessTypeOK, CountsAreExact, HistoryInv, [Next]_vars
    PROVE  HistoryInv'
<1>1. CASE Counts /\ UNCHANGED samplingVars BY <1>1, CountsKeepHistory
<1>2. CASE Samples BY <1>2, LoadsKeepHistory, RecordKeepsHistory DEF Samples
<1>3. CASE UNCHANGED metricVars
    BY <1>3, WindowUnchanged
       DEF HistoryInv, metricVars, counters, SamplingTypes, LoadedInOrder, NoSampleWraps
<1>4. QED BY <1>1, <1>2, <1>3, MetricsStep

\* The process, the counts and the history together: no part but the first is
\* inductive alone.
TunnldInv == ProcessInv /\ CountsAreExact /\ HistoryInv

THEOREM TunnldInvariance == Spec => []TunnldInv
<1>1. Init => TunnldInv BY ProcessInit, CountsInit, HistoryInit DEF TunnldInv
<1>2. TunnldInv /\ [Next]_vars => TunnldInv'
    <2> SUFFICES ASSUME TunnldInv, [Next]_vars PROVE TunnldInv' OBVIOUS
    <2>1. ProcessInv'
        BY StartKeeps, GoroutinesKeep, EndKeeps, RequestsKeep DEF Next, MainStep, TunnldInv
    <2>2. CountsAreExact' BY CountsKeep DEF TunnldInv, ProcessInv
    <2>3. HistoryInv' BY HistoryKeeps DEF TunnldInv, ProcessInv
    <2>4. QED BY <2>1, <2>2, <2>3 DEF TunnldInv
<1>3. QED BY <1>1, <1>2, PTL DEF Spec

\* Every variable of the process and of the metrics keeps its type, and no more
\* requests fail than are counted.
THEOREM TunnldTypeCorrect == Spec => []TypeOK
<1>1. TunnldInv => TypeOK
    BY CountsBound DEF TunnldInv, ProcessInv, HistoryInv, SamplingTypes, TypeOK, MetricsTypeOK
<1>2. QED BY <1>1, TunnldInvariance, PTL

\* No difference of counters wraps, for any width, since one call samples at a time
\* (metrics.go:54-70, server.go:222-231).
THEOREM SamplesNeverWrap == Spec => []NoSampleWraps
<1>1. TunnldInv => NoSampleWraps BY DEF TunnldInv, HistoryInv
<1>2. QED BY <1>1, TunnldInvariance, PTL

\* The history holds the last Limit samples, each the difference of two readings
\* that follow one another (metrics.go:54-89).
THEOREM HistoryIsExact == Spec => []HistoryIsTheWindow
<1>1. TunnldInv => HistoryIsTheWindow BY DEF TunnldInv, HistoryInv
<1>2. QED BY <1>1, TunnldInvariance, PTL
=============================================================================
