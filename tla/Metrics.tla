------------------------------- MODULE Metrics -------------------------------
(***************************************************************************)
(* The counters of the relay and their history                             *)
(* (internal/server/metrics.go).  Requests add to the counters at any      *)
(* moment; a call of sample loads one counter after the other and records  *)
(* what was counted since the call before.  responseBytes is treated as    *)
(* failedRequests is, and the gauges come from the runtime: they are left  *)
(* out, as is totalConnections, which is not sampled.                      *)
(***************************************************************************)
EXTENDS Integers, Sequences

CONSTANTS Calls,  \* calls of sample that may be under way
          Limit,  \* metricHistoryLimit
          Width   \* the counters are unsigned and wrap at Width (2^64)
ASSUME MetricsAssumption ==
    Calls \subseteq Nat /\ Limit \in Nat \ {0} /\ Width \in Nat \ {0}

VARIABLES totalRequests, failedRequests,
          sampling,  \* of each call: how far it is
          current,   \* of each call: the counters as it has loaded them
          previous,  \* the counters of the last record, if any
          history,   \* the samples kept, as counts since the one before
          readings   \* history variable: what the last Limit + 1 records loaded

counters == <<totalRequests, failedRequests>>
metricVars == <<counters, sampling, current, previous, history, readings>>

Reading == [requests : Nat, failures : Nat]
Zero == [requests |-> 0, failures |-> 0]
Minus(a, b) == [requests |-> (a.requests - b.requests) % Width,
                failures |-> (a.failures - b.failures) % Width]
Last(n, s) == IF Len(s) > n THEN SubSeq(s, Len(s) - n + 1, Len(s)) ELSE s

MetricsInit ==
    /\ totalRequests = 0 /\ failedRequests = 0
    /\ sampling = [c \in Calls |-> "idle"]
    /\ current = [c \in Calls |-> Zero]
    /\ previous = <<>> /\ history = <<>> /\ readings = <<>>

CountRequest ==
    totalRequests' = totalRequests + 1 /\ UNCHANGED failedRequests
CountFailure ==
    failedRequests' = failedRequests + 1 /\ UNCHANGED totalRequests

Loads(c) ==
    /\ sampling' = [sampling EXCEPT ![c] = "requests"]
    /\ current' = [current EXCEPT ![c] =
                      [requests |-> totalRequests, failures |-> 0]]
    /\ UNCHANGED <<counters, previous, history, readings>>

\* Faulty variant: each tick starts a goroutine of its own.
TickConcurrently(c) == sampling[c] = "idle" /\ Loads(c)

\* A call begins and loads totalRequests: Run's own, and then those of
\* sampleMetrics, which makes one after the other, so that the first is free.
Tick(c) ==
    /\ \A other \in Calls : sampling[other] = "idle" /\ c <= other
    /\ Loads(c)

LoadFailures(c) ==
    /\ sampling[c] = "requests"
    /\ sampling' = [sampling EXCEPT ![c] = "failures"]
    /\ current' = [current EXCEPT ![c] =
                      [requests |-> @.requests, failures |-> failedRequests]]
    /\ UNCHANGED <<counters, previous, history, readings>>

\* Faulty variant: cut to its limit without moving the newer samples down.
TrimmedAtTheEnd(samples) ==
    SubSeq(samples, 1, IF Len(samples) > Limit THEN Limit ELSE Len(samples))

Trimmed(samples) == Last(Limit, samples)

\* Under the lock.
Record(c) ==
    /\ sampling[c] = "failures"
    /\ history' = Trimmed(Append(history,
                      IF previous = <<>> THEN Zero
                      ELSE Minus(current[c], Head(previous))))
    /\ previous' = <<current[c]>>
    /\ readings' = Last(Limit + 1, Append(readings, current[c]))
    /\ sampling' = [sampling EXCEPT ![c] = "idle"]
    /\ current' = [current EXCEPT ![c] = Zero]
    /\ UNCHANGED counters

SampleGoesOn(c) == LoadFailures(c) \/ Record(c)

-----------------------------------------------------------------------------
MetricsTypeOK ==
    /\ totalRequests \in Nat /\ failedRequests \in 0 .. totalRequests
    /\ sampling \in [Calls -> {"idle", "requests", "failures"}]
    /\ current \in [Calls -> Reading]
    /\ previous \in Seq(Reading) /\ Len(previous) <= 1
    /\ history \in Seq(Reading) /\ readings \in Seq(Reading)

\* The history is the window of the last samples, oldest first; each is what
\* was counted between its record and the one before, wherever requests came in
\* between the loads, and their sum is what was counted over the whole window
\* (metrics.go:54-89).
HistoryIsTheWindow ==
    LET n == Len(readings)
    IN /\ Len(history) = IF n < Limit THEN n ELSE Limit
       /\ \A i \in DOMAIN history :
            LET r == n - Len(history) + i
            IN history[i] = IF r = 1 THEN Zero
                            ELSE Minus(readings[r], readings[r - 1])

\* No sample counts more requests or failures than there were: the difference
\* of two unsigned counters does not wrap, because no record overtakes another
\* one between its loads and the lock (metrics.go:54-70, server.go:222-231).
NoSampleWraps ==
    \A i \in DOMAIN history :
        history[i].requests <= totalRequests /\ history[i].failures <= failedRequests
=============================================================================
