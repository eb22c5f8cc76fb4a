------------------------------ MODULE Exchange ------------------------------
(***************************************************************************)
(* What a public caller and a local service may rely on when requests are  *)
(* forwarded through a tunnel, without streams, buffers or goroutines.  A  *)
(* request that is refused was never handed on; the service gets what the  *)
(* caller has sent and the caller what the service has answered, piece by  *)
(* piece; an answer that is short of the length it was announced with does *)
(* not end as a complete one; an error of the relay follows no part of an  *)
(* answer.  Proxy implements this specification.                           *)
(***************************************************************************)
EXTENDS Naturals

CONSTANTS Requests, Framings

VARIABLES
    fate,      \* fate[q]: none, pending, or how the request ended for the caller
    uploaded,  \* uploaded[q]: parts of the body the caller has sent
    handed,    \* handed[q]: it was handed to the tunnel
    delivered, \* delivered[q]: pieces of it that are at the client: head and parts
    answer,    \* answer[q]: of the service: none, going, whole or cut
    framing,   \* framing[q]: how its length is told
    produced,  \* produced[q]: pieces of the answer there are
    received   \* received[q]: pieces of the answer the caller has

request == <<uploaded, handed, delivered>>
response == <<answer, framing, produced>>
vars == <<fate, request, response, received>>

Init ==
    /\ fate = [q \in Requests |-> "none"]
    /\ uploaded = [q \in Requests |-> 0]
    /\ handed = [q \in Requests |-> FALSE]
    /\ delivered = [q \in Requests |-> 0]
    /\ answer = [q \in Requests |-> "none"]
    /\ framing = [q \in Requests |-> "length"]
    /\ produced = [q \in Requests |-> 0]
    /\ received = [q \in Requests |-> 0]

Arrive(q) ==
    /\ fate[q] = "none"
    /\ fate' = [fate EXCEPT ![q] = "pending"]
    /\ UNCHANGED <<request, response, received>>

Upload(q) ==
    /\ fate[q] = "pending"
    /\ uploaded' = [uploaded EXCEPT ![q] = @ + 1]
    /\ UNCHANGED <<fate, handed, delivered, response, received>>

\* A request is handed to the tunnel, or refused, and never both.
HandOver(q) ==
    /\ fate[q] = "pending" /\ ~handed[q]
    /\ handed' = [handed EXCEPT ![q] = TRUE]
    /\ UNCHANGED <<fate, uploaded, delivered, response, received>>

Refuse(q) ==
    /\ fate[q] = "pending" /\ ~handed[q]
    /\ fate' = [fate EXCEPT ![q] = "offline"]
    /\ UNCHANGED <<request, response, received>>

\* What is on its way may arrive after the request has ended for the caller.
Deliver(q) ==
    /\ handed[q] /\ delivered[q] <= uploaded[q]
    /\ delivered' = [delivered EXCEPT ![q] = @ + 1]
    /\ UNCHANGED <<fate, uploaded, handed, response, received>>

\* The service answers once, and may do so before it has the body.
Respond(q) ==
    /\ delivered[q] > 0 /\ answer[q] = "none"
    /\ answer' = [answer EXCEPT ![q] = "going"]
    /\ \E f \in Framings : framing' = [framing EXCEPT ![q] = f]
    /\ UNCHANGED <<fate, request, produced, received>>

\* ... or the client answers in its place, if it still can.
Excuse(q) ==
    /\ delivered[q] > 0 /\ answer[q] = "none"
    /\ framing' = [framing EXCEPT ![q] = "length"]
    /\ \/ /\ answer' = [answer EXCEPT ![q] = "whole"]
          /\ produced' = [produced EXCEPT ![q] = 1]
       \/ /\ answer' = [answer EXCEPT ![q] = "cut"]
          /\ UNCHANGED produced
    /\ UNCHANGED <<fate, request, received>>

Produce(q) ==
    /\ answer[q] = "going"
    /\ produced' = [produced EXCEPT ![q] = @ + 1]
    /\ UNCHANGED <<fate, request, answer, framing, received>>

EndAnswer(q) ==
    /\ answer[q] = "going"
    /\ \E end \in {"whole", "cut"} : answer' = [answer EXCEPT ![q] = end]
    /\ UNCHANGED <<fate, request, framing, produced, received>>

Receive(q) ==
    /\ fate[q] = "pending"
    /\ \E n \in received[q] .. produced[q] : received' = [received EXCEPT ![q] = n]
    /\ UNCHANGED <<fate, request, response>>

\* The request ends for the caller: with the answer, in the middle of it, or
\* with an error of the relay.
End(q) ==
    /\ fate[q] = "pending" /\ handed[q]
    /\ \E end \in {"complete", "broken", "failed"}, n \in received[q] .. produced[q] :
        /\ fate' = [fate EXCEPT ![q] = end]
        /\ received' = [received EXCEPT ![q] = n]
        /\ end = "failed" => n = 0
        /\ end = "complete" /\ framing[q] = "length" =>
               answer[q] = "whole" /\ n = produced[q]
    /\ UNCHANGED <<request, response>>

Next ==
    \E q \in Requests :
        \/ Arrive(q) \/ Upload(q) \/ HandOver(q) \/ Refuse(q) \/ Deliver(q)
        \/ Respond(q) \/ Excuse(q) \/ Produce(q) \/ EndAnswer(q)
        \/ Receive(q) \/ End(q)

Spec == Init /\ [][Next]_vars
=============================================================================
