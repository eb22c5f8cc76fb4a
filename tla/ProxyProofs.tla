---------------------------- MODULE ProxyProofs ----------------------------
(***************************************************************************)
(* What TLAPS proves of Proxy for any number of requests, any size of      *)
(* windows, buffers and messages: how the counters of the five parties are *)
(* related, and that no goroutine reads a request's body after its handler *)
(* has returned.                                                           *)
(***************************************************************************)
EXTENDS Proxy, TLAPS

Counters == [Requests -> Nat]

ProxyTypes ==
    /\ tunnel \in {"up", "lost"}
    /\ caller \in [Requests -> {"there", "gone"}]
    /\ closing \in [Requests -> BOOLEAN] /\ done \in [Requests -> BOOLEAN]
    /\ handler \in [Requests -> {"idle", "opening", "end"} \cup Busy]
    /\ outcome \in [Requests -> {"pending", "offline", "failed", "broken", "complete"}]
    /\ writer \in [Requests -> {"off", "read", "flush", "done"}]
    /\ upEnd \in [Requests -> {"open", "fin", "reset"}]
    /\ client \in [Requests -> {"off", "forward", "respond", "drain", "close", "end"}]
    /\ sawEnd \in [Requests -> BOOLEAN]
    /\ answer \in [Requests -> {"none", "going", "whole", "cut"}]
    /\ framing \in [Requests -> Framings]
    /\ downEnd \in [Requests -> {"open", "fin", "stopped"}]
    /\ body \in Counters /\ sent \in Counters /\ taken \in Counters
    /\ put \in Counters /\ got \in Counters /\ given \in Counters
    /\ copied \in Counters /\ reached \in Counters

\* The way of the body: each hand has passed on no more than the one before,
\* and a writer that flushes has something to write.
BodyGoesUp(q) ==
    /\ body[q] <= MaxBody /\ sent[q] <= body[q] /\ taken[q] <= sent[q]
    /\ put[q] <= taken[q] + 1 /\ got[q] <= put[q]
    /\ writer[q] = "flush" => put[q] <= taken[q]
    /\ writer[q] = "off" => put[q] = 0 /\ taken[q] = 0
    /\ handler[q] = "idle" => sent[q] = 0

\* The way of the answer.
AnswerGoesDown(q) ==
    /\ given[q] <= MaxAnswer + 1 /\ copied[q] <= given[q] /\ reached[q] <= copied[q]
    /\ client[q] \in {"off", "forward"} => given[q] = 0
    /\ handler[q] \in {"idle", "opening", "await"} => copied[q] = 0

\* The goroutine in outgoing.Write lives within the call of its handler.
WriterWithinHandler(q) ==
    /\ handler[q] \in {"idle", "opening"} => writer[q] = "off"
    /\ handler[q] = "end" => writer[q] \in {"off", "done"}

ProxyInv ==
    /\ ProxyTypes
    /\ \A q \in Requests : BodyGoesUp(q) /\ AnswerGoesDown(q) /\ WriterWithinHandler(q)

LEMMA ProxyInit == Init => ProxyInv
BY ProxyAssumption
   DEF Init, All, ProxyInv, ProxyTypes, Counters, Framings, Busy,
       BodyGoesUp, AnswerGoesDown, WriterWithinHandler

-----------------------------------------------------------------------------
(* The steps of the two ends, of the handler, of the writer, of the client.*)

LEMMA CallerKeeps ==
    ASSUME ProxyInv, NEW q \in Requests,
           Arrive(q) \/ Upload(q) \/ Leave(q) \/ Notice(q)
    PROVE  ProxyInv'
<1> USE ProxyAssumption
        DEF ProxyInv, ProxyTypes, Counters, Busy, Put, BodyGoesUp, AnswerGoesDown,
            WriterWithinHandler, callerVars, handlerVars, writerVars, clientVars, answerVars
<1>1. CASE Arrive(q) BY <1>1 DEF Arrive
<1>2. CASE Upload(q) BY <1>2 DEF Upload
<1>3. CASE Leave(q) BY <1>3 DEF Leave
<1>4. CASE Notice(q) BY <1>4 DEF Notice
<1>5. QED BY <1>1, <1>2, <1>3, <1>4

LEMMA HandlerKeeps ==
    ASSUME ProxyInv, NEW q \in Requests, ProxyStep(q) \/ Watcher(q)
    PROVE  ProxyInv'
<1> USE ProxyAssumption
        DEF ProxyInv, ProxyTypes, Counters, Busy, Put, BodyGoesUp, AnswerGoesDown,
            WriterWithinHandler, ServerReads,
            callerVars, handlerVars, writerVars, clientVars, answerVars
<1>1. CASE OpenStream(q) BY <1>1 DEF OpenStream
<1>2. CASE OpenFails(q) BY <1>2 DEF OpenFails
<1>3. CASE ReadResponse(q) BY <1>3 DEF ReadResponse
<1>4. CASE ReadResponseFails(q) BY <1>4 DEF ReadResponseFails
<1>5. CASE CopyPart(q) BY <1>5 DEF CopyPart
<1>6. CASE CopyEnds(q) BY <1>6 DEF CopyEnds
<1>7. CASE CopyFails(q) BY <1>7 DEF CopyFails
<1>8. CASE CancelWrite(q) BY <1>8 DEF CancelWrite
<1>9. CASE Return(q) BY <1>9 DEF Return, Ending
<1>10. CASE Watcher(q) BY <1>10 DEF Watcher
<1>11. QED
    BY <1>1, <1>2, <1>3, <1>4, <1>5, <1>6, <1>7, <1>8, <1>9, <1>10 DEF ProxyStep

LEMMA WriterKeeps ==
    ASSUME ProxyInv, NEW q \in Requests, WriterStep(q)
    PROVE  ProxyInv'
<1> USE ProxyAssumption
        DEF ProxyInv, ProxyTypes, Counters, Busy, Put, BodyGoesUp, AnswerGoesDown,
            WriterWithinHandler,
            callerVars, handlerVars, writerVars, clientVars, answerVars
<1>1. CASE WriterReads(q) BY <1>1 DEF WriterReads
<1>2. CASE WriterReadFails(q) BY <1>2 DEF WriterReadFails
<1>3. CASE WriterFlushes(q) BY <1>3 DEF WriterFlushes
<1>4. CASE WriterFlushFails(q) BY <1>4 DEF WriterFlushFails
<1>5. QED BY <1>1, <1>2, <1>3, <1>4 DEF WriterStep

LEMMA OneMore ==
    ASSUME NEW f \in Counters, NEW g \in Counters, NEW q \in Requests, f[q] < g[q],
           \A p \in Requests : f[p] <= g[p]
    PROVE  /\ [f EXCEPT ![q] = f[q] + 1] \in Counters
           /\ \A p \in Requests : [f EXCEPT ![q] = f[q] + 1][p] <= g[p]
BY DEF Counters

LEMMA ReadKeeps ==
    ASSUME ProxyInv, NEW q \in Requests, ReadsPiece(q) \/ ReadsEnd(q)
    PROVE  /\ got' \in Counters /\ sawEnd' \in [Requests -> BOOLEAN]
           /\ \A p \in Requests : got'[p] <= put[p]
<1> USE DEF ProxyInv, ProxyTypes, Counters, Put, BodyGoesUp
<1>1. CASE ReadsPiece(q)
    <2>1. got' = [got EXCEPT ![q] = got[q] + 1] /\ got[q] < put[q]
        BY <1>1 DEF ReadsPiece
    <2>2. PICK end \in {sawEnd[q], upEnd[q] = "fin" /\ got'[q] = put[q]} :
              sawEnd' = [sawEnd EXCEPT ![q] = end]
        BY <1>1 DEF ReadsPiece
    <2>3. end \in BOOLEAN BY <2>2
    <2>4. sawEnd' \in [Requests -> BOOLEAN] BY <2>2, <2>3
    <2>5. /\ got \in Counters /\ put \in Counters
          /\ \A p \in Requests : got[p] <= put[p]
        OBVIOUS
    <2>6. got' \in Counters /\ \A p \in Requests : got'[p] <= put[p]
        BY ONLY <2>1, <2>5, OneMore, q \in Requests
    <2>7. QED BY <2>4, <2>6
<1>2. CASE ReadsEnd(q) BY <1>2 DEF ReadsEnd
<1>3. QED BY <1>1, <1>2

LEMMA ClientKeeps ==
    ASSUME ProxyInv, NEW q \in Requests, ClientStep(q) \/ ServiceStep(q)
    PROVE  ProxyInv'
<1> USE ProxyAssumption
        DEF ProxyInv, ProxyTypes, Counters, Busy, Framings, Put, BodyGoesUp,
            AnswerGoesDown, WriterWithinHandler,
            callerVars, handlerVars, writerVars, clientVars, answerVars
<1>1. CASE ReadRequest(q) BY <1>1, ReadKeeps DEF ReadRequest
<1>2. CASE DrainBody(q) BY <1>2, ReadKeeps DEF DrainBody
<1>3. CASE Drained(q) BY <1>3 DEF Drained
<1>4. CASE CloseStream(q) BY <1>4 DEF CloseStream
<1>5. CASE ForwardBody(q) BY <1>5, ReadKeeps DEF ForwardBody
<1>6. CASE Answer(q) BY <1>6 DEF Answer
<1>7. CASE RoundTripFails(q)
    <2>1. \/ given' = [given EXCEPT ![q] = 1] /\ answer' = [answer EXCEPT ![q] = "whole"]
          \/ UNCHANGED given /\ answer' = [answer EXCEPT ![q] = "cut"]
        BY <1>7 DEF RoundTripFails
    <2>2. given[q] = 0 /\ copied[q] = 0 BY <1>7 DEF RoundTripFails
    <2>3. /\ client' = [client EXCEPT ![q] = "drain"]
          /\ framing' = [framing EXCEPT ![q] = "length"]
          /\ UNCHANGED <<tunnel, callerVars, handlerVars, writerVars, got, sawEnd, downEnd>>
        BY <1>7 DEF RoundTripFails
    <2>4. \A p \in Requests : copied'[p] <= given'[p] /\ given'[p] <= MaxAnswer + 1
        BY <2>1, <2>2, <2>3
    <2>5. given' \in Counters
        <3>1. given \in [Requests -> Nat] OBVIOUS
        <3>2. QED BY ONLY <2>1, <3>1, q \in Requests DEF Counters
    <2>6. answer' \in [Requests -> {"none", "going", "whole", "cut"}] BY <2>1
    <2>7. ProxyTypes' BY <2>3, <2>5, <2>6
    <2>8. client'[q] = "drain"
          /\ \A p \in Requests \ {q} : client'[p] = client[p] /\ given'[p] = given[p]
        BY <2>1, <2>3
    <2>9. ASSUME NEW p \in Requests PROVE AnswerGoesDown(p)'
        BY <2>3, <2>4, <2>8
    <2>10. ASSUME NEW p \in Requests PROVE BodyGoesUp(p)' /\ WriterWithinHandler(p)'
        BY <2>3
    <2>11. QED BY <2>7, <2>9, <2>10
<1>8. CASE WritePart(q) BY <1>8 DEF WritePart
<1>9. CASE WriteEnds(q) BY <1>9 DEF WriteEnds
<1>10. QED
    BY <1>1, <1>2, <1>3, <1>4, <1>5, <1>6, <1>7, <1>8, <1>9 DEF ClientStep, ServiceStep

THEOREM ProxyInvariance == Spec => []ProxyInv
<1>1. ProxyInv /\ [Next]_vars => ProxyInv'
    <2> SUFFICES ASSUME ProxyInv, [Next]_vars PROVE ProxyInv' OBVIOUS
    <2>1. ASSUME NEW q \in Requests,
                 \/ Arrive(q) \/ Upload(q) \/ Leave(q) \/ Notice(q)
                 \/ ProxyStep(q) \/ Watcher(q) \/ WriterStep(q) \/ ClientStep(q)
                 \/ ServiceStep(q)
          PROVE  ProxyInv'
        BY <2>1, CallerKeeps, HandlerKeeps, WriterKeeps, ClientKeeps
    <2>2. CASE TunnelLost \/ UNCHANGED vars
        BY <2>2
           DEF TunnelLost, vars, ProxyInv, ProxyTypes, BodyGoesUp, AnswerGoesDown,
               WriterWithinHandler,
               callerVars, handlerVars, writerVars, clientVars, answerVars
    <2>3. QED BY <2>1, <2>2 DEF Next
<1>2. QED BY ProxyInit, <1>1, PTL DEF Spec

\* Every variable keeps its type: in particular each party has passed on no more
\* pieces than the one before it, in both directions.
THEOREM ProxyTypeCorrect == Spec => []TypeOK
<1>1. ProxyInv => TypeOK
    BY ProxyAssumption
       DEF ProxyInv, ProxyTypes, Counters, BodyGoesUp, AnswerGoesDown, TypeOK
<1>2. QED BY ProxyInvariance, <1>1, PTL

\* When a handler returns, its writer goroutine is not there to read the body.
THEOREM BodiesAreReleased == Spec => []BodyIsReleased
<1>1. ProxyInv => BodyIsReleased BY DEF ProxyInv, WriterWithinHandler, BodyIsReleased
<1>2. QED BY ProxyInvariance, <1>1, PTL

-----------------------------------------------------------------------------
(* What is known of the answer and of the outcome, for the promises of     *)
(* Exchange.                                                               *)

\* How far the answer is, by the step of the client, which has the head of the
\* request by then.
AnswerFits(q) ==
    /\ writer[q] = "off" => client[q] = "off"
    /\ client[q] = "off" => got[q] = 0
    /\ client[q] \in {"forward", "respond", "drain"} => got[q] > 0
    /\ client[q] \in {"off", "forward"} => answer[q] = "none"
    /\ answer[q] = "going" <=> client[q] = "respond"
    /\ answer[q] = "none" => given[q] = 0

\* The outcome, by the step of the handler: the answer is copied, or there is
\* none, or the request was not handed on.
OutcomeFits(q) ==
    /\ handler[q] # "end" => outcome[q] = "pending"
    /\ handler[q] \in {"copy", "finish", "finishing"} => copied[q] > 0
    /\ handler[q] \in {"fail", "failing"} => copied[q] = 0
    /\ outcome[q] \in {"complete", "broken"} => copied[q] > 0
    /\ outcome[q] = "offline" => writer[q] = "off"
    /\ outcome[q] = "complete" /\ framing[q] = "length" =>
           answer[q] = "whole" /\ reached[q] = given[q]

ExchangeInv == \A q \in Requests : AnswerFits(q) /\ OutcomeFits(q)

LEMMA ExchangeInit == Init => ExchangeInv
BY DEF Init, All, ExchangeInv, AnswerFits, OutcomeFits

LEMMA CallerFits ==
    ASSUME ProxyInv, ExchangeInv, NEW q \in Requests,
           Arrive(q) \/ Upload(q) \/ Leave(q) \/ Notice(q)
    PROVE  ExchangeInv'
<1> USE DEF ProxyInv, ProxyTypes, Counters, Busy, Put, ExchangeInv, AnswerFits, OutcomeFits,
            callerVars, handlerVars, writerVars, clientVars, answerVars
<1>1. CASE Arrive(q) BY <1>1 DEF Arrive
<1>2. CASE Upload(q) BY <1>2 DEF Upload
<1>3. CASE Leave(q) BY <1>3 DEF Leave
<1>4. CASE Notice(q) BY <1>4 DEF Notice
<1>5. QED BY <1>1, <1>2, <1>3, <1>4

LEMMA HandlerFits ==
    ASSUME ProxyInv, ExchangeInv, NEW q \in Requests, ProxyStep(q) \/ Watcher(q)
    PROVE  ExchangeInv'
<1> USE DEF ProxyInv, ProxyTypes, Counters, Busy, Put, ExchangeInv, AnswerFits, OutcomeFits,
            AnswerGoesDown, WriterWithinHandler, ServerReads,
            callerVars, handlerVars, writerVars, clientVars, answerVars
<1>1. CASE OpenStream(q) BY <1>1 DEF OpenStream
<1>2. CASE OpenFails(q) BY <1>2 DEF OpenFails
<1>3. CASE ReadResponse(q) BY <1>3 DEF ReadResponse
<1>4. CASE ReadResponseFails(q) BY <1>4 DEF ReadResponseFails
<1>5. CASE CopyPart(q) BY <1>5 DEF CopyPart
<1>6. CASE CopyEnds(q) BY <1>6 DEF CopyEnds
<1>7. CASE CopyFails(q) BY <1>7 DEF CopyFails
<1>8. CASE CancelWrite(q) BY <1>8 DEF CancelWrite
<1>9. CASE Return(q) BY <1>9 DEF Return, Ending, Whole
<1>10. CASE Watcher(q) BY <1>10 DEF Watcher
<1>11. QED
    BY <1>1, <1>2, <1>3, <1>4, <1>5, <1>6, <1>7, <1>8, <1>9, <1>10 DEF ProxyStep

LEMMA WriterFits ==
    ASSUME ProxyInv, ExchangeInv, NEW q \in Requests, WriterStep(q)
    PROVE  ExchangeInv'
<1> USE DEF ProxyInv, ProxyTypes, Counters, Busy, Put, ExchangeInv, AnswerFits, OutcomeFits,
            callerVars, handlerVars, writerVars, clientVars, answerVars
<1>1. CASE WriterReads(q) BY <1>1 DEF WriterReads
<1>2. CASE WriterReadFails(q) BY <1>2 DEF WriterReadFails
<1>3. CASE WriterFlushes(q) BY <1>3 DEF WriterFlushes
<1>4. CASE WriterFlushFails(q) BY <1>4 DEF WriterFlushFails
<1>5. QED BY <1>1, <1>2, <1>3, <1>4 DEF WriterStep

\* A read of the client takes the next piece of the request, or none.
LEMMA ReadTakes ==
    ASSUME ProxyInv, NEW q \in Requests, ReadsPiece(q) \/ ReadsEnd(q)
    PROVE  \/ got' = [got EXCEPT ![q] = got[q] + 1] /\ got[q] < put[q] /\ ReadsPiece(q)
           \/ got' = got /\ ReadsEnd(q)
BY DEF ReadsPiece, ReadsEnd, Put

LEMMA ReadGrows ==
    ASSUME ProxyInv, NEW q \in Requests, ReadsPiece(q) \/ ReadsEnd(q)
    PROVE  /\ got'[q] >= got[q] /\ \A p \in Requests \ {q} : got'[p] = got[p]
           /\ ReadsPiece(q) => got'[q] > 0
<1>1. got \in [Requests -> Nat] BY DEF ProxyInv, ProxyTypes, Counters
<1>2. QED BY <1>1, ReadTakes DEF ReadsPiece, Put

LEMMA ClientFits ==
    ASSUME ProxyInv, ExchangeInv, NEW q \in Requests, ClientStep(q) \/ ServiceStep(q)
    PROVE  ExchangeInv'
<1> USE DEF ProxyInv, ProxyTypes, Counters, Busy, Framings, Put, ExchangeInv, AnswerFits,
            OutcomeFits, AnswerGoesDown, Opened,
            callerVars, handlerVars, writerVars, clientVars, answerVars
<1>1. CASE ReadRequest(q) BY <1>1, ReadKeeps, ReadGrows DEF ReadRequest
<1>2. CASE DrainBody(q) BY <1>2, ReadKeeps, ReadGrows DEF DrainBody
<1>3. CASE Drained(q) BY <1>3 DEF Drained
<1>4. CASE CloseStream(q) BY <1>4 DEF CloseStream
<1>5. CASE ForwardBody(q) BY <1>5, ReadKeeps, ReadGrows DEF ForwardBody
<1>6. CASE Answer(q) BY <1>6 DEF Answer
<1>7. CASE RoundTripFails(q) BY <1>7 DEF RoundTripFails
<1>8. CASE WritePart(q) BY <1>8 DEF WritePart
<1>9. CASE WriteEnds(q) BY <1>9 DEF WriteEnds
<1>10. QED
    BY <1>1, <1>2, <1>3, <1>4, <1>5, <1>6, <1>7, <1>8, <1>9 DEF ClientStep, ServiceStep

\* "tunnel is offline": the local service has seen nothing of a request that was
\* refused so, and never will, so the caller may send it again.
RefusedIsUntouched ==
    \A q \in Requests : outcome[q] = "offline" => got[q] = 0 /\ answer[q] = "none"

\* An answer with a Content-Length that ends as a complete one is all that the
\* service has produced, and all of it is with the caller. (One that is told by
\* chunks or by the end of the stream may have lost its end on the way.)
CompleteIsWhole ==
    \A q \in Requests : outcome[q] = "complete" /\ framing[q] = "length" =>
        answer[q] = "whole" /\ reached[q] = given[q]

THEOREM ExchangeInvariance == Spec => []ExchangeInv
<1>1. ProxyInv /\ ExchangeInv /\ [Next]_vars => ExchangeInv'
    <2> SUFFICES ASSUME ProxyInv, ExchangeInv, [Next]_vars PROVE ExchangeInv' OBVIOUS
    <2>1. ASSUME NEW q \in Requests,
                 \/ Arrive(q) \/ Upload(q) \/ Leave(q) \/ Notice(q)
                 \/ ProxyStep(q) \/ Watcher(q) \/ WriterStep(q) \/ ClientStep(q)
                 \/ ServiceStep(q)
          PROVE  ExchangeInv'
        BY <2>1, CallerFits, HandlerFits, WriterFits, ClientFits
    <2>2. CASE TunnelLost \/ UNCHANGED vars
        BY <2>2
           DEF TunnelLost, vars, ExchangeInv, AnswerFits, OutcomeFits,
               callerVars, handlerVars, writerVars, clientVars, answerVars
    <2>3. QED BY <2>1, <2>2 DEF Next
<1>2. QED BY ExchangeInit, ProxyInvariance, <1>1, PTL DEF Spec

\* What was refused as "tunnel is offline" never reaches the local service.
THEOREM RefusedStayUntouched == Spec => []RefusedIsUntouched
<1>1. ProxyInv /\ ExchangeInv => RefusedIsUntouched
    BY DEF ProxyInv, ProxyTypes, Counters, BodyGoesUp, ExchangeInv, AnswerFits,
           OutcomeFits, RefusedIsUntouched
<1>2. QED BY ProxyInvariance, ExchangeInvariance, <1>1, PTL

\* An answer of a length that was announced ends as a complete one only when all
\* of it is with the caller.
THEOREM CompleteAnswersAreWhole == Spec => []CompleteIsWhole
<1>1. ExchangeInv => CompleteIsWhole BY DEF ExchangeInv, OutcomeFits, CompleteIsWhole
<1>2. QED BY ExchangeInvariance, <1>1, PTL

-----------------------------------------------------------------------------
(* The refinement of Exchange.                                             *)

LEMMA ExchangeBegins == Init => Promise!Init
<1> SUFFICES ASSUME Init PROVE Promise!Init OBVIOUS
<1> USE DEF Init, All
<1>1. [q \in Requests |-> IF handler[q] = "idle" THEN "none" ELSE outcome[q]]
          = [q \in Requests |-> "none"]
    OBVIOUS
<1>2. [q \in Requests |-> Opened(q)] = [q \in Requests |-> FALSE]
    <2>1. \A q \in Requests : Opened(q) = FALSE BY DEF Opened
    <2>2. QED BY ONLY <2>1, Zenon
<1>3. QED BY <1>1, <1>2 DEF Promise!Init

\* A step that moves no state of Exchange.
LEMMA NothingSeen ==
    ASSUME \A q \in Requests : handler'[q] = "idle" <=> handler[q] = "idle",
           \A q \in Requests : writer'[q] = "off" <=> writer[q] = "off",
           outcome' = outcome, sent' = sent, got' = got, answer' = answer,
           framing' = framing, given' = given, reached' = reached
    PROVE  UNCHANGED Promise!vars
<1>1. [q \in Requests |-> Opened(q)'] = [q \in Requests |-> Opened(q)]
    <2>1. \A q \in Requests : Opened(q)' = Opened(q) BY DEF Opened
    <2>2. QED BY ONLY <2>1, Zenon
<1>2. QED BY <1>1 DEF Promise!vars, Promise!request, Promise!response

\* The fate of one request changes, and what was handed over does not.
LEMMA FateBecomes ==
    ASSUME NEW q \in Requests, NEW end,
           \A p \in Requests \ {q} : handler'[p] = handler[p] /\ outcome'[p] = outcome[p],
           handler'[q] # "idle", outcome'[q] = end
    PROVE  [p \in Requests |-> IF handler'[p] = "idle" THEN "none" ELSE outcome'[p]]
               = [[p \in Requests |-> IF handler[p] = "idle" THEN "none" ELSE outcome[p]]
                    EXCEPT ![q] = end]
OBVIOUS

LEMMA HandedStays ==
    ASSUME writer' = writer
    PROVE  [p \in Requests |-> Opened(p)'] = [p \in Requests |-> Opened(p)]
BY DEF Opened

LEMMA CallerExchanges ==
    ASSUME ProxyInv, ExchangeInv, NEW q \in Requests,
           Arrive(q) \/ Upload(q) \/ Leave(q) \/ Notice(q)
    PROVE  [Promise!Next]_Promise!vars
<1> USE DEF ProxyInv, ProxyTypes, Counters, Busy, Put, ExchangeInv, OutcomeFits,
            callerVars, handlerVars, writerVars, clientVars, answerVars
<1>1. CASE Arrive(q)
    <2>1. /\ \A p \in Requests \ {q} : handler'[p] = handler[p] /\ outcome'[p] = outcome[p]
          /\ handler[q] = "idle" /\ handler'[q] # "idle" /\ outcome'[q] = "pending"
          /\ UNCHANGED <<sent, writer, got, answer, framing, given, reached>>
        BY <1>1 DEF Arrive
    <2>2. Promise!Arrive(q)
        BY ONLY <2>1, FateBecomes, HandedStays, q \in Requests
           DEF Promise!Arrive, Promise!request, Promise!response
    <2>3. QED BY <2>2 DEF Promise!Next
<1>2. CASE Upload(q)
    <2>1. Promise!Upload(q)
        BY <1>2 DEF Upload, Promise!Upload, Promise!response, Opened
    <2>2. QED BY <2>1 DEF Promise!Next
<1>3. CASE Leave(q) BY <1>3, NothingSeen DEF Leave
<1>4. CASE Notice(q) BY <1>4, NothingSeen DEF Notice
<1>5. QED BY <1>1, <1>2, <1>3, <1>4

LEMMA HandlerExchanges ==
    ASSUME ProxyInv, ExchangeInv, NEW q \in Requests, ProxyStep(q) \/ Watcher(q)
    PROVE  [Promise!Next]_Promise!vars
<1> USE DEF ProxyInv, ProxyTypes, Counters, Busy, Put, ExchangeInv, OutcomeFits,
            AnswerGoesDown, WriterWithinHandler,
            callerVars, handlerVars, writerVars, clientVars, answerVars
<1>1. CASE OpenStream(q)
    <2>1. /\ writer'[q] # "off" /\ \A p \in Requests \ {q} : writer'[p] = writer[p]
          /\ writer[q] = "off"
        BY <1>1 DEF OpenStream
    <2>2. [p \in Requests |-> Opened(p)'] = [[p \in Requests |-> Opened(p)] EXCEPT ![q] = TRUE]
        <3>1. \A p \in Requests : Opened(p)' = IF p = q THEN TRUE ELSE Opened(p)
            BY <2>1 DEF Opened
        <3>2. QED BY ONLY <3>1, Zenon
    <2>3. Promise!HandOver(q)
        BY <1>1, <2>1, <2>2 DEF OpenStream, Opened, Promise!HandOver, Promise!response
    <2>4. QED BY <2>3 DEF Promise!Next
<1>2. CASE OpenFails(q)
    <2>1. /\ \A p \in Requests \ {q} : handler'[p] = handler[p] /\ outcome'[p] = outcome[p]
          /\ handler'[q] # "idle" /\ outcome'[q] = "offline"
          /\ UNCHANGED <<sent, writer, got, answer, framing, given, reached>>
        BY <1>2 DEF OpenFails
    <2>2. handler[q] # "idle" /\ outcome[q] = "pending" /\ ~Opened(q)
        BY <1>2 DEF OpenFails, Opened
    <2>3. Promise!Refuse(q)
        BY ONLY <2>1, <2>2, FateBecomes, HandedStays, q \in Requests
           DEF Promise!Refuse, Promise!request, Promise!response
    <2>4. QED BY <2>3 DEF Promise!Next
<1>3. CASE ReadResponse(q) BY <1>3, NothingSeen DEF ReadResponse
<1>4. CASE ReadResponseFails(q) BY <1>4, NothingSeen DEF ReadResponseFails
<1>5. CASE CopyPart(q)
    <2>1. \E n \in reached[q] .. given[q] : reached' = [reached EXCEPT ![q] = n]
        <3>1. /\ copied'[q] = copied[q] + 1 /\ copied[q] < given[q]
              /\ copied[q] \in Nat /\ reached[q] \in Nat /\ given[q] \in Nat
              /\ reached[q] <= copied[q]
            BY <1>5 DEF CopyPart, ServerReads
        <3>2. \/ reached' = [reached EXCEPT ![q] = copied'[q]]
              \/ reached' = [reached EXCEPT ![q] = reached[q]]
            BY <1>5 DEF CopyPart
        <3>3. copied'[q] \in reached[q] .. given[q] /\ reached[q] \in reached[q] .. given[q]
            BY ONLY <3>1
        <3>4. QED BY ONLY <3>2, <3>3
    <2>2. /\ handler[q] = "copy" /\ outcome[q] = "pending"
          /\ UNCHANGED <<handler, outcome, sent, writer, got, answer, framing, given>>
        BY <1>5 DEF CopyPart
    <2>3. Promise!Receive(q)
        BY ONLY <2>1, <2>2, HandedStays, q \in Requests
           DEF Promise!Receive, Promise!request, Promise!response
    <2>4. QED BY <2>3 DEF Promise!Next
<1>6. CASE CopyEnds(q) BY <1>6, NothingSeen DEF CopyEnds
<1>7. CASE CopyFails(q) BY <1>7, NothingSeen DEF CopyFails
<1>8. CASE CancelWrite(q) BY <1>8, NothingSeen DEF CancelWrite
<1>9. CASE Return(q)
    <2> DEFINE end == Ending(q)
               n == copied[q]
    <2>1. /\ end \in {"complete", "broken", "failed"} /\ n \in reached[q] .. given[q]
          /\ end = "failed" => n = 0
          /\ end = "complete" /\ framing[q] = "length" => answer[q] = "whole" /\ n = given[q]
        BY <1>9 DEF Return, Ending, Whole
    <2>2. /\ \A p \in Requests \ {q} : handler'[p] = handler[p] /\ outcome'[p] = outcome[p]
          /\ handler'[q] # "idle" /\ outcome'[q] = end
          /\ reached' = [reached EXCEPT ![q] = n]
          /\ UNCHANGED <<sent, writer, got, answer, framing, given>>
        BY <1>9 DEF Return
    <2>3. handler[q] # "idle" /\ outcome[q] = "pending" /\ Opened(q)
        BY <1>9 DEF Return, Opened
    <2> HIDE DEF end, n
    <2>4. [p \in Requests |-> IF handler'[p] = "idle" THEN "none" ELSE outcome'[p]]
              = [[p \in Requests |-> IF handler[p] = "idle" THEN "none" ELSE outcome[p]]
                   EXCEPT ![q] = end]
        BY ONLY <2>2, FateBecomes, q \in Requests
    <2>5. Promise!End(q)
        BY ONLY <2>1, <2>2, <2>3, <2>4, HandedStays, q \in Requests
           DEF Promise!End, Promise!request, Promise!response
    <2>6. QED BY <2>5 DEF Promise!Next
<1>10. CASE Watcher(q) BY <1>10, NothingSeen DEF Watcher
<1>11. QED
    BY <1>1, <1>2, <1>3, <1>4, <1>5, <1>6, <1>7, <1>8, <1>9, <1>10 DEF ProxyStep

LEMMA WriterExchanges ==
    ASSUME ProxyInv, ExchangeInv, NEW q \in Requests, WriterStep(q)
    PROVE  UNCHANGED Promise!vars
<1> USE DEF ProxyInv, ProxyTypes, Put,
            callerVars, handlerVars, writerVars, clientVars, answerVars
<1>1. CASE WriterReads(q) BY <1>1, NothingSeen DEF WriterReads
<1>2. CASE WriterReadFails(q) BY <1>2, NothingSeen DEF WriterReadFails
<1>3. CASE WriterFlushes(q) BY <1>3, NothingSeen DEF WriterFlushes
<1>4. CASE WriterFlushFails(q) BY <1>4, NothingSeen DEF WriterFlushFails
<1>5. QED BY <1>1, <1>2, <1>3, <1>4 DEF WriterStep

\* A read of the client that takes a piece delivers it; another one is not seen.
LEMMA ReadDelivers ==
    ASSUME ProxyInv, NEW q \in Requests, ReadsPiece(q) \/ ReadsEnd(q), Opened(q),
           UNCHANGED <<callerVars, handlerVars, writerVars, answerVars>>
    PROVE  [Promise!Next]_Promise!vars
<1> USE DEF ProxyInv, ProxyTypes, Counters,
            callerVars, handlerVars, writerVars, answerVars
<1>1. CASE got' = got BY <1>1, NothingSeen
<1>2. CASE got' = [got EXCEPT ![q] = got[q] + 1] /\ got[q] < put[q]
    <2>1. got[q] <= sent[q] BY <1>2 DEF BodyGoesUp
    <2>2. Promise!Deliver(q)
        BY <1>2, <2>1 DEF Promise!Deliver, Promise!response, Opened
    <2>3. QED BY <2>2 DEF Promise!Next
<1>3. QED BY <1>1, <1>2, ReadTakes

LEMMA ClientExchanges ==
    ASSUME ProxyInv, ExchangeInv, NEW q \in Requests, ClientStep(q) \/ ServiceStep(q)
    PROVE  [Promise!Next]_Promise!vars
<1> USE DEF ProxyInv, ProxyTypes, Counters, Put, ExchangeInv, AnswerFits,
            callerVars, handlerVars, writerVars, clientVars, answerVars
<1>1. CASE ReadRequest(q) BY <1>1, ReadDelivers DEF ReadRequest
<1>2. CASE DrainBody(q) BY <1>2, ReadDelivers DEF DrainBody, Opened
<1>3. CASE Drained(q) BY <1>3, NothingSeen DEF Drained
<1>4. CASE CloseStream(q) BY <1>4, NothingSeen DEF CloseStream
<1>5. CASE ForwardBody(q) BY <1>5, ReadDelivers DEF ForwardBody, Opened
<1>6. CASE Answer(q)
    <2>1. /\ got[q] > 0 /\ answer[q] = "none" /\ answer' = [answer EXCEPT ![q] = "going"]
          /\ UNCHANGED <<handler, outcome, sent, writer, got, given, reached>>
        BY <1>6 DEF Answer
    <2>2. \E f \in Framings : framing' = [framing EXCEPT ![q] = f]
        BY <1>6 DEF Answer
    <2>3. Promise!Respond(q)
        BY ONLY <2>1, <2>2, HandedStays DEF Promise!Respond, Promise!request
    <2>4. QED BY <2>3 DEF Promise!Next
<1>7. CASE RoundTripFails(q)
    <2>1. Promise!Excuse(q)
        BY <1>7 DEF RoundTripFails, Promise!Excuse, Promise!request, Opened
    <2>2. QED BY <2>1 DEF Promise!Next
<1>8. CASE WritePart(q)
    <2>1. Promise!Produce(q)
        BY <1>8 DEF WritePart, Promise!Produce, Promise!request, Opened
    <2>2. QED BY <2>1 DEF Promise!Next
<1>9. CASE WriteEnds(q)
    <2>1. /\ answer[q] = "going"
          /\ \E end \in {"whole", "cut"} : answer' = [answer EXCEPT ![q] = end]
          /\ UNCHANGED <<handler, outcome, sent, writer, got, framing, given, reached>>
        BY <1>9 DEF WriteEnds
    <2>2. Promise!EndAnswer(q)
        BY ONLY <2>1, HandedStays DEF Promise!EndAnswer, Promise!request
    <2>3. QED BY <2>2 DEF Promise!Next
<1>10. QED
    BY <1>1, <1>2, <1>3, <1>4, <1>5, <1>6, <1>7, <1>8, <1>9 DEF ClientStep, ServiceStep

\* Every behaviour of Server.proxy, its goroutines and handleStream is, for the
\* caller and the local service, one of Exchange.
THEOREM ProxyRefinement == Spec => ImplementsExchange
<1>1. ProxyInv /\ ExchangeInv /\ [Next]_vars => [Promise!Next]_Promise!vars
    <2> SUFFICES ASSUME ProxyInv, ExchangeInv, [Next]_vars
                 PROVE  [Promise!Next]_Promise!vars
        OBVIOUS
    <2>1. ASSUME NEW q \in Requests,
                 \/ Arrive(q) \/ Upload(q) \/ Leave(q) \/ Notice(q)
                 \/ ProxyStep(q) \/ Watcher(q) \/ WriterStep(q) \/ ClientStep(q)
                 \/ ServiceStep(q)
          PROVE  [Promise!Next]_Promise!vars
        BY <2>1, CallerExchanges, HandlerExchanges, WriterExchanges, ClientExchanges
    <2>2. CASE TunnelLost \/ UNCHANGED vars
        BY <2>2, NothingSeen
           DEF TunnelLost, vars, callerVars, handlerVars, writerVars, clientVars, answerVars
    <2>3. QED BY <2>1, <2>2 DEF Next
<1>2. QED
    BY ExchangeBegins, ProxyInvariance, ExchangeInvariance, <1>1, PTL
       DEF Spec, ImplementsExchange, Promise!Spec

-----------------------------------------------------------------------------
(* That nobody waits in a circle, for any window and any buffer.           *)

\* Why a writer is done, and what the one that is not has left.
WriterDuty(q) ==
    /\ writer[q] = "read" => taken[q] < body[q]
    /\ writer[q] = "done" => \/ done[q] \/ tunnel = "lost" \/ upEnd[q] # "open"
                             \/ put[q] = 1 + body[q]
    /\ handler[q] \in Busy => writer[q] # "off"
    /\ handler[q] \in {"finishing", "failing"} => upEnd[q] # "open"
    /\ client[q] = "end" => downEnd[q] # "open"

WriterInv == \A q \in Requests : WriterDuty(q)

LEMMA WriterInit == Init => WriterInv
BY DEF Init, All, WriterInv, WriterDuty, Busy

LEMMA CallerKeepsWriter ==
    ASSUME ProxyInv, WriterInv, NEW q \in Requests,
           Arrive(q) \/ Upload(q) \/ Leave(q) \/ Notice(q)
    PROVE  WriterInv'
<1> USE DEF ProxyInv, ProxyTypes, Counters, Busy, Put, WriterInv, WriterDuty,
            WriterWithinHandler, callerVars, handlerVars, writerVars, clientVars, answerVars
<1>1. CASE Arrive(q) BY <1>1 DEF Arrive
<1>2. CASE Upload(q) BY <1>2 DEF Upload
<1>3. CASE Leave(q) BY <1>3 DEF Leave
<1>4. CASE Notice(q) BY <1>4 DEF Notice
<1>5. QED BY <1>1, <1>2, <1>3, <1>4

LEMMA HandlerKeepsWriter ==
    ASSUME ProxyInv, WriterInv, NEW q \in Requests, ProxyStep(q) \/ Watcher(q)
    PROVE  WriterInv'
<1> USE DEF ProxyInv, ProxyTypes, Counters, Busy, Put, WriterInv, WriterDuty,
            BodyGoesUp, WriterWithinHandler,
            callerVars, handlerVars, writerVars, clientVars, answerVars
<1>1. CASE OpenStream(q) BY <1>1 DEF OpenStream
<1>2. CASE OpenFails(q) BY <1>2 DEF OpenFails
<1>3. CASE ReadResponse(q) BY <1>3 DEF ReadResponse
<1>4. CASE ReadResponseFails(q) BY <1>4 DEF ReadResponseFails
<1>5. CASE CopyPart(q) BY <1>5 DEF CopyPart
<1>6. CASE CopyEnds(q) BY <1>6 DEF CopyEnds
<1>7. CASE CopyFails(q) BY <1>7 DEF CopyFails
<1>8. CASE CancelWrite(q) BY <1>8 DEF CancelWrite
<1>9. CASE Return(q) BY <1>9 DEF Return, Ending
<1>10. CASE Watcher(q) BY <1>10 DEF Watcher
<1>11. QED
    BY <1>1, <1>2, <1>3, <1>4, <1>5, <1>6, <1>7, <1>8, <1>9, <1>10 DEF ProxyStep

LEMMA WriterKeepsWriter ==
    ASSUME ProxyInv, WriterInv, NEW q \in Requests, WriterStep(q)
    PROVE  WriterInv'
<1> USE DEF ProxyInv, ProxyTypes, Counters, Busy, Put, WriterInv, WriterDuty, BodyGoesUp,
            callerVars, handlerVars, writerVars, clientVars, answerVars
<1>1. CASE WriterReads(q) BY <1>1 DEF WriterReads
<1>2. CASE WriterReadFails(q) BY <1>2 DEF WriterReadFails
<1>3. CASE WriterFlushes(q)
    <2>1. /\ writer[q] = "flush" /\ put' = [put EXCEPT ![q] = put[q] + 1]
          /\ put[q] <= taken[q] /\ taken[q] <= body[q]
          /\ put[q] \in Nat /\ taken[q] \in Nat /\ body[q] \in Nat
          /\ UNCHANGED <<tunnel, callerVars, handlerVars, taken, upEnd, clientVars, answerVars>>
          /\ \A p \in Requests \ {q} : writer'[p] = writer[p] /\ put'[p] = put[p]
          /\ put'[q] = put[q] + 1
        BY <1>3 DEF WriterFlushes
    <2>2. \/ writer'[q] = "flush"
          \/ writer'[q] = "done" /\ taken[q] < put[q] + 1 /\ taken[q] = body[q]
          \/ writer'[q] = "read" /\ taken[q] # body[q]
        BY <1>3, <2>1 DEF WriterFlushes
    <2>3. WriterDuty(q)'
        <3>1. /\ writer'[q] = "read" => taken'[q] < body'[q]
              /\ writer'[q] = "done" => put'[q] = 1 + body'[q]
              /\ writer'[q] # "off"
            <4>1. taken'[q] = taken[q] /\ body'[q] = body[q] BY <2>1
            <4>2. QED BY ONLY <2>1, <2>2, <4>1
        <3>2. /\ handler'[q] = handler[q] /\ upEnd'[q] = upEnd[q]
              /\ client'[q] = client[q] /\ downEnd'[q] = downEnd[q]
            BY <2>1
        <3>3. QED BY <3>1, <3>2
    <2>4. ASSUME NEW p \in Requests \ {q} PROVE WriterDuty(p)'
        BY <2>1
    <2>5. QED BY <2>3, <2>4
<1>4. CASE WriterFlushFails(q) BY <1>4 DEF WriterFlushFails
<1>5. QED BY <1>1, <1>2, <1>3, <1>4 DEF WriterStep

LEMMA ClientKeepsWriter ==
    ASSUME ProxyInv, WriterInv, NEW q \in Requests, ClientStep(q) \/ ServiceStep(q)
    PROVE  WriterInv'
<1> USE DEF ProxyInv, ProxyTypes, Put, WriterInv, WriterDuty,
            callerVars, handlerVars, writerVars, clientVars, answerVars
<1>1. CASE ReadRequest(q) BY <1>1 DEF ReadRequest
<1>2. CASE DrainBody(q) BY <1>2 DEF DrainBody
<1>3. CASE Drained(q) BY <1>3 DEF Drained
<1>4. CASE CloseStream(q) BY <1>4 DEF CloseStream
<1>5. CASE ForwardBody(q) BY <1>5 DEF ForwardBody
<1>6. CASE Answer(q) BY <1>6 DEF Answer
<1>7. CASE RoundTripFails(q) BY <1>7 DEF RoundTripFails
<1>8. CASE WritePart(q) BY <1>8 DEF WritePart
<1>9. CASE WriteEnds(q) BY <1>9 DEF WriteEnds
<1>10. QED
    BY <1>1, <1>2, <1>3, <1>4, <1>5, <1>6, <1>7, <1>8, <1>9 DEF ClientStep, ServiceStep

THEOREM WriterInvariance == Spec => []WriterInv
<1>1. ProxyInv /\ WriterInv /\ [Next]_vars => WriterInv'
    <2> SUFFICES ASSUME ProxyInv, WriterInv, [Next]_vars PROVE WriterInv' OBVIOUS
    <2>1. ASSUME NEW q \in Requests,
                 \/ Arrive(q) \/ Upload(q) \/ Leave(q) \/ Notice(q)
                 \/ ProxyStep(q) \/ Watcher(q) \/ WriterStep(q) \/ ClientStep(q)
                 \/ ServiceStep(q)
          PROVE  WriterInv'
        BY <2>1, CallerKeepsWriter, HandlerKeepsWriter, WriterKeepsWriter, ClientKeepsWriter
    <2>2. CASE TunnelLost \/ UNCHANGED vars
        BY <2>2
           DEF TunnelLost, vars, WriterInv, WriterDuty,
               callerVars, handlerVars, writerVars, clientVars, answerVars
    <2>3. QED BY <2>1, <2>2 DEF Next
<1>2. QED BY WriterInit, ProxyInvariance, <1>1, PTL DEF Spec

\* A client that waits for the request to go on is waited for by nobody who cannot:
\* the writer has more to send, or waits for the caller.
LEMMA WriterFeedsClient ==
    ASSUME ProxyInv, WriterInv, NEW q \in Requests,
           writer[q] # "off", got[q] < 1 + body[q], ~ClientCanRead(q), downEnd[q] # "stopped"
    PROVE  WriterCanGoOn(q) \/ WatcherCanGoOn(q) \/ CallerCanGoOn(q)
<1> USE DEF ProxyInv, ProxyTypes, Counters
<1>1. /\ tunnel # "lost" /\ upEnd[q] = "open" /\ got[q] = put[q]
      /\ got[q] \in Nat /\ put[q] \in Nat /\ taken[q] \in Nat
      /\ sent[q] \in Nat /\ body[q] \in Nat
      /\ caller[q] \in {"there", "gone"} /\ writer[q] \in {"off", "read", "flush", "done"}
    BY DEF ClientCanRead, BodyGoesUp
<1>2. CASE writer[q] = "read"
    BY <1>1, <1>2 DEF WriterInv, WriterDuty, WriterCanGoOn, CallerCanGoOn, BodyGoesUp
<1>3. CASE writer[q] = "flush"
    <2>1. put[q] - got[q] < Window BY <1>1, ProxyAssumption
    <2>2. QED BY <1>3, <2>1 DEF WriterCanGoOn
<1>4. CASE writer[q] = "done"
    <2>1. done[q] BY <1>1, <1>4 DEF WriterInv, WriterDuty
    <2>2. QED BY <1>4, <2>1 DEF WatcherCanGoOn, Opened
<1>5. QED BY <1>1, <1>2, <1>3, <1>4

\* Neither the handler nor the client waits for an answer that nobody is about to
\* give: with the stream open and nothing to read, the client or those it waits
\* for can go on.
LEMMA AnswerIsOnItsWay ==
    ASSUME ProxyInv, ExchangeInv, WriterInv, NEW q \in Requests,
           writer[q] # "off", downEnd[q] = "open", copied[q] = given[q]
    PROVE  \/ WriterCanGoOn(q) \/ WatcherCanGoOn(q) \/ CallerCanGoOn(q)
           \/ ClientCanGoOn(q) \/ ServiceCanGoOn(q)
<1>1. client[q] \in {"off", "forward", "respond", "drain", "close", "end"}
      /\ got[q] \in Nat /\ put[q] \in Nat /\ body[q] \in Nat /\ taken[q] \in Nat
      /\ given[q] \in Nat /\ got[q] <= put[q] /\ put[q] <= taken[q] + 1 /\ taken[q] <= body[q]
    BY DEF ProxyInv, ProxyTypes, Counters, BodyGoesUp
<1>2. CASE client[q] \in {"off", "drain"}
    <2>1. CASE ClientCanRead(q) BY <1>2, <2>1 DEF ClientCanGoOn
    <2>2. CASE ~ClientCanRead(q) /\ got[q] = 1 + body[q]
        <3>1. client[q] # "off"
            <4>1. client[q] = "off" => got[q] = 0
                BY DEF ExchangeInv, AnswerFits
            <4>2. QED BY <4>1, <2>2, <1>1
        <3>2. QED BY <1>2, <2>2, <3>1 DEF ClientCanGoOn
    <2>3. CASE ~ClientCanRead(q) /\ got[q] # 1 + body[q]
        <3>1. got[q] < 1 + body[q] BY <2>3, <1>1
        <3>2. QED BY <2>3, <3>1, WriterFeedsClient
    <2>4. QED BY <2>1, <2>2, <2>3
<1>3. CASE client[q] = "forward" BY <1>3 DEF ServiceCanGoOn
<1>4. CASE client[q] = "respond"
    <2>1. given[q] - copied[q] < Window BY <1>1, ProxyAssumption
    <2>2. QED BY <1>4, <2>1 DEF ServiceCanGoOn
<1>5. CASE client[q] = "close" BY <1>5 DEF ClientCanGoOn
<1>6. CASE client[q] = "end" BY <1>6 DEF WriterInv, WriterDuty
<1>7. QED BY <1>1, <1>2, <1>3, <1>4, <1>5, <1>6

LEMMA SomeoneCanGoOn == ProxyInv /\ ExchangeInv /\ WriterInv => NobodyWaitsInACircle
<1> SUFFICES ASSUME ProxyInv, ExchangeInv, WriterInv, NEW q \in Requests, handler[q] \in Busy
             PROVE  \/ HandlerCanGoOn(q) \/ WriterCanGoOn(q) \/ WatcherCanGoOn(q)
                    \/ ClientCanGoOn(q) \/ ServiceCanGoOn(q) \/ CallerCanGoOn(q)
    BY DEF NobodyWaitsInACircle
<1>1. writer[q] # "off" BY DEF WriterInv, WriterDuty
<1>2. CASE handler[q] \in {"await", "copy"}
    <2>1. CASE Gone(q) \/ downEnd[q] = "fin" BY <1>2, <2>1 DEF HandlerCanGoOn
    <2>2. CASE downEnd[q] = "open" /\ copied[q] # given[q] /\ ~Gone(q)
        <3>1. copied[q] \in Nat /\ given[q] \in Nat /\ copied[q] <= given[q]
            BY DEF ProxyInv, ProxyTypes, Counters, AnswerGoesDown
        <3>2. tunnel = "up" BY <2>2 DEF ProxyInv, ProxyTypes, Gone
        <3>3. QED BY <1>2, <2>2, <3>1, <3>2 DEF HandlerCanGoOn, ServerReads
    <2>3. CASE downEnd[q] = "open" /\ copied[q] = given[q]
        BY <1>1, <2>3, AnswerIsOnItsWay
    <2>4. QED BY <2>1, <2>2, <2>3 DEF ProxyInv, ProxyTypes, Gone
<1>3. CASE handler[q] \in {"finish", "fail"} BY <1>3 DEF HandlerCanGoOn
<1>4. CASE handler[q] \in {"finishing", "failing"}
    <2>1. upEnd[q] # "open" BY <1>4 DEF WriterInv, WriterDuty
    <2>2. CASE writer[q] = "done" BY <1>4, <2>2 DEF HandlerCanGoOn
    <2>3. CASE writer[q] = "flush" BY <2>1, <2>3 DEF WriterCanGoOn
    <2>4. CASE writer[q] = "read"
        <3>1. taken[q] < body[q] BY <2>4 DEF WriterInv, WriterDuty
        <3>2. CASE taken[q] < sent[q] BY <2>4, <3>2 DEF WriterCanGoOn
        <3>3. CASE taken[q] = sent[q]
            BY <2>4, <3>1, <3>3 DEF ProxyInv, ProxyTypes, WriterCanGoOn, CallerCanGoOn
        <3>4. taken[q] \in Nat /\ sent[q] \in Nat /\ taken[q] <= sent[q]
            BY DEF ProxyInv, ProxyTypes, Counters, BodyGoesUp
        <3>5. QED BY <3>2, <3>3, <3>4
    <2>5. QED BY <1>1, <2>2, <2>3, <2>4 DEF ProxyInv, ProxyTypes
<1>5. QED BY <1>2, <1>3, <1>4 DEF Busy

\* For any windows and buffers: a request that is forwarded never comes to rest with
\* every party waiting for another one ("early upload response deadlocked" is the
\* failure that integration/tunnel_test.go looks for).
THEOREM NoCircularWait == Spec => []NobodyWaitsInACircle
BY ProxyInvariance, ExchangeInvariance, WriterInvariance, SomeoneCanGoOn, PTL
-----------------------------------------------------------------------------
(* Backpressure, for any window and any buffer.                            *)

\* What is taken in and not passed on, and what is passed on and not read.
BodyHeldBack(q) ==
    /\ put[q] <= got[q] + Window
    /\ taken[q] <= put[q] + Held
    /\ writer[q] = "read" => taken[q] < put[q] + Held

AnswerHeldBack(q) ==
    /\ given[q] <= copied[q] + Window
    /\ copied[q] <= reached[q] + Held

HeldInv == \A q \in Requests : BodyHeldBack(q) /\ AnswerHeldBack(q)

LEMMA HeldIsPositive == Held \in Nat \ {0} /\ Buffer \in Nat /\ Buffer <= Held
BY ProxyAssumption DEF Held

LEMMA HeldInit == Init => HeldInv
BY HeldIsPositive, ProxyAssumption
   DEF Init, All, HeldInv, BodyHeldBack, AnswerHeldBack

LEMMA HandlerHolds ==
    ASSUME ProxyInv, HeldInv, NEW q \in Requests, ProxyStep(q)
    PROVE  HeldInv'
<1> USE HeldIsPositive, ProxyAssumption
        DEF ProxyInv, ProxyTypes, Counters, Busy, Put, HeldInv, BodyHeldBack, AnswerHeldBack,
            AnswerGoesDown, WriterWithinHandler, BodyGoesUp,
            callerVars, handlerVars, writerVars, clientVars, answerVars
<1>1. CASE OpenStream(q) BY <1>1 DEF OpenStream
<1>2. CASE ReadResponse(q) BY <1>2 DEF ReadResponse, ServerReads
<1>3. CASE CopyPart(q)
    <2>1. /\ copied' = [copied EXCEPT ![q] = copied[q] + 1]
          /\ reached' = [reached EXCEPT ![q] = IF FitsBuffer(q) THEN reached[q]
                                                                ELSE copied'[q]]
          /\ UNCHANGED <<writerVars, clientVars, answerVars>>
        BY <1>3 DEF CopyPart
    <2>2. copied'[q] = copied[q] + 1 BY <2>1
    <2>3. copied'[q] <= reached'[q] + Held
        <3>1. CASE FitsBuffer(q) BY <2>1, <2>2, <3>1 DEF FitsBuffer
        <3>2. CASE ~FitsBuffer(q) BY <2>1, <2>2, <3>2
        <3>3. QED BY <3>1, <3>2
    <2>4. given[q] = given'[q] /\ copied'[q] >= copied[q] BY <2>1, <2>2
    <2>5. \A p \in Requests \ {q} : copied'[p] = copied[p] /\ reached'[p] = reached[p]
        BY <2>1
    <2>6. QED BY <2>1, <2>2, <2>3, <2>4, <2>5
<1>4. CASE Return(q) BY <1>4 DEF Return
<1>5. CASE OpenFails(q) \/ ReadResponseFails(q) \/ CopyEnds(q) \/ CopyFails(q) \/ CancelWrite(q)
    BY <1>5 DEF OpenFails, ReadResponseFails, CopyEnds, CopyFails, CancelWrite
<1>6. QED BY <1>1, <1>2, <1>3, <1>4, <1>5 DEF ProxyStep

LEMMA WriterHolds ==
    ASSUME ProxyInv, HeldInv, NEW q \in Requests, WriterStep(q)
    PROVE  HeldInv'
<1> USE HeldIsPositive, ProxyAssumption
        DEF ProxyInv, ProxyTypes, Counters, Put, HeldInv, BodyHeldBack, AnswerHeldBack,
            BodyGoesUp, callerVars, handlerVars, writerVars, clientVars, answerVars
<1>1. CASE WriterReads(q)
    <2>1. /\ writer[q] = "read" /\ taken' = [taken EXCEPT ![q] = taken[q] + 1]
          /\ writer' = [writer EXCEPT ![q] =
                IF taken'[q] = body[q] \/ 1 + taken'[q] - put[q] > Buffer
                THEN "flush" ELSE "read"]
          /\ UNCHANGED <<put, handlerVars, clientVars, answerVars>>
        BY <1>1 DEF WriterReads
    <2>2. taken'[q] = taken[q] + 1 BY <2>1
    <2>3. writer'[q] = "read" => taken'[q] < put[q] + Held
        <3>1. CASE 1 + taken'[q] - put[q] > Buffer BY <2>1, <3>1
        <3>2. CASE ~(1 + taken'[q] - put[q] > Buffer) BY <2>2, <3>2
        <3>3. QED BY <3>1, <3>2
    <2>4. \A p \in Requests \ {q} : taken'[p] = taken[p] /\ writer'[p] = writer[p]
        BY <2>1
    <2>5. QED BY <2>1, <2>2, <2>3, <2>4
<1>2. CASE WriterFlushes(q)
    <2>1. /\ put[q] - got[q] < Window /\ put' = [put EXCEPT ![q] = put[q] + 1]
          /\ \E step \in {"flush", "done", "read"} :
                /\ writer' = [writer EXCEPT ![q] = step]
                /\ step = "read" => ~(put[q] + 1 <= taken[q])
          /\ UNCHANGED <<taken, handlerVars, clientVars, answerVars>>
        BY <1>2 DEF WriterFlushes
    <2>2. QED BY <2>1
<1>3. CASE WriterReadFails(q) \/ WriterFlushFails(q)
    BY <1>3 DEF WriterReadFails, WriterFlushFails
<1>4. QED BY <1>1, <1>2, <1>3 DEF WriterStep

LEMMA ClientHolds ==
    ASSUME ProxyInv, HeldInv, NEW q \in Requests, ClientStep(q) \/ ServiceStep(q)
    PROVE  HeldInv'
<1> USE HeldIsPositive, ProxyAssumption
        DEF ProxyInv, ProxyTypes, Counters, Put, HeldInv, BodyHeldBack, AnswerHeldBack,
            AnswerGoesDown, callerVars, handlerVars, writerVars, clientVars, answerVars
<1>1. CASE ReadRequest(q) \/ DrainBody(q) \/ ForwardBody(q)
    <2>1. /\ \/ got' = [got EXCEPT ![q] = got[q] + 1]
             \/ got' = got
          /\ UNCHANGED <<handlerVars, writerVars, answerVars>>
        BY <1>1 DEF ReadRequest, DrainBody, ForwardBody, ReadsPiece, ReadsEnd
    <2>2. QED BY <2>1
<1>2. CASE RoundTripFails(q) BY <1>2 DEF RoundTripFails
<1>3. CASE WritePart(q) BY <1>3 DEF WritePart
<1>4. CASE Drained(q) \/ CloseStream(q) \/ Answer(q) \/ WriteEnds(q)
    BY <1>4 DEF Drained, CloseStream, Answer, WriteEnds
<1>5. QED BY <1>1, <1>2, <1>3, <1>4 DEF ClientStep, ServiceStep

\* In either direction no more than a window and a buffer is between who writes
\* and who reads, whatever the window, the buffer and the length of the bodies.
THEOREM Backpressure == Spec => []StreamedWithBackpressure
<1>1. ProxyInv /\ HeldInv /\ [Next]_vars => HeldInv'
    <2> SUFFICES ASSUME ProxyInv, HeldInv, [Next]_vars PROVE HeldInv' OBVIOUS
    <2>1. ASSUME NEW q \in Requests,
                 Arrive(q) \/ Upload(q) \/ Leave(q) \/ Notice(q) \/ Watcher(q)
          PROVE  HeldInv'
        BY <2>1 DEF Arrive, Upload, Leave, Notice, Watcher, HeldInv, BodyHeldBack,
                    AnswerHeldBack, handlerVars, writerVars, clientVars, answerVars
    <2>2. ASSUME NEW q \in Requests,
                 ProxyStep(q) \/ WriterStep(q) \/ ClientStep(q) \/ ServiceStep(q)
          PROVE  HeldInv'
        BY <2>2, HandlerHolds, WriterHolds, ClientHolds
    <2>3. CASE TunnelLost \/ UNCHANGED vars
        BY <2>3 DEF TunnelLost, vars, HeldInv, BodyHeldBack, AnswerHeldBack,
                    handlerVars, writerVars, clientVars, answerVars
    <2>4. QED BY <2>1, <2>2, <2>3 DEF Next
<1>2. ProxyInv /\ HeldInv => StreamedWithBackpressure
    <2> SUFFICES ASSUME ProxyInv, HeldInv, NEW q \in Requests
                 PROVE  /\ taken[q] <= got[q] + Window + Held
                        /\ given[q] <= reached[q] + Window + Held
        BY DEF StreamedWithBackpressure
    <2>1. /\ taken[q] \in Nat /\ put[q] \in Nat /\ got[q] \in Nat
          /\ given[q] \in Nat /\ copied[q] \in Nat /\ reached[q] \in Nat
        BY DEF ProxyInv, ProxyTypes, Counters
    <2>2. QED
        BY <2>1, HeldIsPositive, ProxyAssumption DEF HeldInv, BodyHeldBack, AnswerHeldBack
<1>3. QED BY HeldInit, ProxyInvariance, <1>1, <1>2, PTL DEF Spec
=============================================================================
