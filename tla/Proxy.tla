------------------------------- MODULE Proxy -------------------------------
(***************************************************************************)
(* Public requests forwarded over one tunnel: Server.proxy with its writer *)
(* and watcher goroutines, the QUIC stream of the request, and the         *)
(* client's handleStream in front of the local service.                    *)
(*                                                                         *)
(* A message is a head and some parts of a body, and is carried by         *)
(* counters: how many pieces each hand along the way has passed on.  A     *)
(* piece is about as large as the 4 KB buffers of bufio and net/http.      *)
(* quic-go, net/http and the two ends (public caller, local service) are   *)
(* modelled from how the code uses them, for HTTP/1.1.                     *)
(***************************************************************************)
EXTENDS Naturals, FiniteSets

CONSTANTS
    Requests,   \* public requests to one tunnel
    MaxStreams, \* MaxIncomingStreams of the client: 1000 in the code
    Window,     \* unread pieces a stream takes in before its writer waits
    Buffer,     \* pieces a bufio or net/http writer holds back
    MaxBody,    \* bound: parts of a request body
    MaxAnswer   \* bound: parts of an answer body

ASSUME ProxyAssumption ==
    /\ IsFiniteSet(Requests)
    /\ MaxStreams \in Nat \ {0}
    /\ Window \in Nat \ {0}
    /\ {Buffer, MaxBody, MaxAnswer} \subseteq Nat

VARIABLES
    tunnel,   \* the QUIC connection: "up" or "lost"
    caller,   \* caller[q]: the public caller is "there" or "gone"
    body,     \* body[q]: the parts of its body
    closing,  \* closing[q]: it sent Connection: close
    sent,     \* sent[q]: the parts it has sent
    done,     \* done[q]: request.Context() is done
    handler,  \* handler[q]: the step Server.proxy has reached
    copied,   \* copied[q]: pieces of the answer it has read
    reached,  \* reached[q]: pieces of the answer the caller has
    outcome,  \* outcome[q]: how the answer ended for the caller
    writer,   \* writer[q]: the step of the goroutine in outgoing.Write
    taken,    \* taken[q]: body parts it has read from the caller
    put,      \* put[q]: pieces it has written on the stream
    upEnd,    \* upEnd[q]: the stream towards the client: open, fin or reset
    client,   \* client[q]: the step handleStream has reached
    got,      \* got[q]: pieces of the request it has read
    sawEnd,   \* sawEnd[q]: it has read the end, or an error, of the stream
    answer,   \* answer[q]: of the local service: none, going, whole or cut
    framing,  \* framing[q]: how the answer's length is told
    given,    \* given[q]: pieces of the answer written on the stream
    downEnd   \* downEnd[q]: the stream towards the server: open, fin or stopped

callerVars  == <<caller, body, closing, sent, done>>
handlerVars == <<handler, copied, reached, outcome>>
writerVars  == <<writer, taken, put, upEnd>>
clientVars  == <<client, got, sawEnd>>
answerVars  == <<answer, framing, given, downEnd>>
vars == <<tunnel, callerVars, handlerVars, writerVars, clientVars, answerVars>>

Framings == {"length", "chunked", "close"}
Busy == {"await", "copy", "finish", "finishing", "fail", "failing"}

All(value) == [q \in Requests |-> value]
Put(f, q, value) == [f EXCEPT ![q] = value]

Init ==
    /\ tunnel = "up"
    /\ caller = All("there") /\ body = All(0) /\ closing = All(FALSE)
    /\ sent = All(0) /\ done = All(FALSE)
    /\ handler = All("idle") /\ copied = All(0) /\ reached = All(0)
    /\ outcome = All("pending")
    /\ writer = All("off") /\ taken = All(0) /\ put = All(0) /\ upEnd = All("open")
    /\ client = All("off") /\ got = All(0) /\ sawEnd = All(FALSE)
    /\ answer = All("none") /\ framing = All("length") /\ given = All(0)
    /\ downEnd = All("open")

-----------------------------------------------------------------------------
(* The public caller, and the tunnel.                                      *)

Arrive(q) ==
    /\ handler[q] = "idle"
    /\ handler' = Put(handler, q, "opening")
    /\ \E n \in 0 .. MaxBody : body' = Put(body, q, n)
    /\ \E c \in BOOLEAN : closing' = Put(closing, q, c)
    /\ UNCHANGED <<tunnel, caller, sent, done, copied, reached, outcome,
                   writerVars, clientVars, answerVars>>

Upload(q) ==
    /\ caller[q] = "there" /\ handler[q] \in {"opening"} \cup Busy
    /\ sent[q] < body[q]
    /\ sent' = Put(sent, q, sent[q] + 1)
    /\ UNCHANGED <<tunnel, caller, body, closing, done, handlerVars, writerVars,
                   clientVars, answerVars>>

Leave(q) ==
    /\ caller[q] = "there" /\ handler[q] \in {"opening"} \cup Busy
    /\ caller' = Put(caller, q, "gone")
    /\ UNCHANGED <<tunnel, body, closing, sent, done, handlerVars, writerVars,
                   clientVars, answerVars>>

\* net/http looks at the connection once the body has been read to its end;
\* before that only who reads the body sees the caller go (WriterReadFails).
Notice(q) ==
    /\ caller[q] = "gone" /\ ~done[q]
    /\ handler[q] \in {"opening"} \cup Busy /\ taken[q] = body[q]
    /\ done' = Put(done, q, TRUE)
    /\ UNCHANGED <<tunnel, caller, body, closing, sent, handlerVars, writerVars,
                   clientVars, answerVars>>

TunnelLost ==
    /\ tunnel = "up"
    /\ tunnel' = "lost"
    /\ UNCHANGED <<callerVars, handlerVars, writerVars, clientVars, answerVars>>

-----------------------------------------------------------------------------
(* Streams.                                                                *)

Opened(q) == writer[q] # "off"

\* quic-go forgets a stream of its peer, and grants a new one, when both
\* directions are over: the answer closed, and the end of the request read.
Freed(q) == client[q] = "end" /\ sawEnd[q]

Streams == {q \in Requests : Opened(q) /\ ~Freed(q)}

ServerReads(q) == tunnel = "up" /\ downEnd[q] # "stopped" /\ copied[q] < given[q]

-----------------------------------------------------------------------------
(* Server.proxy.                                                           *)

\* OpenStreamSync, and the go statements that follow it.
OpenStream(q) ==
    /\ handler[q] = "opening" /\ tunnel = "up" /\ ~done[q]
    /\ Cardinality(Streams) < MaxStreams
    /\ handler' = Put(handler, q, "await")
    /\ writer' = Put(writer, q, IF body[q] = 0 THEN "flush" ELSE "read")
    /\ UNCHANGED <<tunnel, callerVars, copied, reached, outcome, taken, put, upEnd,
                   clientVars, answerVars>>

\* The tunnel or the caller is gone, or 15 seconds have passed without credit.
OpenFails(q) ==
    /\ handler[q] = "opening"
    /\ tunnel = "lost" \/ done[q] \/ Cardinality(Streams) >= MaxStreams
    /\ handler' = Put(handler, q, "end")
    /\ outcome' = Put(outcome, q, "offline")
    /\ UNCHANGED <<tunnel, callerVars, copied, reached, writerVars, clientVars, answerVars>>

\* Faulty variant, for the sensitivity of the properties: a stream that ends
\* without an answer is taken for an empty answer.
ReadResponseEmpty(q) ==
    /\ handler[q] = "await" /\ (ServerReads(q) \/ downEnd[q] = "fin")
    /\ handler' = Put(handler, q, "copy")
    /\ copied' = Put(copied, q, 1)
    /\ UNCHANGED <<tunnel, callerVars, reached, outcome, writerVars, clientVars, answerVars>>

ReadResponse(q) ==
    /\ handler[q] = "await" /\ ServerReads(q)
    /\ handler' = Put(handler, q, "copy")
    /\ copied' = Put(copied, q, 1)
    /\ UNCHANGED <<tunnel, callerVars, reached, outcome, writerVars, clientVars, answerVars>>

ReadResponseFails(q) ==
    /\ handler[q] = "await"
    /\ \/ tunnel = "lost" \/ downEnd[q] = "stopped"
       \/ downEnd[q] = "fin" /\ copied[q] = given[q]
    /\ handler' = Put(handler, q, "fail")
    /\ UNCHANGED <<tunnel, callerVars, copied, reached, outcome, writerVars, clientVars, answerVars>>

\* What the handler writes next stays in the buffer, and not on the connection.
FitsBuffer(q) == copied[q] + 1 <= reached[q] + Buffer

\* io.Copy into a writer that holds back what fits its buffer: nothing flushes,
\* and nothing tells that the caller is gone.
CopyPart(q) ==
    /\ handler[q] = "copy" /\ ServerReads(q)
    /\ FitsBuffer(q) \/ caller[q] = "there"
    /\ copied' = Put(copied, q, copied[q] + 1)
    /\ reached' = Put(reached, q, IF FitsBuffer(q) THEN reached[q] ELSE copied'[q])
    /\ UNCHANGED <<tunnel, callerVars, handler, outcome, writerVars, clientVars, answerVars>>

\* The answer is read to its end, as its framing tells it.
Whole(q) ==
    /\ copied[q] = given[q]
    /\ IF framing[q] = "close" THEN downEnd[q] = "fin" ELSE answer[q] = "whole"

\* io.Copy returns; its error is counted and logged and changes nothing else.
CopyEnds(q) ==
    /\ handler[q] = "copy"
    /\ \/ Whole(q)
       \/ tunnel = "lost" \/ downEnd[q] = "stopped"
       \/ downEnd[q] = "fin" /\ copied[q] = given[q]
    /\ handler' = Put(handler, q, "finish")
    /\ UNCHANGED <<tunnel, callerVars, copied, reached, outcome, writerVars, clientVars, answerVars>>

\* ... or because a piece that was read cannot be written, the caller being gone:
\* net/http cancels the request's context. The piece is lost.
CopyFails(q) ==
    /\ handler[q] = "copy" /\ ServerReads(q)
    /\ ~FitsBuffer(q) /\ caller[q] = "gone"
    /\ handler' = Put(handler, q, "finish")
    /\ done' = Put(done, q, TRUE)
    /\ UNCHANGED <<tunnel, caller, body, closing, sent, copied, reached, outcome,
                   writerVars, clientVars, answerVars>>

\* Faulty variant, for the sensitivity of the properties: the write direction is
\* not cancelled.
CancelWriteForgotten(q) ==
    /\ handler[q] \in {"finish", "fail"} /\ writer[q] # "done"
    /\ handler' = Put(handler, q, IF handler[q] = "fail" THEN "failing" ELSE "finishing")
    /\ UNCHANGED <<tunnel, callerVars, copied, reached, outcome, writerVars,
                   clientVars, answerVars>>

\* finishRequestWrite, when the writer is still at it.
CancelWrite(q) ==
    /\ handler[q] \in {"finish", "fail"} /\ writer[q] # "done"
    /\ handler' = Put(handler, q, IF handler[q] = "fail" THEN "failing" ELSE "finishing")
    /\ upEnd' = Put(upEnd, q, "reset")
    /\ UNCHANGED <<tunnel, callerVars, copied, reached, outcome, writer, taken, put,
                   clientVars, answerVars>>

\* Faulty variant, for the sensitivity of the properties: an answer that breaks
\* off is ended by an error page.
EndingWithErrorPage(q) ==
    IF handler[q] \in {"fail", "failing"} THEN "failed"
    ELSE IF caller[q] = "gone" THEN "broken"
    ELSE IF framing[q] = "length" /\ ~Whole(q) THEN "failed" ELSE "complete"

\* How net/http ends the answer of a handler that returns: it flushes what it
\* holds back, ends a chunked body with the last chunk, and breaks the
\* connection of a body that is shorter than its Content-Length.
Ending(q) ==
    IF handler[q] \in {"fail", "failing"} THEN "failed"
    ELSE IF caller[q] = "gone" \/ (framing[q] = "length" /\ ~Whole(q)) THEN "broken"
    ELSE "complete"

\* Faulty variant, for the sensitivity of the properties: finishRequestWrite does
\* not wait for the writer.
ReturnAtOnce(q) ==
    /\ handler[q] \in {"finish", "fail", "finishing", "failing"}
    /\ outcome' = Put(outcome, q, Ending(q))
    /\ handler' = Put(handler, q, "end")
    /\ reached' = Put(reached, q, copied[q])
    /\ upEnd' = Put(upEnd, q, IF upEnd[q] = "open" THEN "fin" ELSE upEnd[q])
    /\ UNCHANGED <<tunnel, callerVars, copied, writer, taken, put, clientVars, answerVars>>

\* The writer is done: the handler returns, and stream.Close runs.
Return(q) ==
    /\ handler[q] \in {"finish", "fail", "finishing", "failing"} /\ writer[q] = "done"
    /\ outcome' = Put(outcome, q, Ending(q))
    /\ handler' = Put(handler, q, "end")
    /\ reached' = Put(reached, q, copied[q])
    /\ upEnd' = Put(upEnd, q, IF upEnd[q] = "open" THEN "fin" ELSE upEnd[q])
    /\ UNCHANGED <<tunnel, callerVars, copied, writer, taken, put, clientVars, answerVars>>

\* Faulty variant, for the sensitivity of the properties: the watcher cancels the
\* write direction only.
WatcherKeepsReading(q) ==
    /\ done[q] /\ Opened(q) /\ upEnd[q] # "reset"
    /\ upEnd' = Put(upEnd, q, "reset")
    /\ UNCHANGED <<tunnel, callerVars, handlerVars, writer, taken, put, clientVars, answerVars>>

\* The watcher goroutine: CancelRead and CancelWrite.  It waits in its select
\* when the context is done, so that is the case it takes, even if the handler
\* returns before it runs; a stream that was closed by then may stay so.
Watcher(q) ==
    /\ done[q] /\ Opened(q) /\ downEnd[q] # "stopped"
    /\ downEnd' = Put(downEnd, q, "stopped")
    /\ \E end \in {"reset"} \cup ({upEnd[q]} \cap {"fin"}) : upEnd' = Put(upEnd, q, end)
    /\ UNCHANGED <<tunnel, callerVars, handlerVars, writer, taken, put, clientVars,
                   answer, framing, given>>

-----------------------------------------------------------------------------
(* outgoing.Write in its goroutine, through a bufio.Writer.  The head is   *)
(* the first piece it has to write.                                        *)

\* Faulty variant, for the sensitivity of the properties: the body is read as a
\* whole before any of it is written.
WriterReadsAll(q) ==
    /\ writer[q] = "read" /\ taken[q] < sent[q]
    /\ taken' = Put(taken, q, taken[q] + 1)
    /\ writer' = Put(writer, q, IF taken'[q] = body[q] THEN "flush" ELSE "read")
    /\ UNCHANGED <<tunnel, callerVars, handlerVars, put, upEnd, clientVars, answerVars>>

WriterReads(q) ==
    /\ writer[q] = "read" /\ taken[q] < sent[q]
    /\ taken' = Put(taken, q, taken[q] + 1)
    /\ writer' = Put(writer, q, IF taken'[q] = body[q] \/ 1 + taken'[q] - put[q] > Buffer
                                THEN "flush" ELSE "read")
    /\ UNCHANGED <<tunnel, callerVars, handlerVars, put, upEnd, clientVars, answerVars>>

\* The caller is gone: its context is cancelled, and Body.Read fails.
WriterReadFails(q) ==
    /\ writer[q] = "read" /\ taken[q] = sent[q] /\ caller[q] = "gone"
    /\ writer' = Put(writer, q, "done")
    /\ done' = Put(done, q, TRUE)
    /\ UNCHANGED <<tunnel, caller, body, closing, sent, handlerVars, taken, put, upEnd,
                   clientVars, answerVars>>

WriterFlushes(q) ==
    /\ writer[q] = "flush" /\ tunnel = "up" /\ upEnd[q] = "open"
    /\ put[q] - got[q] < Window
    /\ put' = Put(put, q, put[q] + 1)
    /\ writer' = Put(writer, q, IF put'[q] <= taken[q] THEN "flush"
                                ELSE IF taken[q] = body[q] THEN "done" ELSE "read")
    /\ UNCHANGED <<tunnel, callerVars, handlerVars, taken, upEnd, clientVars, answerVars>>

WriterFlushFails(q) ==
    /\ writer[q] = "flush" /\ (tunnel = "lost" \/ upEnd[q] # "open")
    /\ writer' = Put(writer, q, "done")
    /\ UNCHANGED <<tunnel, callerVars, handlerVars, taken, put, upEnd, clientVars, answerVars>>

-----------------------------------------------------------------------------
(* handleStream of the client.                                             *)

\* A read of the request: a piece of it, maybe together with the end of the
\* stream, or the end or an error of the stream alone.
ReadsPiece(q) ==
    /\ tunnel = "up" /\ upEnd[q] # "reset" /\ got[q] < put[q]
    /\ got' = Put(got, q, got[q] + 1)
    /\ \E end \in {sawEnd[q], upEnd[q] = "fin" /\ got'[q] = put[q]} :
          sawEnd' = Put(sawEnd, q, end)

ReadsEnd(q) ==
    /\ tunnel = "lost" \/ upEnd[q] = "reset" \/ (upEnd[q] = "fin" /\ got[q] = put[q])
    /\ sawEnd' = Put(sawEnd, q, TRUE)
    /\ UNCHANGED got

\* AcceptStream and http.ReadRequest; CancelRead if that fails.
ReadRequest(q) ==
    /\ client[q] = "off" /\ Opened(q)
    /\ \/ ReadsPiece(q) /\ client' = Put(client, q, "forward")
       \/ ReadsEnd(q) /\ client' = Put(client, q, "close")
    /\ UNCHANGED <<tunnel, callerVars, handlerVars, writerVars, answerVars>>

\* The transport hands the body to the local service, at the pace of the service.
ForwardBody(q) ==
    /\ client[q] \in {"forward", "respond"} /\ got[q] < 1 + body[q]
    /\ ReadsPiece(q) \/ (~sawEnd[q] /\ ReadsEnd(q))
    /\ UNCHANGED <<tunnel, callerVars, handlerVars, writerVars, client, answerVars>>

\* RoundTrip returns an answer, maybe before it has read the body.
Answer(q) ==
    /\ client[q] = "forward" /\ downEnd[q] # "stopped"
    /\ client' = Put(client, q, "respond")
    /\ answer' = Put(answer, q, "going")
    /\ \E f \in Framings : framing' = Put(framing, q, f)
    /\ UNCHANGED <<tunnel, callerVars, handlerVars, writerVars, got, sawEnd, given, downEnd>>

\* RoundTrip fails: the service is not there, the body cannot be read, or the
\* stream's context is done.  writeErrorResponse writes what it can.
RoundTripFails(q) ==
    /\ client[q] = "forward"
    /\ client' = Put(client, q, "drain")
    /\ framing' = Put(framing, q, "length")
    /\ IF tunnel = "up" /\ downEnd[q] = "open"
       THEN given' = Put(given, q, 1) /\ answer' = Put(answer, q, "whole")
       ELSE UNCHANGED given /\ answer' = Put(answer, q, "cut")
    /\ UNCHANGED <<tunnel, callerVars, handlerVars, writerVars, got, sawEnd, downEnd>>

WritePart(q) ==
    /\ client[q] = "respond" /\ tunnel = "up" /\ downEnd[q] = "open"
    /\ given[q] - copied[q] < Window /\ given[q] <= MaxAnswer
    /\ given' = Put(given, q, given[q] + 1)
    /\ UNCHANGED <<tunnel, callerVars, handlerVars, writerVars, clientVars,
                   answer, framing, downEnd>>

\* response.Write returns: the answer is whole, or the service or the stream
\* broke off in the middle of it.  Its error is only logged.
WriteEnds(q) ==
    /\ client[q] = "respond" /\ (given[q] >= 1 \/ downEnd[q] = "stopped" \/ tunnel = "lost")
    /\ client' = Put(client, q, "drain")
    /\ \E end \in {"whole", "cut"} :
        /\ end = "whole" => tunnel = "up" /\ downEnd[q] = "open"
        /\ answer' = Put(answer, q, end)
    /\ UNCHANGED <<tunnel, callerVars, handlerVars, writerVars, got, sawEnd,
                   framing, given, downEnd>>

\* request.Body.Close reads the body to its end, except after Connection: close.
DrainBody(q) ==
    /\ client[q] = "drain" /\ got[q] < 1 + body[q] /\ ~closing[q] /\ ~sawEnd[q]
    /\ ReadsPiece(q) \/ ReadsEnd(q)
    /\ UNCHANGED <<tunnel, callerVars, handlerVars, writerVars, client, answerVars>>

Drained(q) ==
    /\ client[q] = "drain"
    /\ got[q] = 1 + body[q] \/ closing[q] \/ sawEnd[q]
    /\ client' = Put(client, q, "close")
    /\ UNCHANGED <<tunnel, callerVars, handlerVars, writerVars, got, sawEnd, answerVars>>

\* The deferred stream.Close: it ends the write direction only.
CloseStream(q) ==
    /\ client[q] = "close"
    /\ client' = Put(client, q, "end")
    /\ downEnd' = Put(downEnd, q, IF downEnd[q] = "open" THEN "fin" ELSE downEnd[q])
    /\ UNCHANGED <<tunnel, callerVars, handlerVars, writerVars, got, sawEnd,
                   answer, framing, given>>

-----------------------------------------------------------------------------
ProxyStep(q) ==
    \/ OpenStream(q) \/ OpenFails(q) \/ ReadResponse(q) \/ ReadResponseFails(q)
    \/ CopyPart(q) \/ CopyEnds(q) \/ CopyFails(q) \/ CancelWrite(q) \/ Return(q)

WriterStep(q) ==
    \/ WriterReads(q) \/ WriterReadFails(q) \/ WriterFlushes(q) \/ WriterFlushFails(q)

\* What handleStream does without the local service.
ClientStep(q) == ReadRequest(q) \/ DrainBody(q) \/ Drained(q) \/ CloseStream(q)

ServiceStep(q) ==
    \/ ForwardBody(q) \/ Answer(q) \/ RoundTripFails(q) \/ WritePart(q) \/ WriteEnds(q)

Next ==
    \/ \E q \in Requests :
        \/ Arrive(q) \/ Upload(q) \/ Leave(q) \/ Notice(q)
        \/ ProxyStep(q) \/ Watcher(q) \/ WriterStep(q) \/ ClientStep(q) \/ ServiceStep(q)
    \/ TunnelLost

Spec == Init /\ [][Next]_vars

(***************************************************************************)
(* Fairness.  Of the code: every goroutine goes on when it can, and a      *)
(* transport or a write whose stream is gone returns.  Of the local        *)
(* service: that it answers, and ends its answer, as long as its caller is *)
(* there or the writer waits for the window; nothing is assumed of it for  *)
(* a request that was abandoned.  Of the caller, where a property needs    *)
(* it: that it sends its body.                                             *)
(***************************************************************************)
Gone(q) == tunnel = "lost" \/ downEnd[q] = "stopped"

CodeFairness ==
    \A q \in Requests :
        /\ WF_vars(ProxyStep(q)) /\ WF_vars(WriterStep(q)) /\ WF_vars(ClientStep(q))
        /\ WF_vars(Watcher(q)) /\ WF_vars(Notice(q))
        /\ WF_vars(Gone(q) /\ (RoundTripFails(q) \/ WriteEnds(q)))

Wanted(q) == caller[q] = "there" \/ writer[q] = "flush"

ServiceFairness ==
    \A q \in Requests :
        /\ WF_vars(Wanted(q) /\ (Answer(q) \/ RoundTripFails(q)))
        /\ WF_vars(Wanted(q) /\ WritePart(q)) /\ WF_vars(Wanted(q) /\ WriteEnds(q))

CallerFairness == \A q \in Requests : WF_vars(Upload(q))

CodeSpec == Spec /\ CodeFairness
ServedSpec == CodeSpec /\ ServiceFairness
FairSpec == ServedSpec /\ CallerFairness

-----------------------------------------------------------------------------
TypeOK ==
    /\ tunnel \in {"up", "lost"}
    /\ caller \in [Requests -> {"there", "gone"}]
    /\ closing \in [Requests -> BOOLEAN] /\ done \in [Requests -> BOOLEAN]
    /\ handler \in [Requests -> {"idle", "opening", "end"} \cup Busy]
    /\ outcome \in [Requests -> {"pending", "offline", "failed", "broken", "complete"}]
    /\ writer \in [Requests -> {"off", "read", "flush", "done"}]
    /\ upEnd \in [Requests -> {"open", "fin", "reset"}]
    /\ client \in [Requests -> {"off", "forward", "respond", "drain", "close", "end"}]
    /\ sawEnd \in [Requests -> BOOLEAN]
    /\ answer \in [Requests -> {"none", "going", "whole", "cut"}]
    /\ framing \in [Requests -> Framings]
    /\ downEnd \in [Requests -> {"open", "fin", "stopped"}]
    /\ \A q \in Requests :
        /\ body[q] \in 0 .. MaxBody /\ sent[q] \in 0 .. body[q] /\ taken[q] \in 0 .. sent[q]
        /\ put[q] \in 0 .. taken[q] + 1 /\ got[q] \in 0 .. put[q]
        /\ given[q] \in 0 .. MaxAnswer + 1 /\ copied[q] \in 0 .. given[q]
        /\ reached[q] \in 0 .. copied[q]

\* When the handler returns, the goroutine in outgoing.Write has returned: it
\* reads request.Body, which net/http forbids after that (finishRequestWrite).
BodyIsReleased ==
    \A q \in Requests : handler[q] = "end" => writer[q] \in {"off", "done"}

\* The promise of Exchange: what the caller sees of a request is its outcome, what
\* the tunnel holds of it begins with its writer.
Promise == INSTANCE Exchange WITH
    fate <- [q \in Requests |-> IF handler[q] = "idle" THEN "none" ELSE outcome[q]],
    uploaded <- sent, handed <- [q \in Requests |-> Opened(q)], delivered <- got,
    produced <- given, received <- reached

\* No request is refused and served, no caller gets what was not answered, and
\* no error page follows a part of an answer (Server.proxy writes its head once).
ImplementsExchange == Promise!Spec

\* What a writer holds back: a buffer, and one piece in any case.
Held == IF Buffer = 0 THEN 1 ELSE Buffer

\* README: "HTTP bodies and responses are streamed with backpressure": in either
\* direction a slow reader holds its writer up, and what is between them is a
\* window and a buffer at most, however long the body is and however early the
\* service answers.
StreamedWithBackpressure ==
    \A q \in Requests :
        /\ taken[q] <= got[q] + Window + Held
        /\ given[q] <= reached[q] + Window + Held

(***************************************************************************)
(* What each party of a request waits for, as in the guards of its steps.  *)
(***************************************************************************)
HandlerCanGoOn(q) ==
    \/ handler[q] \in {"await", "copy"} /\ (ServerReads(q) \/ Gone(q) \/ downEnd[q] = "fin")
    \/ handler[q] = "copy" /\ Whole(q)
    \/ handler[q] \in {"finish", "fail"}
    \/ handler[q] \in {"finishing", "failing"} /\ writer[q] = "done"

WriterCanGoOn(q) ==
    \/ writer[q] = "read" /\ (taken[q] < sent[q] \/ caller[q] = "gone")
    \/ writer[q] = "flush" /\ (tunnel = "lost" \/ upEnd[q] # "open" \/ put[q] - got[q] < Window)

WatcherCanGoOn(q) == done[q] /\ Opened(q) /\ downEnd[q] # "stopped"

\* There is a piece of the request, or its end, for the client to read.
ClientCanRead(q) == tunnel = "lost" \/ upEnd[q] # "open" \/ got[q] < put[q]

ClientCanGoOn(q) ==
    \/ client[q] = "off" /\ ClientCanRead(q)
    \/ client[q] = "drain" /\ (\/ got[q] = 1 + body[q] \/ closing[q] \/ sawEnd[q]
                               \/ ClientCanRead(q))
    \/ client[q] = "close"

\* The service has the head of the request and room for a piece of its answer.
ServiceCanGoOn(q) ==
    client[q] = "forward" \/ (client[q] = "respond" /\ (Gone(q) \/ given[q] - copied[q] < Window))

\* The writer waits for the caller, who is there and has more to send.
CallerCanGoOn(q) ==
    writer[q] = "read" /\ caller[q] = "there" /\ sent[q] < body[q]

\* As long as a request is forwarded, one of those it passes through can go on:
\* the handler, its writer and its watcher, the client, the service with room for
\* its answer, or the caller with more of its body. They never all wait for one
\* another ("early upload response deadlocked", integration/tunnel_test.go).
NobodyWaitsInACircle ==
    \A q \in Requests : handler[q] \in Busy =>
        \/ HandlerCanGoOn(q) \/ WriterCanGoOn(q) \/ WatcherCanGoOn(q)
        \/ ClientCanGoOn(q) \/ ServiceCanGoOn(q) \/ CallerCanGoOn(q)

\* Whatever the order in which the service answers, reads the body and breaks
\* off, a request whose caller goes on uploading is answered: neither a full
\* window nor an early answer leaves proxy, writer and client waiting for one
\* another ("early upload response deadlocked", integration/tunnel_test.go).
RequestEnds ==
    \A q \in Requests : (handler[q] = "opening") ~> (handler[q] = "end")

\* A caller that goes away takes its request along: the watcher stops the
\* stream and the client's request to the service is cancelled, even if the
\* service never answers. Only while the writer waits for the window does
\* nobody notice the caller, and the service has to do its part.
AbandonedRequestStops ==
    \A q \in Requests :
        (caller[q] = "gone" /\ handler[q] \in Busy) ~> (client[q] = "end")

\* docs/architecture/0001: "This allows a local service to reject or answer a
\* request before the public caller finishes uploading its body": what the
\* service has answered in full reaches the caller that waits for it.
EarlyAnswerArrives ==
    \A q \in Requests :
        (handler[q] = "copy" /\ answer[q] = "whole")
            ~> (outcome[q] # "pending" \/ caller[q] = "gone" \/ tunnel = "lost"
                \/ reached[q] = given[q])

\* README: "Independent QUIC streams prevent one slow request from blocking
\* other requests": a request is refused for want of a stream only while as
\* many requests as the client admits are being forwarded, or still in the
\* hands of the client.
RefusedOnlyWhileBusy ==
    [][\A q \in Requests : outcome[q] = "pending" /\ outcome'[q] = "offline" =>
        \/ tunnel = "lost" \/ done[q]
        \/ Cardinality({p \in Requests : Opened(p) /\ (handler[p] # "end" \/ client[p] # "end")})
              >= MaxStreams]_vars
=============================================================================
