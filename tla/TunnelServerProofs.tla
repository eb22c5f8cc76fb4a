------------------------- MODULE TunnelServerProofs -------------------------
(***************************************************************************)
(* What TLAPS proves of TunnelServer for any number of connections,        *)
(* tokens, names, revocations and requests.                                *)
(***************************************************************************)
EXTENDS TunnelServer, TLAPS

-----------------------------------------------------------------------------
(* Type correctness, one step per action.                                  *)

LEMMA InitType == Init => TypeOK
BY ConstantsAssumption
   DEF Init, TypeOK, Steps, Links, Names, Named

\* The handler of one connection keeps every variable in its type.
LEMMA HandlerType ==
    ASSUME TypeOK, NEW c \in Conns, Accept(c) \/ HandlerStep(c) \/ ConnectionLost(c)
    PROVE  TypeOK'
<1> USE ConstantsAssumption
        DEF TypeOK, Steps, Links, CloseCodes, Names, Named, connVars, storeVars,
            revokeVars, requestVars, Goto, Closed, Refuse
<1>1. CASE Accept(c) BY <1>1 DEF Accept
<1>2. CASE ControlStream(c) BY <1>2 DEF ControlStream
<1>3. CASE NoControlStream(c) BY <1>3 DEF NoControlStream
<1>4. CASE Hello(c)
    <2>1. PICK t \in Tokens, name \in Names :
              /\ token' = [token EXCEPT ![c] = t]
              /\ domain' = [domain EXCEPT ![c] = name]
        BY <1>4 DEF Hello
    <2>2. QED BY <1>4, <2>1 DEF Hello
<1>5. CASE BadHello(c)
    <2>1. PICK answer \in {told[c], "error"} : Refuse(c, answer)
        BY <1>5 DEF BadHello
    <2>2. QED BY <1>5, <2>1 DEF BadHello
<1>6. CASE Authenticate(c) BY <1>6 DEF Authenticate
<1>7. CASE AuthenticationFails(c) BY <1>7 DEF AuthenticationFails
<1>8. CASE Reserve(c)
    <2>1. PICK d \in Domains :
              /\ owner' = [owner EXCEPT ![d] = token[c]]
              /\ domain' = [domain EXCEPT ![c] = d]
        BY <1>8 DEF Reserve, Candidates
    <2>2. QED BY <1>8, <2>1 DEF Reserve
<1>9. CASE ReserveFails(c) BY <1>9 DEF ReserveFails
<1>10. CASE Register(c) BY <1>10 DEF Register
<1>11. CASE ClosePrevious(c) BY <1>11 DEF ClosePrevious
<1>12. CASE SendWelcome(c) BY <1>12 DEF SendWelcome
<1>13. CASE WelcomeFails(c) BY <1>13 DEF WelcomeFails
<1>14. CASE SessionEnds(c) BY <1>14 DEF SessionEnds
<1>15. CASE HeartbeatFails(c) BY <1>15 DEF HeartbeatFails
<1>16. CASE Unregister(c) BY <1>16 DEF Unregister
<1>17. CASE CloseSession(c) BY <1>17 DEF CloseSession
<1>18. CASE ConnectionLost(c) BY <1>18 DEF ConnectionLost
<1>19. QED
    BY <1>1, <1>2, <1>3, <1>4, <1>5, <1>6, <1>7, <1>8, <1>9, <1>10, <1>11,
       <1>12, <1>13, <1>14, <1>15, <1>16, <1>17, <1>18 DEF HandlerStep

\* So do a revocation, a request and the process.
LEMMA OtherType ==
    ASSUME TypeOK,
           \/ \E t \in Tokens : CreateToken(t)
           \/ \E r \in Revokers : RevokeStep(r)
           \/ \E q \in Requests : RequestStep(q)
           \/ Drain \/ Exit \/ Restart
    PROVE  TypeOK'
<1> USE ConstantsAssumption
        DEF TypeOK, Steps, Links, CloseCodes, Names, Named, connVars, storeVars,
            revokeVars, requestVars, RevokeGoto, RegisteredFor, Closed
<1>1. ASSUME NEW t \in Tokens, CreateToken(t) PROVE TypeOK'
    BY <1>1 DEF CreateToken
<1>2. ASSUME NEW r \in Revokers, RevokeStep(r) PROVE TypeOK'
    <2>1. ASSUME NEW t \in Tokens, RevokeLookup(r, t) PROVE TypeOK'
        BY <2>1 DEF RevokeLookup
    <2>2. CASE RevokeDelete(r) BY <2>2 DEF RevokeDelete, DeleteRow
    <2>3. CASE RevokeDeleteFails(r)
        <3>1. CASE DeleteRow(r) BY <2>3, <3>1 DEF RevokeDeleteFails, DeleteRow
        <3>2. CASE UNCHANGED <<managed, revoked, seen>>
            BY <2>3, <3>2 DEF RevokeDeleteFails
        <3>3. QED BY <2>3, <3>1, <3>2 DEF RevokeDeleteFails
    <2>4. CASE DisconnectSnapshot(r) BY <2>4 DEF DisconnectSnapshot
    <2>5. CASE DisconnectOne(r)
        <3>1. PICK c \in matches[r] :
                  /\ link' = Closed(c, "token revoked")
                  /\ matches' = [matches EXCEPT ![r] = @ \ {c}]
            BY <2>5 DEF DisconnectOne
        <3>2. c \in Conns BY <3>1
        <3>3. QED BY <2>5, <3>1, <3>2 DEF DisconnectOne
    <2>6. CASE RevokeReturns(r) BY <2>6 DEF RevokeReturns
    <2>7. QED BY <1>2, <2>1, <2>2, <2>3, <2>4, <2>5, <2>6 DEF RevokeStep
<1>3. ASSUME NEW q \in Requests, RequestStep(q) PROVE TypeOK'
    <2>1. ASSUME NEW d \in Domains, Lookup(q, d) PROVE TypeOK'
        BY <2>1 DEF Lookup
    <2>2. CASE OpenStream(q) BY <2>2 DEF OpenStream
    <2>3. CASE OpenStreamFails(q) BY <2>3 DEF OpenStreamFails
    <2>4. QED BY <1>3, <2>1, <2>2, <2>3 DEF RequestStep
<1>4. CASE Drain BY <1>4 DEF Drain
<1>5. CASE Exit BY <1>5 DEF Exit
<1>6. CASE Restart BY <1>6 DEF Restart
<1>7. QED BY <1>1, <1>2, <1>3, <1>4, <1>5, <1>6

\* Every variable keeps its type, and a handler past Reserve has a valid name.
THEOREM TypeCorrect == Spec => []TypeOK
<1>1. TypeOK /\ [Next]_vars => TypeOK'
    <2> SUFFICES ASSUME TypeOK, [Next]_vars PROVE TypeOK'
        OBVIOUS
    <2>1. CASE Next BY <2>1, HandlerType, OtherType DEF Next
    <2>2. CASE UNCHANGED vars
        BY <2>2 DEF TypeOK, vars, connVars, storeVars, revokeVars, requestVars
    <2>3. QED BY <2>1, <2>2
<1>2. QED BY InitType, <1>1, PTL DEF Spec

-----------------------------------------------------------------------------
(* The inductive invariant, one lemma per conjunct, one step per action    *)
(* that can disturb it.                                                    *)

\* A step of one connection: its handler's, its dialling or its end.
ConnectionStep(c) == Accept(c) \/ HandlerStep(c) \/ ConnectionLost(c)

\* The steps of the other actors, without the end of the process.
AdminStep == (\E t \in Tokens : CreateToken(t)) \/ (\E r \in Revokers : RevokeStep(r))

ProcessStep == (\E q \in Requests : RequestStep(q)) \/ Drain \/ Restart

LEMMA NextCases ==
    Next <=> \/ \E c \in Conns : ConnectionStep(c)
             \/ AdminStep \/ ProcessStep \/ Exit
BY DEF Next, ConnectionStep, AdminStep, ProcessStep

\* What the admin, the requests and the process leave alone.
LEMMA AdminFrame ==
    ASSUME AdminStep
    PROVE  UNCHANGED <<pc, token, domain, told, previous, sessions, owner, requestVars>>
BY DEF AdminStep, RevokeStep, CreateToken, RevokeLookup, RevokeDelete, RevokeDeleteFails,
       DisconnectSnapshot, DisconnectOne, RevokeReturns, connVars, storeVars

\* The admin closes connections and never opens one.
LEMMA DisconnectFrame ==
    ASSUME TypeOK, AdminStep
    PROVE  \A c \in Conns : link'[c] = "open" => link[c] = "open"
<1>1. CASE \E r \in Revokers : DisconnectOne(r)
    <2>1. PICK r \in Revokers : DisconnectOne(r) BY <1>1
    <2>2. PICK c \in matches[r] : link' = Closed(c, "token revoked")
        BY <2>1 DEF DisconnectOne
    <2>3. QED BY <2>2 DEF Closed, TypeOK
<1>2. CASE ~ \E r \in Revokers : DisconnectOne(r)
    <2>1. UNCHANGED link
        BY <1>2 DEF AdminStep, RevokeStep, CreateToken, RevokeLookup, RevokeDelete,
           RevokeDeleteFails, DisconnectSnapshot, RevokeReturns, connVars
    <2>2. QED BY <2>1
<1>3. QED BY <1>1, <1>2

LEMMA DisconnectedOne ==
    ASSUME TypeOK, NEW r \in Revokers, NEW c \in matches[r],
           link' = Closed(c, "token revoked"),
           matches' = [matches EXCEPT ![r] = @ \ {c}]
    PROVE  /\ \A x \in Conns : link'[x] = "open" => link[x] = "open" /\ x # c
           /\ \A s \in Revokers : \A x \in matches[s] : x \in matches'[s] \/ x = c
BY DEF TypeOK, Closed

LEMMA ProcessFrame ==
    ASSUME ProcessStep
    PROVE  UNCHANGED <<connVars, sessions, storeVars, revokeVars>>
BY DEF ProcessStep, RequestStep, Lookup, OpenStream, OpenStreamFails, Drain, Restart

\* What the handlers leave alone: the requests, the revocations.
LEMMA ConnectionFrame ==
    ASSUME NEW c \in Conns, ConnectionStep(c)
    PROVE  UNCHANGED <<revokeVars, requestVars>>
BY DEF ConnectionStep, HandlerStep, Accept, ConnectionLost,
        ControlStream, NoControlStream, Hello, BadHello, Authenticate, AuthenticationFails,
        Reserve, ReserveFails, Register, ClosePrevious, SendWelcome, WelcomeFails,
        SessionEnds, HeartbeatFails, Unregister, CloseSession

\* Which steps of a connection change whose a name is or who serves it.
LEMMA NamesFrame ==
    ASSUME NEW c \in Conns, ConnectionStep(c),
           ~Hello(c), ~Reserve(c), ~Register(c), ~Unregister(c)
    PROVE  UNCHANGED <<token, domain, sessions, owner>>
BY DEF ConnectionStep, HandlerStep, Accept, ConnectionLost, storeVars,
        ControlStream, NoControlStream, Hello, BadHello, Authenticate, AuthenticationFails,
        Reserve, ReserveFails, Register, ClosePrevious, SendWelcome, WelcomeFails,
        SessionEnds, HeartbeatFails, Unregister, CloseSession

\* A handler that has registered its session never comes back before that.
LEMMA PastFrame ==
    ASSUME TypeOK, NEW c \in Conns, ConnectionStep(c), NEW x \in Conns, pc[x] \in Past
    PROVE  pc'[x] \in Past
BY DEF TypeOK, Past, Online, Goto, Refuse,
        ConnectionStep, HandlerStep, Accept, ConnectionLost,
        ControlStream, NoControlStream, Hello, BadHello, Authenticate, AuthenticationFails,
        Reserve, ReserveFails, Register, ClosePrevious, SendWelcome, WelcomeFails,
        SessionEnds, HeartbeatFails, Unregister, CloseSession

\* A reservation is only ever made by the handler that will serve it.
LEMMA HandlersHoldNamesStep ==
    ASSUME IInv, Next
    PROVE  HandlersHoldNames'
<1> USE ConstantsAssumption
        DEF IInv, TypeOK, HandlersHoldNames, Known, Named, Past, Online
<1>1. ASSUME NEW c \in Conns, ConnectionStep(c)
      PROVE  HandlersHoldNames'
    <2> USE DEF connVars, storeVars, Goto, Refuse
    <2>1. CASE Hello(c) BY <2>1 DEF Hello
    <2>2. CASE Reserve(c) BY <2>2 DEF Reserve, Reservable, Candidates
    <2>3. CASE ~Hello(c) /\ ~Reserve(c)
        BY <1>1, <2>3
           DEF ConnectionStep, HandlerStep, Accept, ConnectionLost,
        ControlStream, NoControlStream, BadHello, Authenticate, AuthenticationFails,
        ReserveFails, Register, ClosePrevious, SendWelcome, WelcomeFails,
        SessionEnds, HeartbeatFails, Unregister, CloseSession
    <2>4. QED BY <2>1, <2>2, <2>3
<1>2. CASE AdminStep BY <1>2, AdminFrame
<1>3. CASE ProcessStep BY <1>3, ProcessFrame DEF connVars, storeVars
<1>4. CASE Exit BY <1>4 DEF Exit, storeVars
<1>5. QED BY <1>1, <1>2, <1>3, <1>4, NextCases

\* A registered session's handler is between register and unregister.
LEMMA RegisteredOnlineStep ==
    ASSUME IInv, Next
    PROVE  RegisteredOnline'
<1> USE ConstantsAssumption
        DEF IInv, TypeOK, RegisteredOnline, SessionsOwned, Named, Online
<1>1. ASSUME NEW c \in Conns, ConnectionStep(c)
      PROVE  RegisteredOnline'
    <2> USE DEF connVars, storeVars, Goto, Refuse
    <2>1. CASE Register(c) BY <2>1 DEF Register
    <2>2. CASE Unregister(c) BY <2>2 DEF Unregister
    <2>3. CASE ~Register(c) /\ ~Unregister(c)
        BY <1>1, <2>3
           DEF ConnectionStep, HandlerStep, Accept, ConnectionLost,
        ControlStream, NoControlStream, Hello, BadHello, Authenticate, AuthenticationFails,
        Reserve, ReserveFails, ClosePrevious, SendWelcome, WelcomeFails,
        SessionEnds, HeartbeatFails, CloseSession
    <2>4. QED BY <2>1, <2>2, <2>3
<1>2. CASE AdminStep BY <1>2, AdminFrame
<1>3. CASE ProcessStep BY <1>3, ProcessFrame DEF connVars, storeVars
<1>4. CASE Exit BY <1>4 DEF Exit
<1>5. QED BY <1>1, <1>2, <1>3, <1>4, NextCases

\* A name is served by a tunnel of its owner: Reserve gives an owned name to its
\* owner only, and Register comes after Reserve in the same handler.
LEMMA SessionsOwnedStep ==
    ASSUME IInv, Next
    PROVE  SessionsOwned'
<1> USE ConstantsAssumption
        DEF IInv, TypeOK, SessionsOwned, RegisteredOnline, HandlersHoldNames,
            Known, Named, Online
<1>1. ASSUME NEW c \in Conns, ConnectionStep(c)
      PROVE  SessionsOwned'
    <2> USE DEF connVars, storeVars, Goto
    <2>1. CASE Hello(c) BY <2>1 DEF Hello
    <2>2. CASE Reserve(c) BY <2>2 DEF Reserve, Reservable
    <2>3. CASE Register(c) BY <2>3 DEF Register
    <2>4. CASE Unregister(c) BY <2>4 DEF Unregister
    <2>5. CASE ~Hello(c) /\ ~Reserve(c) /\ ~Register(c) /\ ~Unregister(c)
        BY <1>1, <2>5, NamesFrame
    <2>6. QED BY <2>1, <2>2, <2>3, <2>4, <2>5
<1>2. CASE AdminStep BY <1>2, AdminFrame
<1>3. CASE ProcessStep BY <1>3, ProcessFrame DEF connVars, storeVars
<1>4. CASE Exit BY <1>4 DEF Exit
<1>5. QED BY <1>1, <1>2, <1>3, <1>4, NextCases

\* A reservation, once a client knows of it, does not move.
LEMMA WelcomeIsKeptStep ==
    ASSUME IInv, Next
    PROVE  WelcomeIsKept'
<1> USE ConstantsAssumption
        DEF IInv, TypeOK, WelcomeIsKept, HandlersHoldNames, Known, Named, Past, Online
<1>1. ASSUME NEW c \in Conns, ConnectionStep(c)
      PROVE  WelcomeIsKept'
    <2> USE DEF connVars, storeVars, Goto, Refuse
    <2>1. CASE Hello(c) BY <2>1 DEF Hello
    <2>2. CASE Reserve(c) BY <2>2 DEF Reserve, Reservable
    <2>3. CASE SendWelcome(c) BY <2>3 DEF SendWelcome
    <2>4. CASE ~Hello(c) /\ ~Reserve(c) /\ ~SendWelcome(c)
        BY <1>1, <2>4
           DEF ConnectionStep, HandlerStep, Accept, ConnectionLost,
        ControlStream, NoControlStream, BadHello, Authenticate, AuthenticationFails,
        ReserveFails, Register, ClosePrevious, WelcomeFails,
        SessionEnds, HeartbeatFails, Unregister, CloseSession
    <2>5. QED BY <2>1, <2>2, <2>3, <2>4
<1>2. CASE AdminStep BY <1>2, AdminFrame
<1>3. CASE ProcessStep BY <1>3, ProcessFrame DEF connVars, storeVars
<1>4. CASE Exit BY <1>4 DEF Exit, storeVars
<1>5. QED BY <1>1, <1>2, <1>3, <1>4, NextCases

\* An open tunnel is registered or about to be closed by its successor.
LEMMA NoOrphanedTunnelStep ==
    ASSUME IInv, Next
    PROVE  NoOrphanedTunnel'
<1> USE ConstantsAssumption
        DEF IInv, TypeOK, NoOrphanedTunnel, SessionsOwned, RegisteredOnline,
            Displacing, Named, Online
<1>1. ASSUME NEW c \in Conns, ConnectionStep(c)
      PROVE  NoOrphanedTunnel'
    <2> USE DEF connVars, storeVars, Goto, Refuse, Closed
    <2>1. CASE Hello(c) BY <2>1 DEF Hello
    <2>2. CASE Reserve(c) BY <2>2 DEF Reserve
    <2>3. CASE Register(c) BY <2>3 DEF Register
    <2>4. CASE ClosePrevious(c) BY <2>4 DEF ClosePrevious
    <2>5. CASE Unregister(c) BY <2>5 DEF Unregister
    <2>6. CASE ~Hello(c) /\ ~Reserve(c) /\ ~Register(c) /\ ~ClosePrevious(c) /\ ~Unregister(c)
        BY <1>1, <2>6
           DEF ConnectionStep, HandlerStep, Accept, ConnectionLost,
        ControlStream, NoControlStream, BadHello, Authenticate, AuthenticationFails,
        ReserveFails, SendWelcome, WelcomeFails,
        SessionEnds, HeartbeatFails, CloseSession
    <2>7. QED BY <2>1, <2>2, <2>3, <2>4, <2>5, <2>6
<1>2. CASE AdminStep
    <2>1. \A c \in Conns : link'[c] = "open" => link[c] = "open"
        BY <1>2, DisconnectFrame
    <2>2. QED BY <1>2, <2>1, AdminFrame
<1>3. CASE ProcessStep BY <1>3, ProcessFrame DEF connVars, storeVars
<1>4. CASE Exit BY <1>4 DEF Exit
<1>5. QED BY <1>1, <1>2, <1>3, <1>4, NextCases

\* What a lookup in the registry may rely on.
LEMMA RegisteredSession ==
    ASSUME IInv, NEW d \in Domains, sessions[d] # NoConn
    PROVE  /\ sessions[d] \in Conns
           /\ pc[sessions[d]] \in Past
           /\ token[sessions[d]] \in Tokens
           /\ token[sessions[d]] = owner[d]
<1>1. sessions[d] \in Conns BY DEF IInv, TypeOK
<1>2. QED
    BY <1>1 DEF IInv, RegisteredOnline, SessionsOwned, HandlersHoldNames,
                Known, Named, Past, Online

LEMMA FoundFrame ==
    ASSUME IInv, NEW c \in Conns, ConnectionStep(c)
    PROVE  \A q \in Requests : found[q] # NoConn => pc'[found[q]] \in Past
BY PastFrame DEF IInv, TypeOK, RequestsHoldSessions

\* A connection handed to a request keeps its token.
LEMMA RequestsHoldSessionsStep ==
    ASSUME IInv, Next
    PROVE  RequestsHoldSessions' /\ RoutedToOwner'
<1> USE ConstantsAssumption
        DEF IInv, TypeOK, RequestsHoldSessions, RoutedToOwner, RegisteredOnline,
            SessionsOwned, HandlersHoldNames, Known, Named, Past, Online
<1>1. ASSUME NEW c \in Conns, ConnectionStep(c)
      PROVE  RequestsHoldSessions' /\ RoutedToOwner'
    <2> USE ConnectionFrame DEF connVars, storeVars, requestVars, Goto, Refuse
    <2>0. UNCHANGED <<asking, host, found>> BY <1>1
    <2>1. CASE Hello(c) BY <2>0, <2>1 DEF Hello
    <2>2. CASE Reserve(c) BY <2>0, <2>2 DEF Reserve, Reservable
    <2>3. CASE ~Hello(c) /\ ~Reserve(c)
      <3>1. UNCHANGED <<token, owner>>
        BY <1>1, <2>3
           DEF ConnectionStep, HandlerStep, Accept, ConnectionLost,
        ControlStream, NoControlStream, BadHello, Authenticate, AuthenticationFails,
        ReserveFails, Register, ClosePrevious, SendWelcome, WelcomeFails,
        SessionEnds, HeartbeatFails, Unregister, CloseSession
      <3>2. \A q \in Requests : found[q] # NoConn => pc'[found[q]] \in Past
          BY <1>1, FoundFrame
      <3>3. QED BY <2>0, <3>1, <3>2
    <2>4. QED BY <2>1, <2>2, <2>3
<1>2. CASE AdminStep BY <1>2, AdminFrame DEF requestVars
<1>3. CASE ProcessStep
    <2> USE DEF connVars, storeVars
    <2>1. ASSUME NEW q \in Requests, RequestStep(q)
          PROVE  RequestsHoldSessions' /\ RoutedToOwner'
        <3>1. ASSUME NEW d \in Domains, Lookup(q, d)
              PROVE  RequestsHoldSessions' /\ RoutedToOwner'
            <4>1. CASE sessions[d] = NoConn BY <3>1, <4>1 DEF Lookup
            <4>2. CASE sessions[d] # NoConn
                <5>1. /\ sessions[d] \in Conns
                      /\ pc[sessions[d]] \in Past
                      /\ token[sessions[d]] \in Tokens
                      /\ token[sessions[d]] = owner[d]
                    BY <4>2, RegisteredSession
                <5>2. QED BY <3>1, <5>1 DEF Lookup
            <4>3. QED BY <4>1, <4>2
        <3>2. CASE OpenStream(q) BY <3>2 DEF OpenStream
        <3>3. CASE OpenStreamFails(q) BY <3>3 DEF OpenStreamFails
        <3>4. QED BY <2>1, <3>1, <3>2, <3>3 DEF RequestStep
    <2>2. CASE Drain BY <2>2 DEF Drain, requestVars
    <2>3. CASE Restart BY <2>3 DEF Restart, requestVars
    <2>4. QED BY <1>3, <2>1, <2>2, <2>3 DEF ProcessStep
<1>4. CASE Exit BY <1>4 DEF Exit, storeVars
<1>5. QED BY <1>1, <1>2, <1>3, <1>4, NextCases

\* Closing c, and only then leaving it out of matches, keeps the promise.
LEMMA ReachesOnceClosed ==
    ASSUME TypeOK, RevocationReaches, NEW c,
           UNCHANGED <<pc, token, previous, sessions, revoking, target, seen>>,
           \A x \in Conns : link'[x] = "open" => link[x] = "open" /\ x # c,
           \A s \in Revokers : \A x \in matches[s] : x \in matches'[s] \/ x = c
    PROVE  RevocationReaches'
<1>1. \A t : RegisteredFor(t)' = RegisteredFor(t) BY DEF RegisteredFor
<1>2. \A x : Ending(x)' = Ending(x) BY DEF Ending, Displacing
<1>3. \A s \in Revokers : seen[s] \subseteq Conns BY DEF TypeOK
<1>4. QED BY <1>1, <1>2, <1>3 DEF RevocationReaches

\* Of the sessions registered at the deletion, each is closed, ending, or still
\* to be found by the snapshot or closed by the loop after it.
LEMMA RevocationReachesStep ==
    ASSUME IInv, Next
    PROVE  RevocationReaches'
<1> USE ConstantsAssumption
        DEF IInv, TypeOK, RevocationReaches, RegisteredFor, RegisteredOnline,
            SessionsOwned, Ending, Displacing, Named, Past, Online
<1>1. ASSUME NEW c \in Conns, ConnectionStep(c)
      PROVE  RevocationReaches'
    <2> USE ConnectionFrame DEF connVars, storeVars, revokeVars, Goto, Refuse, Closed
    <2>1. CASE Hello(c) BY <1>1, <2>1 DEF Hello
    <2>2. CASE Reserve(c) BY <1>1, <2>2 DEF Reserve
    <2>3. CASE Register(c) BY <1>1, <2>3 DEF Register
    <2>4. CASE ClosePrevious(c) BY <1>1, <2>4 DEF ClosePrevious
    <2>5. CASE Unregister(c) BY <1>1, <2>5 DEF Unregister
    <2>6. CASE CloseSession(c) BY <1>1, <2>6 DEF CloseSession
    <2>7. CASE /\ ~Hello(c) /\ ~Reserve(c) /\ ~Register(c) /\ ~ClosePrevious(c)
               /\ ~Unregister(c) /\ ~CloseSession(c)
        <3>1. UNCHANGED <<token, previous, sessions, revoking, target, matches, seen>>
            BY <1>1, <2>7
               DEF ConnectionStep, HandlerStep, Accept, ConnectionLost, ControlStream,
                   NoControlStream, BadHello, Authenticate, AuthenticationFails, ReserveFails,
                   SendWelcome, WelcomeFails, SessionEnds, HeartbeatFails
        <3>2. /\ \A x \in Conns : pc[x] \in {"close", "replace"} => pc'[x] = pc[x]
              /\ \A x \in Conns : link'[x] = "open" => link[x] = "open" \/ pc[x] = "new"
            BY <1>1, <2>7
               DEF ConnectionStep, HandlerStep, Accept, ConnectionLost, ControlStream,
                   NoControlStream, BadHello, Authenticate, AuthenticationFails, ReserveFails,
                   SendWelcome, WelcomeFails, SessionEnds, HeartbeatFails
        <3>3. QED BY <1>1, <3>1, <3>2, PastFrame
    <2>8. QED BY <2>1, <2>2, <2>3, <2>4, <2>5, <2>6, <2>7
<1>2. ASSUME NEW r \in Revokers, RevokeStep(r)
      PROVE  RevocationReaches'
    <2> USE DEF connVars, storeVars, RevokeGoto, Closed
    <2>1. ASSUME NEW t \in Tokens, RevokeLookup(r, t)
          PROVE  RevocationReaches'
        BY <2>1 DEF RevokeLookup
    <2>2. CASE RevokeDelete(r) BY <2>2 DEF RevokeDelete, DeleteRow
    <2>3. CASE RevokeDeleteFails(r)
        <3>1. CASE DeleteRow(r) BY <2>3, <3>1 DEF RevokeDeleteFails, DeleteRow
        <3>2. CASE UNCHANGED <<managed, revoked, seen>>
            BY <2>3, <3>2 DEF RevokeDeleteFails
        <3>3. QED BY <2>3, <3>1, <3>2 DEF RevokeDeleteFails
    <2>4. CASE DisconnectSnapshot(r) BY <2>4 DEF DisconnectSnapshot
    <2>5. CASE DisconnectOne(r)
        <3>1. PICK c \in matches[r] :
                  /\ link' = Closed(c, "token revoked")
                  /\ matches' = [matches EXCEPT ![r] = @ \ {c}]
            BY <2>5 DEF DisconnectOne
        <3>2. UNCHANGED <<pc, token, previous, sessions, revoking, target, seen>>
            BY <2>5 DEF DisconnectOne
        <3>3. /\ \A x \in Conns : link'[x] = "open" => link[x] = "open" /\ x # c
              /\ \A s \in Revokers : \A x \in matches[s] : x \in matches'[s] \/ x = c
            BY <3>1, DisconnectedOne
        <3>4. QED BY <3>2, <3>3, ReachesOnceClosed
    <2>6. CASE RevokeReturns(r) BY <2>6 DEF RevokeReturns
    <2>7. QED BY <1>2, <2>1, <2>2, <2>3, <2>4, <2>5, <2>6 DEF RevokeStep
<1>3. ASSUME NEW t \in Tokens, CreateToken(t)
      PROVE  RevocationReaches'
    BY <1>3 DEF CreateToken, connVars, revokeVars
<1>4. CASE ProcessStep
    <2>1. UNCHANGED <<pc, link, token, previous, sessions, revoking, target, matches, seen>>
        BY <1>4, ProcessFrame DEF connVars, revokeVars
    <2>2. QED BY <2>1
<1>5. CASE Exit BY <1>5 DEF Exit
<1>6. QED BY <1>1, <1>2, <1>3, <1>4, <1>5, NextCases DEF AdminStep

-----------------------------------------------------------------------------
LEMMA InitInv == Init => IInv
BY InitType, ConstantsAssumption
   DEF Init, IInv, HandlersHoldNames, RegisteredOnline, SessionsOwned, WelcomeIsKept,
       NoOrphanedTunnel, RequestsHoldSessions, RoutedToOwner, RevocationReaches,
       Known, Named, Online

LEMMA StutterInv ==
    ASSUME IInv, UNCHANGED vars
    PROVE  IInv'
BY DEF vars, connVars, storeVars, revokeVars, requestVars,
       IInv, TypeOK, HandlersHoldNames, RegisteredOnline, SessionsOwned, WelcomeIsKept,
       NoOrphanedTunnel, RequestsHoldSessions, RoutedToOwner, RevocationReaches,
       RegisteredFor, Ending, Displacing

LEMMA InvStep ==
    ASSUME IInv, [Next]_vars
    PROVE  IInv'
<1>1. CASE Next
    <2>1. TypeOK' BY <1>1, HandlerType, OtherType DEF Next, IInv
    <2>2. QED
        BY <1>1, <2>1, HandlersHoldNamesStep, RegisteredOnlineStep, SessionsOwnedStep,
           WelcomeIsKeptStep, NoOrphanedTunnelStep, RequestsHoldSessionsStep,
           RevocationReachesStep DEF IInv
<1>2. CASE UNCHANGED vars BY <1>2, StutterInv
<1>3. QED BY <1>1, <1>2

\* The inductive invariant holds in every reachable state.
THEOREM Invariance == Spec => []IInv
BY InitInv, InvStep, PTL DEF Spec

\* A name is only ever served by a tunnel of the token that holds its
\* reservation, however handlers, replacements and restarts interleave.
THEOREM OwnershipOfSessions == Spec => []SessionsOwned
<1>1. IInv => SessionsOwned BY DEF IInv
<1>2. QED BY Invariance, <1>1, PTL

\* The name a client was told stays reserved for its token.
THEOREM WelcomesAreKept == Spec => []WelcomeIsKept
<1>1. IInv => WelcomeIsKept BY DEF IInv
<1>2. QED BY Invariance, <1>1, PTL

\* No client stays attached to an unregistered tunnel that nobody will close.
THEOREM NoTunnelOrphaned == Spec => []NoOrphanedTunnel
<1>1. IInv => NoOrphanedTunnel BY DEF IInv
<1>2. QED BY Invariance, <1>1, PTL

\* A request is only ever handed to a tunnel of the owner of its name.
THEOREM RequestsReachOwner == Spec => []RoutedToOwner
<1>1. IInv => RoutedToOwner BY DEF IInv
<1>2. QED BY Invariance, <1>1, PTL

\* A successful revocation has closed what was registered at the deletion.
THEOREM RevocationsClose == Spec => []RevocationCloses
<1>1. IInv => RevocationCloses
    BY DEF IInv, RevocationReaches, RevocationCloses, Ending
<1>2. QED BY Invariance, <1>1, PTL

\* Only its own handler, or the end of the process, takes a name offline.
THEOREM OnlyItsHandlerVacates == Spec => VacatedByItsHandler
<1> DEFINE Vacating == \A d \in Domains :
               sessions[d] # NoConn /\ sessions'[d] = NoConn /\ mode' # "down"
                   => pc[sessions[d]] = "unregister"
<1>1. IInv /\ [Next]_vars => [Vacating]_vars
    <2> SUFFICES ASSUME IInv, Next PROVE Vacating
        BY DEF vars
    <2> USE ConstantsAssumption DEF IInv, TypeOK, storeVars
    <2>1. ASSUME NEW c \in Conns, ConnectionStep(c) PROVE Vacating
        <3>1. CASE Hello(c) BY <3>1 DEF Hello
        <3>2. CASE Reserve(c) BY <3>2 DEF Reserve
        <3>3. CASE Register(c) BY <3>3 DEF Register
        <3>4. CASE Unregister(c) BY <3>4 DEF Unregister
        <3>5. CASE ~Hello(c) /\ ~Reserve(c) /\ ~Register(c) /\ ~Unregister(c)
            BY <2>1, <3>5, NamesFrame
        <3>6. QED BY <3>1, <3>2, <3>3, <3>4, <3>5
    <2>2. CASE AdminStep BY <2>2, AdminFrame
    <2>3. CASE ProcessStep BY <2>3, ProcessFrame
    <2>4. CASE Exit BY <2>4 DEF Exit
    <2>5. QED BY <2>1, <2>2, <2>3, <2>4, NextCases
<1>2. QED BY Invariance, <1>1, PTL DEF Spec, VacatedByItsHandler

\* A token whose row was deleted is not managed, and is not created again.
RevokedIsNotManaged == managed \cap revoked = {}

LEMMA RevokedIsNotManagedStep ==
    ASSUME RevokedIsNotManaged, [Next]_vars
    PROVE  RevokedIsNotManaged'
<1> USE DEF RevokedIsNotManaged
<1>1. ASSUME NEW c \in Conns, ConnectionStep(c) PROVE UNCHANGED <<managed, revoked>>
    BY <1>1
       DEF storeVars, ConnectionStep, HandlerStep, Accept, ConnectionLost, ControlStream,
           NoControlStream, Hello, BadHello, Authenticate, AuthenticationFails, Reserve,
           ReserveFails, Register, ClosePrevious, SendWelcome, WelcomeFails, SessionEnds,
           HeartbeatFails, Unregister, CloseSession
<1>2. CASE AdminStep
    BY <1>2
       DEF storeVars, AdminStep, CreateToken, RevokeStep, RevokeLookup, RevokeDelete,
           RevokeDeleteFails, DeleteRow, DisconnectSnapshot, DisconnectOne, RevokeReturns
<1>3. CASE ProcessStep BY <1>3, ProcessFrame DEF storeVars
<1>4. CASE Exit BY <1>4 DEF Exit, storeVars
<1>5. CASE UNCHANGED vars BY <1>5 DEF vars, storeVars
<1>6. QED BY <1>1, <1>2, <1>3, <1>4, <1>5, NextCases

\* A handler gets past the authentication by Authenticate alone, and its token is
\* the one it was sent before.
LEMMA PastAuthentication ==
    ASSUME TypeOK, NEW x \in Conns, ConnectionStep(x), NEW c \in Conns,
           pc'[c] \in {"reserve"} \cup Named
    PROVE  /\ token'[c] = token[c]
           /\ \/ pc[c] \in {"reserve"} \cup Named
              \/ Authentic(token[c])
<1> USE DEF TypeOK, Goto, Refuse, Named
<1>1. CASE Authenticate(x) BY <1>1 DEF Authenticate
<1>2. CASE \/ Accept(x) \/ ControlStream(x) \/ NoControlStream(x) \/ Hello(x) \/ BadHello(x)
           \/ AuthenticationFails(x) \/ ConnectionLost(x)
    BY <1>2 DEF Accept, ControlStream, NoControlStream, Hello, BadHello,
                AuthenticationFails, ConnectionLost
<1>3. CASE \/ Reserve(x) \/ ReserveFails(x) \/ Register(x) \/ ClosePrevious(x)
           \/ SendWelcome(x) \/ WelcomeFails(x) \/ SessionEnds(x) \/ HeartbeatFails(x)
           \/ Unregister(x) \/ CloseSession(x)
    BY <1>3 DEF Reserve, ReserveFails, Register, ClosePrevious, SendWelcome,
                WelcomeFails, SessionEnds, HeartbeatFails, Unregister, CloseSession
<1>4. QED BY <1>1, <1>2, <1>3 DEF ConnectionStep, HandlerStep

\* Whatever handlers, revocations and restarts overlap, a revoked token lets nobody
\* in any more: what may stay online is what had authenticated before.
THEOREM RevokedStaysOut == Spec => RevokedLetsNobodyIn
<1> DEFINE NobodyIn ==
        \A c \in Conns :
            token'[c] \in revoked \ Bootstrap /\ pc'[c] \in {"reserve"} \cup Named
                => token[c] = token'[c] /\ pc[c] \in {"reserve"} \cup Named
<1>1. Init => RevokedIsNotManaged BY DEF Init, RevokedIsNotManaged
<1>2. RevokedIsNotManaged /\ [Next]_vars => RevokedIsNotManaged'
    BY RevokedIsNotManagedStep
<1>3. TypeOK /\ RevokedIsNotManaged /\ [Next]_vars => [NobodyIn]_vars
    <2> SUFFICES ASSUME TypeOK, RevokedIsNotManaged, Next, NEW c \in Conns,
                        token'[c] \in revoked \ Bootstrap,
                        pc'[c] \in {"reserve"} \cup Named
                 PROVE  token[c] = token'[c] /\ pc[c] \in {"reserve"} \cup Named
        OBVIOUS
    <2>1. ASSUME NEW x \in Conns, ConnectionStep(x)
          PROVE  token[c] = token'[c] /\ pc[c] \in {"reserve"} \cup Named
        BY <2>1, PastAuthentication DEF Authentic, RevokedIsNotManaged
    <2>2. CASE AdminStep BY <2>2, AdminFrame
    <2>3. CASE ProcessStep BY <2>3, ProcessFrame DEF connVars
    <2>4. CASE Exit BY <2>4 DEF Exit, TypeOK, Named
    <2>5. QED BY <2>1, <2>2, <2>3, <2>4, NextCases
<1>4. QED BY <1>1, <1>2, <1>3, TypeCorrect, PTL DEF Spec, RevokedLetsNobodyIn

-----------------------------------------------------------------------------
(* The server implements RelayService.                                     *)

LEMMA ServiceInit == Init => Service!Init
BY ConstantsAssumption
   DEF Init, Service!Init, serving, fate, server, HolderOf, FateOf

\* A connection that was ever registered keeps its token.
LEMMA TokenFrame ==
    ASSUME TypeOK, NEW c \in Conns, ConnectionStep(c), NEW x \in Conns, pc[x] \in Past
    PROVE  token'[x] = token[x]
<1> USE DEF Past, Online
<1>1. CASE Hello(c) BY <1>1 DEF Hello, TypeOK
<1>2. CASE Reserve(c) BY <1>2 DEF Reserve
<1>3. CASE Register(c) BY <1>3 DEF Register
<1>4. CASE Unregister(c) BY <1>4 DEF Unregister
<1>5. QED BY <1>1, <1>2, <1>3, <1>4, NamesFrame

\* The handlers do not touch the requests of the service, ...
LEMMA RequestsUntouched ==
    ASSUME IInv, NEW c \in Conns, ConnectionStep(c)
    PROVE  UNCHANGED Service!requests
<1>1. UNCHANGED <<asking, host, found>> BY ConnectionFrame DEF requestVars
<1>2. \A q \in Requests : found[q] # NoConn => token'[found[q]] = token[found[q]]
    BY TokenFrame DEF IInv, TypeOK, RequestsHoldSessions
<1>3. \A q \in Requests : HolderOf(found[q])' = HolderOf(found[q])
    BY <1>1, <1>2 DEF HolderOf
<1>4. UNCHANGED <<fate, server>> BY <1>1, <1>3 DEF fate, server
<1>5. QED BY <1>1, <1>4 DEF Service!requests

\* ... and only register and unregister change who serves a name.
LEMMA ServingUntouched ==
    ASSUME IInv, NEW c \in Conns, ConnectionStep(c), NEW d \in Domains,
           sessions'[d] = sessions[d]
    PROVE  serving'[d] = serving[d]
<1>1. sessions[d] # NoConn => token'[sessions[d]] = token[sessions[d]]
    BY RegisteredSession, TokenFrame DEF IInv
<1>2. QED BY <1>1 DEF serving, HolderOf

\* Who serves d, in the terms of the invariant.
LEMMA ServingOwner ==
    ASSUME IInv, NEW d \in Domains
    PROVE  /\ serving[d] = IF sessions[d] = NoConn THEN NoToken ELSE owner[d]
           /\ sessions[d] # NoConn => owner[d] \in Tokens
BY RegisteredSession DEF serving, HolderOf

\* Reserve is Claim or nothing new; Register is ComeOnline or a takeover that
\* does not show; Unregister is GoOffline, unless a successor is registered.
LEMMA ServiceConnectionStep ==
    ASSUME IInv, IInv', NEW c \in Conns, ConnectionStep(c)
    PROVE  [Service!Next]_Service!vars
<1> USE ConstantsAssumption
<1>0. UNCHANGED Service!requests BY RequestsUntouched
<1>1. serving = [d \in Domains |-> serving[d]] /\ serving' = [d \in Domains |-> serving'[d]]
    BY DEF serving
<1>2. CASE Reserve(c)
    <2>1. PICK d \in Domains :
              /\ Reservable(d, token[c])
              /\ owner' = [owner EXCEPT ![d] = token[c]]
        BY <1>2 DEF Reserve, Candidates
    <2>2. sessions' = sessions BY <1>2 DEF Reserve
    <2>3. serving' = serving BY <1>1, <2>2, ServingUntouched
    <2>4. token[c] \in Tokens
        BY <1>2 DEF IInv, HandlersHoldNames, Known, Reserve
    <2>5. CASE owner[d] = NoToken
        <3>1. Service!Claim(d, token[c])
            BY <1>0, <2>1, <2>3, <2>5 DEF Service!Claim
        <3>2. QED BY <2>4, <3>1 DEF Service!Next
    <2>6. CASE owner[d] = token[c]
        <3>1. owner' = owner BY <2>1, <2>6 DEF IInv, TypeOK
        <3>2. QED BY <1>0, <2>3, <3>1 DEF Service!vars
    <2>7. QED BY <2>1, <2>5, <2>6 DEF Reservable
<1>3. CASE Register(c)
    <2> DEFINE d == domain[c]
    <2>1. /\ d \in Domains
          /\ owner[d] \in Tokens
          /\ owner' = owner
          /\ sessions' = [sessions EXCEPT ![d] = c]
        BY <1>3 DEF Register, IInv, TypeOK, HandlersHoldNames, Known, Named, storeVars
    <2>2. \A e \in Domains : e # d => serving'[e] = serving[e]
        BY <2>1, ServingUntouched DEF IInv, TypeOK
    <2>3. serving'[d] = owner[d]
        <3>1. sessions'[d] = c BY <2>1 DEF IInv, TypeOK
        <3>2. token'[c] = token[c] BY <1>3 DEF Register
        <3>3. owner[d] = token[c] BY <1>3 DEF Register, IInv, HandlersHoldNames, Named
        <3>4. QED BY <2>1, <3>1, <3>2, <3>3 DEF serving, HolderOf
    <2>4. serving' = [serving EXCEPT ![d] = owner[d]]
        BY <1>1, <2>1, <2>2, <2>3
    <2>5. CASE serving[d] = NoToken
        <3>1. Service!ComeOnline(d)
            BY <1>0, <2>1, <2>4, <2>5 DEF Service!ComeOnline
        <3>2. QED BY <2>1, <3>1 DEF Service!Next
    <2>6. CASE serving[d] # NoToken
        <3>1. serving[d] = owner[d] BY <2>1, <2>6, ServingOwner
        <3>2. serving' = serving BY <1>1, <2>4, <3>1
        <3>3. QED BY <1>0, <2>1, <3>2 DEF Service!vars
    <2>7. QED BY <2>5, <2>6
<1>4. CASE Unregister(c)
    <2> DEFINE d == domain[c]
    <2>1. owner' = owner BY <1>4 DEF Unregister, storeVars
    <2>2. CASE sessions[d] = c /\ d \in Domains
        <3>1. sessions' = [sessions EXCEPT ![d] = NoConn]
            BY <1>4, <2>2 DEF Unregister
        <3>2. \A e \in Domains : e # d => serving'[e] = serving[e]
            BY <3>1, ServingUntouched DEF IInv, TypeOK
        <3>3. serving'[d] = NoToken
            BY <2>2, <3>1 DEF serving, HolderOf, IInv, TypeOK
        <3>4. serving' = [serving EXCEPT ![d] = NoToken]
            BY <1>1, <3>2, <3>3
        <3>5. serving[d] # NoToken BY <2>2, ServingOwner
        <3>6. Service!GoOffline(d)
            BY <1>0, <2>1, <3>4, <3>5 DEF Service!GoOffline
        <3>7. QED BY <2>2, <3>6 DEF Service!Next
    <2>3. CASE sessions[d] # c
        <3>1. sessions' = sessions BY <1>4, <2>3 DEF Unregister
        <3>2. serving' = serving BY <1>1, <3>1, ServingUntouched
        <3>3. QED BY <1>0, <2>1, <3>2 DEF Service!vars
    <2>4. d \in Domains BY <1>4 DEF Unregister, IInv, TypeOK, Named
    <2>5. QED BY <2>2, <2>3, <2>4
<1>5. CASE ~Reserve(c) /\ ~Register(c) /\ ~Unregister(c)
    <2>1. sessions' = sessions /\ owner' = owner
        <3>1. CASE Hello(c) BY <3>1 DEF Hello, storeVars
        <3>2. QED BY <1>5, <3>1, NamesFrame
    <2>2. serving' = serving BY <1>1, <2>1, ServingUntouched
    <2>3. QED BY <1>0, <2>1, <2>2 DEF Service!vars
<1>6. QED BY <1>2, <1>3, <1>4, <1>5

\* A lookup is Assign, opening the stream or failing to is Answer.
LEMMA ServiceRequestStep ==
    ASSUME IInv, NEW q \in Requests, RequestStep(q)
    PROVE  Service!Next
<1> USE DEF IInv, TypeOK, connVars, storeVars
<1>1. UNCHANGED <<owner, sessions, token>>
    BY DEF RequestStep, Lookup, OpenStream, OpenStreamFails
<1>2. UNCHANGED serving BY <1>1 DEF serving, HolderOf
<1>3. ASSUME NEW d \in Domains, Lookup(q, d)
      PROVE  Service!Next
    <2>1. fate' = [fate EXCEPT ![q] = IF serving[d] = NoToken THEN "refused" ELSE "assigned"]
        <3>1. sessions[d] = NoConn <=> serving[d] = NoToken
            BY RegisteredSession, ConstantsAssumption DEF serving, HolderOf
        <3>2. QED BY <1>3, <3>1 DEF Lookup, fate, FateOf
    <2>2. fate[q] = "waiting" BY <1>3 DEF Lookup, fate, FateOf
    <2>3. server' = [server EXCEPT ![q] = serving[d]]
        BY <1>1, <1>3 DEF Lookup, server, serving, HolderOf
    <2>4. Service!Assign(q, d)
        BY <1>1, <1>2, <1>3, <2>1, <2>2, <2>3 DEF Service!Assign, Lookup
    <2>5. QED BY <2>4 DEF Service!Next
<1>4. ASSUME OpenStream(q) \/ OpenStreamFails(q)
      PROVE  Service!Next
    <2>1. UNCHANGED <<host, found>> BY <1>4 DEF OpenStream, OpenStreamFails
    <2>2. UNCHANGED server BY <1>1, <2>1 DEF server, HolderOf
    <2>3. fate[q] = "assigned" BY <1>4 DEF OpenStream, OpenStreamFails, fate, FateOf
    <2>4. \E f \in {"forwarded", "refused"} : fate' = [fate EXCEPT ![q] = f]
        <3>1. CASE OpenStream(q)
            <4>1. fate' = [fate EXCEPT ![q] = "forwarded"]
                BY <3>1 DEF OpenStream, fate, FateOf
            <4>2. QED BY <4>1
        <3>2. CASE OpenStreamFails(q)
            <4>1. fate' = [fate EXCEPT ![q] = "refused"]
                BY <3>2 DEF OpenStreamFails, fate, FateOf
            <4>2. QED BY <4>1
        <3>3. QED BY <1>4, <3>1, <3>2
    <2>5. Service!Answer(q)
        BY <1>1, <1>2, <2>1, <2>2, <2>3, <2>4 DEF Service!Answer
    <2>6. QED BY <2>5 DEF Service!Next
<1>5. QED BY <1>3, <1>4 DEF RequestStep

\* The end of the process is Stop.
LEMMA ServiceExit ==
    ASSUME IInv, Exit
    PROVE  Service!Stop
<1>1. UNCHANGED <<owner, token, host, found>> BY DEF Exit, storeVars
<1>2. UNCHANGED server BY <1>1 DEF server, HolderOf
<1>3. serving' = [d \in Domains |-> NoToken]
    BY DEF Exit, serving, HolderOf
<1>4. fate' = [q \in Requests |-> IF fate[q] = "assigned" THEN "refused" ELSE fate[q]]
    BY DEF Exit, fate, FateOf, IInv, TypeOK
<1>5. QED BY <1>1, <1>2, <1>3, <1>4 DEF Service!Stop

\* What leaves the mapped variables alone is a stutter of the service.
LEMMA ServiceStutter ==
    ASSUME UNCHANGED <<token, sessions, owner, requestVars>>
    PROVE  UNCHANGED Service!vars
<1>1. UNCHANGED <<asking, host, found>> BY DEF requestVars
<1>2. UNCHANGED <<serving, fate, server>>
    BY <1>1 DEF serving, fate, server, HolderOf
<1>3. QED BY <1>1, <1>2 DEF Service!vars, Service!requests

\* The relay, with its handlers, locks and two stores, implements the service:
\* a name belongs for ever to the token that first reserved it, only its owner
\* serves it, and requests are handed to the owner or refused.
THEOREM Refinement == Spec => ImplementsService
<1>1. IInv /\ IInv' /\ [Next]_vars => [Service!Next]_Service!vars
    <2> SUFFICES ASSUME IInv, IInv', [Next]_vars
                 PROVE  [Service!Next]_Service!vars
        OBVIOUS
    <2>1. ASSUME NEW c \in Conns, ConnectionStep(c)
          PROVE  [Service!Next]_Service!vars
        BY <2>1, ServiceConnectionStep
    <2>2. CASE AdminStep BY <2>2, AdminFrame, ServiceStutter
    <2>3. CASE ProcessStep
        <3>1. ASSUME NEW q \in Requests, RequestStep(q)
              PROVE  Service!Next
            BY <3>1, ServiceRequestStep
        <3>2. CASE Drain \/ Restart
            BY <3>2, ServiceStutter DEF Drain, Restart, connVars, storeVars
        <3>3. QED BY <2>3, <3>1, <3>2 DEF ProcessStep
    <2>4. CASE Exit BY <2>4, ServiceExit DEF Service!Next
    <2>5. CASE UNCHANGED vars
        BY <2>5, ServiceStutter DEF vars, connVars, storeVars
    <2>6. QED BY <2>1, <2>2, <2>3, <2>4, <2>5, NextCases
<1>2. QED BY ServiceInit, Invariance, <1>1, PTL DEF Spec, ImplementsService, Service!Spec
=============================================================================
