------------------------- MODULE TunnelSystemProofs -------------------------
(***************************************************************************)
(* What TLAPS proves of TunnelSystem for any number of connections,        *)
(* clients, tokens, names and revocations.  The relay takes no step with   *)
(* its clients that it would not take alone, so that all that is proved of *)
(* TunnelServer holds here as well; what is added is about the names that  *)
(* the clients save and show.                                              *)
(***************************************************************************)
EXTENDS TunnelSystem, TunnelServerProofs

-----------------------------------------------------------------------------
(* The relay of the system is the relay.                                   *)

LEMMA ServerStepIsNext == ServerStep => Next
BY DEF ServerStep, Served, ControlArrives, HelloArrives, HelloLost, Next, HandlerStep

LEMMA ClientStepOfServer ==
    ASSUME NEW k \in Clients, ClientStep(k)
    PROVE  Next \/ UNCHANGED vars
<1>1. CASE Dial(k)
    <2>1. PICK c \in Conns : Accept(c) BY <1>1 DEF Dial
    <2>2. QED BY <2>1 DEF Next
<1>2. CASE ~Dial(k)
    BY <1>2 DEF ClientStep, Start, Stop, Breaks, SendHello, ReadWelcome,
                ReadRejection, SaveDomain, Retry
<1>3. QED BY <1>1, <1>2

LEMMA ServerOfStep == [SystemNext]_allVars => [Next]_vars
BY ServerStepIsNext, ClientStepOfServer DEF SystemNext, allVars

\* The relay, when its clients dial, send and go as tunnl does, is an instance
\* of the relay for any clients: all that is proved of that one holds.
THEOREM RelayOfSystem == SystemSpec => Spec
<1>1. SystemInit => Init BY DEF SystemInit
<1>2. QED BY <1>1, ServerOfStep, PTL DEF SystemSpec, Spec

THEOREM SystemInvariance == SystemSpec => []IInv
BY RelayOfSystem, Invariance, PTL

\* The abstract service, with what is proved of it.
Promises == INSTANCE RelayServiceProofs WITH asked <- host

LEMMA SameService == Service!Spec => Promises!Spec
<1>1. Service!Init => Promises!Init
    BY DEF Service!Init, Promises!Init
<1>2. [Service!Next]_(Service!vars) => [Promises!Next]_(Promises!vars)
    BY DEF Service!Next, Service!vars, Service!requests, Service!Claim, Service!ComeOnline,
           Service!GoOffline, Service!Assign, Service!Answer, Service!Stop,
           Promises!Next, Promises!vars, Promises!requests, Promises!Claim,
           Promises!ComeOnline, Promises!GoOffline, Promises!Assign, Promises!Answer,
           Promises!Stop
<1>3. QED BY <1>1, <1>2, PTL DEF Service!Spec, Promises!Spec

\* The relay with its clients keeps the promises of the abstract service: whatever
\* connects, breaks, is revoked or restarts, a reservation never moves and no
\* request is decided twice.
THEOREM ReservationsNeverMove == SystemSpec => Promises!NamesStayOwned
BY RelayOfSystem, Refinement, SameService, Promises!ServiceNamesStay, PTL
   DEF ImplementsService

THEOREM RequestsAreDecidedOnce == SystemSpec => Promises!FateIsFinal
BY RelayOfSystem, Refinement, SameService, Promises!ServiceFateIsFinal, PTL
   DEF ImplementsService

-----------------------------------------------------------------------------
(* What a step of the relay keeps of what it has told.                     *)

LEMMA KeepsToldOf ==
    ASSUME TypeOK, HandlersHoldNames, NEW x \in Conns, ConnectionStep(x),
           NEW c \in Conns, told[c] = "ok"
    PROVE  told'[c] = "ok" /\ domain'[c] = domain[c]
BY DEF TypeOK, HandlersHoldNames, Past, Online, Goto, Refuse, connVars, storeVars,
       ConnectionStep, HandlerStep, Accept, ConnectionLost,
       ControlStream, NoControlStream, Hello, BadHello, Authenticate, AuthenticationFails,
       Reserve, ReserveFails, Register, ClosePrevious, SendWelcome, WelcomeFails,
       SessionEnds, HeartbeatFails, Unregister, CloseSession

\* A Welcome once sent, and the name in it, stay.
LEMMA ToldStays ==
    ASSUME IInv, [Next]_vars, NEW c \in Conns, told[c] = "ok"
    PROVE  told'[c] = "ok" /\ domain'[c] = domain[c]
<1>1. ASSUME NEW x \in Conns, ConnectionStep(x)
      PROVE  told'[c] = "ok" /\ domain'[c] = domain[c]
    BY <1>1, KeepsToldOf DEF IInv
<1>2. CASE AdminStep BY <1>2, AdminFrame
<1>3. CASE ProcessStep BY <1>3, ProcessFrame DEF connVars
<1>4. CASE Exit BY <1>4 DEF Exit
<1>5. CASE UNCHANGED vars BY <1>5 DEF vars, connVars
<1>6. QED BY <1>1, <1>2, <1>3, <1>4, <1>5, NextCases

\* A reservation never moves.
LEMMA OwnerStays ==
    ASSUME TypeOK, [Next]_vars, NEW d \in Domains, owner[d] # NoToken
    PROVE  owner'[d] = owner[d]
<1>1. ASSUME NEW x \in Conns, ConnectionStep(x)
      PROVE  owner'[d] = owner[d]
    <2>1. CASE Reserve(x)
        BY <2>1 DEF Reserve, Reservable, Candidates, TypeOK
    <2>2. CASE ~Reserve(x)
        BY <1>1, <2>2
           DEF storeVars, ConnectionStep, HandlerStep, Accept, ConnectionLost,
               ControlStream, NoControlStream, Hello, BadHello, Authenticate,
               AuthenticationFails, ReserveFails, Register, ClosePrevious, SendWelcome,
               WelcomeFails, SessionEnds, HeartbeatFails, Unregister, CloseSession
    <2>3. QED BY <2>1, <2>2
<1>2. CASE AdminStep BY <1>2, AdminFrame
<1>3. CASE ProcessStep BY <1>3, ProcessFrame DEF storeVars
<1>4. CASE Exit BY <1>4 DEF Exit, storeVars
<1>5. CASE UNCHANGED vars BY <1>5 DEF vars, storeVars
<1>6. QED BY <1>1, <1>2, <1>3, <1>4, <1>5, NextCases

-----------------------------------------------------------------------------
(* Types, and the name in the state file.                                  *)

\* The token of a connection is the one of the process that dialled it.
DialledTokens ==
    \A c \in Conns :
        /\ pc[c] = "new" => token[c] = NoToken
        /\ token[c] \in {NoToken, dialler[c].token}

\* A client saves the name of a Welcome that the relay has sent.
WelcomesRead == \A k \in Clients : at[k] = "save" => told[conn[k]] = "ok"

SystemInv == IInv /\ ClientTypeOK /\ DialledTokens /\ WelcomesRead /\ SavedNameIsOurs

LEMMA SystemInitInv == SystemInit => SystemInv
<1> SUFFICES ASSUME SystemInit PROVE SystemInv OBVIOUS
<1>1. IInv BY InitInv DEF SystemInit
<1>2. ClientTypeOK BY ClientAssumption DEF SystemInit, ClientTypeOK, ClientSteps
<1>3. DialledTokens BY DEF SystemInit, Init, DialledTokens
<1>4. WelcomesRead BY DEF SystemInit, WelcomesRead
<1>5. SavedNameIsOurs BY DEF SystemInit, SavedNameIsOurs
<1>6. QED BY <1>1, <1>2, <1>3, <1>4, <1>5 DEF SystemInv

\* The name of a Welcome is one that the user of the client owns.
LEMMA WelcomedName ==
    ASSUME SystemInv, NEW c \in Conns, told[c] = "ok"
    PROVE  /\ domain[c] \in Domains
           /\ token[c] = dialler[c].token
           /\ owner[domain[c]] = dialler[c].token
           /\ dialler[c] \in Flags
<1>1. dialler[c] \in Flags BY DEF SystemInv, ClientTypeOK
<1>2. domain[c] \in Domains /\ owner[domain[c]] = token[c] /\ token[c] \in Tokens
    BY DEF SystemInv, IInv, WelcomeIsKept, HandlersHoldNames
<1>3. token[c] = dialler[c].token
    BY <1>2, ConstantsAssumption DEF SystemInv, DialledTokens
<1>4. QED BY <1>1, <1>2, <1>3

\* The name that a client is about to save.
LEMMA NameToSave ==
    ASSUME SystemInv, NEW k \in Clients, at[k] = "save"
    PROVE  /\ conn[k] \in Conns
           /\ told[conn[k]] = "ok"
           /\ domain[conn[k]] \in Domains
           /\ owner[domain[conn[k]]] = dialler[conn[k]].token
           /\ dialler[conn[k]] \in Flags
<1>1. conn[k] \in Conns BY DEF SystemInv, ClientTypeOK
<1>2. told[conn[k]] = "ok" BY DEF SystemInv, WelcomesRead
<1>3. QED BY <1>1, <1>2, WelcomedName

LEMMA WantedIsName ==
    ASSUME ClientTypeOK, NEW k \in Clients
    PROVE  WantedName(k) \in Names
BY ClientAssumption DEF ClientTypeOK, WantedName, Names

\* The relay's steps keep what the clients know, which they do not change.
LEMMA ServerKeepsTokens ==
    ASSUME SystemInv, ServerStep, UNCHANGED clientVars
    PROVE  DialledTokens'
<1> USE DEF SystemInv, IInv, TypeOK, DialledTokens, clientVars
<1>1. ASSUME NEW c \in Conns, HelloArrives(c) PROVE DialledTokens'
    BY <1>1 DEF HelloArrives, Hello, Goto
<1>2. ASSUME NEW c \in Conns, Served(c) \/ ConnectionLost(c), ~HelloArrives(c)
      PROVE  DialledTokens'
    <2>1. UNCHANGED token
        BY <1>2 DEF Served, ControlArrives, HelloLost, ConnectionLost,
             ControlStream, NoControlStream, BadHello, Authenticate, AuthenticationFails,
             Reserve, ReserveFails, Register, ClosePrevious, SendWelcome, WelcomeFails,
             SessionEnds, HeartbeatFails, Unregister, CloseSession
    <2>2. \A x \in Conns : pc'[x] = "new" => pc[x] = "new"
        BY <1>2 DEF Served, ControlArrives, HelloLost, ConnectionLost, Goto, Refuse,
             ControlStream, NoControlStream, BadHello, Authenticate, AuthenticationFails,
             Reserve, ReserveFails, Register, ClosePrevious, SendWelcome, WelcomeFails,
             SessionEnds, HeartbeatFails, Unregister, CloseSession
    <2>3. QED BY <2>1, <2>2
<1>3. CASE AdminStep BY <1>3, AdminFrame
<1>4. CASE Drain \/ Restart \/ \E q \in Requests : RequestStep(q)
    BY <1>4, ProcessFrame DEF ProcessStep, connVars
<1>5. CASE Exit BY <1>5 DEF Exit
<1>6. QED BY <1>1, <1>2, <1>3, <1>4, <1>5 DEF ServerStep, AdminStep

LEMMA ServerKeeps ==
    ASSUME SystemInv, ServerStep, UNCHANGED clientVars
    PROVE  ClientTypeOK' /\ DialledTokens' /\ WelcomesRead' /\ SavedNameIsOurs'
<1>1. [Next]_vars BY ServerStepIsNext
<1>2. ClientTypeOK' BY DEF SystemInv, ClientTypeOK, clientVars
<1>3. DialledTokens' BY ServerKeepsTokens
<1>4. WelcomesRead'
    <2>1. ASSUME NEW k \in Clients, at[k] = "save" PROVE told'[conn[k]] = "ok"
        BY <1>1, <2>1, NameToSave, ToldStays DEF SystemInv
    <2>2. QED BY <2>1 DEF WelcomesRead, clientVars
<1>5. SavedNameIsOurs'
    <2>1. ASSUME saved # Nothing
          PROVE  \E f \in Flags : owner'[saved] = f.token
        <3>1. saved \in Domains BY <2>1 DEF SystemInv, ClientTypeOK
        <3>2. PICK f \in Flags : owner[saved] = f.token
            BY <2>1 DEF SystemInv, SavedNameIsOurs
        <3>3. owner[saved] # NoToken BY <3>2, ClientAssumption, ConstantsAssumption
        <3>4. owner'[saved] = owner[saved]
            BY <1>1, <3>1, <3>3, OwnerStays DEF SystemInv, IInv
        <3>5. QED BY <3>2, <3>4
    <2>2. QED BY <2>1 DEF SavedNameIsOurs, clientVars
<1>6. QED BY <1>2, <1>3, <1>4, <1>5

\* The steps of a client.
LEMMA ClientKeepsTypes ==
    ASSUME SystemInv, NEW k \in Clients, ClientStep(k)
    PROVE  ClientTypeOK'
<1> USE DEF SystemInv, ClientTypeOK, ClientSteps, Go
<1>1. CASE Start(k) BY <1>1 DEF Start
<1>2. CASE Stop(k) BY <1>2, NameToSave DEF Stop
<1>3. CASE Dial(k)
    <2>1. PICK c \in Conns : /\ conn' = [conn EXCEPT ![k] = c]
                             /\ dialler' = [dialler EXCEPT ![c] = flags[k]]
        BY <1>3 DEF Dial
    <2>2. QED BY <1>3, <2>1 DEF Dial
<1>4. CASE Breaks(k) BY <1>4 DEF Breaks
<1>5. CASE SendHello(k) BY <1>5, WantedIsName DEF SendHello
<1>6. CASE ReadWelcome(k) BY <1>6 DEF ReadWelcome
<1>7. CASE ReadRejection(k) BY <1>7 DEF ReadRejection
<1>8. CASE SaveDomain(k) BY <1>8, NameToSave DEF SaveDomain, Shows
<1>9. CASE Retry(k) BY <1>9 DEF Retry
<1>10. QED
    BY <1>1, <1>2, <1>3, <1>4, <1>5, <1>6, <1>7, <1>8, <1>9 DEF ClientStep

LEMMA ClientKeepsTokens ==
    ASSUME SystemInv, NEW k \in Clients, ClientStep(k)
    PROVE  DialledTokens'
<1> USE DEF SystemInv, IInv, TypeOK, DialledTokens, ClientTypeOK
<1>1. CASE Dial(k)
    <2>1. PICK c \in Conns : /\ Accept(c)
                             /\ dialler' = [dialler EXCEPT ![c] = flags[k]]
        BY <1>1 DEF Dial
    <2>2. pc[c] = "new" /\ token' = token /\ pc' = [pc EXCEPT ![c] = "control"]
        BY <2>1 DEF Accept, Goto
    <2>3. QED BY <2>1, <2>2
<1>2. CASE ~Dial(k)
    <2>1. UNCHANGED <<vars, dialler>>
        BY <1>2 DEF ClientStep, Start, Stop, Breaks, SendHello, ReadWelcome,
                    ReadRejection, SaveDomain, Retry
    <2>2. QED BY <2>1 DEF vars, connVars
<1>3. QED BY <1>1, <1>2

LEMMA ClientKeepsWelcomes ==
    ASSUME SystemInv, NEW k \in Clients, ClientStep(k)
    PROVE  WelcomesRead'
<1> USE DEF SystemInv, WelcomesRead, ClientTypeOK, ClientSteps, Go
<1>1. CASE Dial(k)
    <2>1. PICK c \in Conns : Accept(c) /\ conn' = [conn EXCEPT ![k] = c]
        BY <1>1 DEF Dial
    <2>2. QED BY <1>1, <2>1 DEF Dial, Accept
<1>2. CASE ReadWelcome(k) BY <1>2 DEF ReadWelcome, vars, connVars
<1>3. CASE ~Dial(k) /\ ~ReadWelcome(k)
    <2>1. UNCHANGED told
        BY <1>3 DEF ClientStep, Start, Stop, Breaks, SendHello, ReadRejection,
                    SaveDomain, Retry, vars, connVars
    <2>2. \A j \in Clients : at'[j] = "save" => at[j] = "save" /\ conn'[j] = conn[j]
        BY <1>3 DEF ClientStep, Start, Stop, Breaks, SendHello, ReadRejection,
                    SaveDomain, Retry
    <2>3. QED BY <2>1, <2>2
<1>4. QED BY <1>1, <1>2, <1>3

LEMMA ClientKeepsName ==
    ASSUME SystemInv, NEW k \in Clients, ClientStep(k)
    PROVE  SavedNameIsOurs'
<1>1. owner' = owner
    BY DEF ClientStep, Start, Stop, Dial, Accept, Breaks, SendHello, ReadWelcome,
           ReadRejection, SaveDomain, Retry, vars, storeVars
<1>2. CASE saved' = saved
    BY <1>1, <1>2 DEF SystemInv, SavedNameIsOurs
<1>3. CASE at[k] = "save" /\ saved' = domain[conn[k]]
    BY <1>1, <1>3, NameToSave DEF SavedNameIsOurs
<1>4. saved' = saved \/ (at[k] = "save" /\ saved' = domain[conn[k]])
    BY DEF ClientStep, Start, Stop, Dial, Accept, Breaks, SendHello, ReadWelcome,
           ReadRejection, SaveDomain, Retry
<1>5. QED BY <1>2, <1>3, <1>4

LEMMA SystemStep ==
    ASSUME SystemInv, [SystemNext]_allVars
    PROVE  SystemInv'
<1>1. IInv'
    <2>1. [Next]_vars BY ServerOfStep
    <2>2. QED BY <2>1, InvStep DEF SystemInv
<1>2. ASSUME NEW k \in Clients, ClientStep(k) PROVE SystemInv'
    BY <1>1, <1>2, ClientKeepsTypes, ClientKeepsTokens, ClientKeepsWelcomes,
       ClientKeepsName DEF SystemInv
<1>3. CASE ServerStep /\ UNCHANGED clientVars BY <1>1, <1>3, ServerKeeps DEF SystemInv
<1>4. CASE UNCHANGED allVars
    BY <1>1, <1>4
       DEF SystemInv, allVars, clientVars, vars, connVars, storeVars, ClientTypeOK,
           DialledTokens, WelcomesRead, SavedNameIsOurs
<1>5. QED BY <1>2, <1>3, <1>4 DEF SystemNext

\* The inductive invariant of the relay together with its clients.
THEOREM SystemKeepsInv == SystemSpec => []SystemInv
BY SystemInitInv, SystemStep, PTL DEF SystemSpec

\* Every variable of the clients and of their state file keeps its type.
THEOREM ClientTypeCorrect == SystemSpec => []ClientTypeOK
<1>1. SystemInv => ClientTypeOK BY DEF SystemInv
<1>2. QED BY SystemKeepsInv, <1>1, PTL

\* The name in the state file is reserved for a token of this machine, however
\* many clients share the file, fail to write it or are killed while they do.
THEOREM SavedNameStaysOurs == SystemSpec => []SavedNameIsOurs
<1>1. SystemInv => SavedNameIsOurs BY DEF SystemInv
<1>2. QED BY SystemKeepsInv, <1>1, PTL

-----------------------------------------------------------------------------
(* A connection, its Hello and its Welcome, for any number of clients.      *)

Connected == {"hello", "welcome", "save", "ready"}

\* The client's own side of a connection: it was dialled with the flags the client
\* has, a Hello is sent on it once, and no other client has it.
DialledOnce ==
    \A k \in Clients :
        at[k] \in Connected =>
            /\ pc[conn[k]] # "new"
            /\ dialler[conn[k]] = flags[k]
            /\ at[k] = "hello" => sent[conn[k]] = Nothing

ConnectionsApart ==
    \A j, k \in Clients :
        j # k /\ at[j] \in Connected /\ at[k] \in Connected => conn[j] # conn[k]

\* The relay answers a Hello that was sent, with the name in it if it has one.
HelloAnswered ==
    \A c \in Conns :
        /\ pc[c] = "new" => sent[c] = Nothing
        /\ sent[c] = Nothing => pc[c] \in {"new", "control", "done"} /\ told[c] # "ok"
        /\ sent[c] \notin {Nothing, Unnamed} /\ (pc[c] \in Known \/ told[c] = "ok")
               => domain[c] = sent[c]
        /\ pc[c] \in {"authenticate", "reserve"} => domain[c] = sent[c]

HelloInv == SystemInv /\ DialledOnce /\ ConnectionsApart /\ HelloAnswered

LEMMA HelloInitInv == SystemInit => HelloInv
<1> SUFFICES ASSUME SystemInit PROVE HelloInv OBVIOUS
<1>1. SystemInv BY SystemInitInv
<1>2. DialledOnce /\ ConnectionsApart
    BY DEF SystemInit, DialledOnce, ConnectionsApart, Connected
<1>3. HelloAnswered BY ClientAssumption DEF SystemInit, Init, HelloAnswered, Names
<1>4. QED BY <1>1, <1>2, <1>3 DEF HelloInv

\* A connection that was dialled is never as if it were not.
LEMMA NewNoMore ==
    ASSUME [Next]_vars, NEW c \in Conns, TypeOK, pc[c] # "new"
    PROVE  pc'[c] # "new"
<1>1. ASSUME NEW x \in Conns, ConnectionStep(x) PROVE pc'[c] # "new"
    BY <1>1
       DEF TypeOK, Goto, Refuse, ConnectionStep, HandlerStep, Accept, ConnectionLost,
           ControlStream, NoControlStream, Hello, BadHello, Authenticate,
           AuthenticationFails, Reserve, ReserveFails, Register, ClosePrevious,
           SendWelcome, WelcomeFails, SessionEnds, HeartbeatFails, Unregister, CloseSession
<1>2. CASE AdminStep BY <1>2, AdminFrame
<1>3. CASE ProcessStep BY <1>3, ProcessFrame DEF connVars
<1>4. CASE Exit BY <1>4 DEF Exit
<1>5. CASE UNCHANGED vars BY <1>5 DEF vars, connVars
<1>6. QED BY <1>1, <1>2, <1>3, <1>4, <1>5, NextCases

LEMMA WelcomeAnswers ==
    ASSUME TypeOK, HelloAnswered, NEW c \in Conns, SendWelcome(c), UNCHANGED sent
    PROVE  HelloAnswered'
<1>1. pc \in [Conns -> Steps] /\ DOMAIN told = Conns BY DEF TypeOK
<1>2. /\ pc[c] = "welcome" /\ pc' = [pc EXCEPT ![c] = "serve"]
      /\ told' = [told EXCEPT ![c] = "ok"] /\ UNCHANGED <<domain, sent>>
    BY DEF SendWelcome, Goto
<1>3. sent[c] # Nothing /\ (sent[c] # Unnamed => domain[c] = sent[c])
    BY <1>2 DEF HelloAnswered, Known, Named
<1>4. \A x \in Conns \ {c} : pc'[x] = pc[x] /\ told'[x] = told[x]
    BY <1>1, <1>2
<1>5. pc'[c] = "serve" BY <1>1, <1>2
<1>6. QED BY <1>2, <1>3, <1>4, <1>5 DEF HelloAnswered

LEMMA ServerAnswers ==
    ASSUME HelloInv, ServerStep, UNCHANGED clientVars
    PROVE  HelloAnswered'
<1> USE ConstantsAssumption, ClientAssumption
        DEF HelloInv, SystemInv, IInv, TypeOK, HandlersHoldNames, ClientTypeOK,
            HelloAnswered, clientVars, Known, Named, Names, connVars
<1>1. ASSUME NEW c \in Conns, Served(c) \/ ConnectionLost(c)
      PROVE  HelloAnswered'
    <2> USE DEF Goto, Refuse
    <2>1. CASE ControlArrives(c) BY <2>1 DEF ControlArrives, ControlStream
    <2>2. CASE HelloArrives(c) BY <2>2 DEF HelloArrives, Hello
    <2>3. CASE Reserve(c) BY <2>3 DEF Reserve, Candidates
    <2>4. CASE SendWelcome(c) BY <2>4, WelcomeAnswers
    <2>5. CASE \/ NoControlStream(c) \/ HelloLost(c) \/ AuthenticationFails(c)
               \/ ReserveFails(c)
        <3>1. /\ pc' = [pc EXCEPT ![c] = "done"] /\ UNCHANGED domain
              /\ \E answer \in {told[c], "error"} : told' = [told EXCEPT ![c] = answer]
            BY <2>5 DEF NoControlStream, HelloLost, BadHello, AuthenticationFails,
                        ReserveFails
        <3>2. QED BY <3>1
    <2>6. CASE \/ Authenticate(c) \/ Register(c) \/ ClosePrevious(c) \/ WelcomeFails(c)
               \/ SessionEnds(c) \/ HeartbeatFails(c) \/ Unregister(c) \/ CloseSession(c)
               \/ ConnectionLost(c)
        <3>1. UNCHANGED <<domain, told>>
            BY <2>6
               DEF Authenticate, Register, ClosePrevious, WelcomeFails, SessionEnds,
                   HeartbeatFails, Unregister, CloseSession, ConnectionLost
        <3>2. \A x \in Conns : pc'[x] # pc[x] =>
                  /\ pc[x] \in Known /\ pc'[x] \in Known \cup {"done"}
                  /\ pc'[x] \in {"authenticate", "reserve"} => pc[x] = "authenticate"
            BY <2>6
               DEF Authenticate, Register, ClosePrevious, WelcomeFails, SessionEnds,
                   HeartbeatFails, Unregister, CloseSession, ConnectionLost
        <3>3. QED BY <3>1, <3>2
    <2>7. QED BY <1>1, <2>1, <2>2, <2>3, <2>4, <2>5, <2>6 DEF Served
<1>2. CASE AdminStep BY <1>2, AdminFrame
<1>3. CASE Drain \/ Restart \/ \E q \in Requests : RequestStep(q)
    BY <1>3, ProcessFrame DEF ProcessStep
<1>4. CASE Exit BY <1>4 DEF Exit
<1>5. QED BY <1>1, <1>2, <1>3, <1>4 DEF ServerStep, AdminStep

LEMMA ServerKeepsDialled ==
    ASSUME HelloInv, ServerStep, UNCHANGED clientVars
    PROVE  DialledOnce' /\ ConnectionsApart'
<1>1. [Next]_vars BY ServerStepIsNext
<1>2. ASSUME NEW k \in Clients, at[k] \in Connected PROVE pc'[conn[k]] # "new"
    BY <1>1, <1>2, NewNoMore
       DEF HelloInv, SystemInv, IInv, ClientTypeOK, DialledOnce, Connected
<1>3. DialledOnce' BY <1>2 DEF HelloInv, DialledOnce, clientVars
<1>4. ConnectionsApart' BY DEF HelloInv, ConnectionsApart, clientVars
<1>5. QED BY <1>3, <1>4

LEMMA ClientDials ==
    ASSUME HelloInv, NEW k \in Clients, ClientStep(k)
    PROVE  DialledOnce' /\ ConnectionsApart' /\ HelloAnswered'
<1> USE ConstantsAssumption, ClientAssumption
        DEF HelloInv, SystemInv, IInv, TypeOK, ClientTypeOK, ClientSteps, DialledOnce,
            ConnectionsApart, HelloAnswered, Connected, Known, Named, Go
<1>1. CASE Dial(k)
    <2>1. PICK c \in Conns : /\ Accept(c)
                             /\ conn' = [conn EXCEPT ![k] = c]
                             /\ dialler' = [dialler EXCEPT ![c] = flags[k]]
        BY <1>1 DEF Dial
    <2>2. /\ pc[c] = "new" /\ pc' = [pc EXCEPT ![c] = "control"]
          /\ UNCHANGED <<told, domain>>
        BY <2>1 DEF Accept, Goto
    <2>3. at' = [at EXCEPT ![k] = "hello"] /\ UNCHANGED <<flags, sent>>
        BY <1>1 DEF Dial
    <2>4. HelloAnswered' BY <2>2, <2>3
    <2>5. ASSUME NEW j \in Clients, j # k, at'[j] \in Connected
          PROVE  /\ at[j] = at'[j] /\ conn'[j] = conn[j] /\ conn[j] \in Conns
                 /\ conn[j] # c
        BY <2>1, <2>2, <2>3, <2>5
    <2>6. DialledOnce'
        <3>1. ASSUME NEW j \in Clients, j # k, at'[j] \in Connected
              PROVE  /\ pc'[conn'[j]] # "new" /\ dialler'[conn'[j]] = flags'[j]
                     /\ at'[j] = "hello" => sent'[conn'[j]] = Nothing
            BY <2>1, <2>2, <2>3, <2>5, <3>1
        <3>2. /\ pc'[conn'[k]] # "new" /\ dialler'[conn'[k]] = flags'[k]
              /\ sent'[conn'[k]] = Nothing
            BY <2>1, <2>2, <2>3
        <3>3. QED BY <3>1, <3>2
    <2>7. ConnectionsApart'
        <3>1. conn'[k] = c BY <2>1
        <3>2. QED BY <2>5, <3>1
    <2>8. QED BY <2>4, <2>6, <2>7
<1>2. CASE SendHello(k)
    <2>1. /\ at[k] = "hello" /\ at' = [at EXCEPT ![k] = "welcome"]
          /\ sent' = [sent EXCEPT ![conn[k]] = WantedName(k)]
          /\ UNCHANGED <<pc, told, domain, flags, conn, dialler>>
        BY <1>2 DEF SendHello, vars, connVars
    <2>2. /\ conn[k] \in Conns /\ sent[conn[k]] = Nothing
          /\ pc[conn[k]] = "control" \/ pc[conn[k]] = "done"
          /\ told[conn[k]] # "ok" /\ pc[conn[k]] # "new"
        BY <2>1
    <2>3. WantedName(k) # Nothing BY WantedIsName
    <2>4. HelloAnswered' BY <2>1, <2>2, <2>3
    <2>5. \A j \in Clients : at'[j] \in Connected => at[j] \in Connected BY <2>1
    <2>6. ConnectionsApart' BY <2>1, <2>5
    <2>7. ASSUME NEW j \in Clients, at'[j] = "hello" PROVE sent'[conn[j]] = Nothing
        <3>1. j # k /\ at[j] = "hello" BY <2>1, <2>7
        <3>2. conn[j] # conn[k] /\ sent[conn[j]] = Nothing BY <2>1, <3>1
        <3>3. QED BY <2>1, <3>2
    <2>8. DialledOnce' BY <2>1, <2>5, <2>7
    <2>9. QED BY <2>4, <2>6, <2>8
<1>3. CASE ~Dial(k) /\ ~SendHello(k)
    <2>1. UNCHANGED <<pc, told, domain, sent, dialler>>
        BY <1>3 DEF ClientStep, Start, Stop, Breaks, ReadWelcome, ReadRejection,
                    SaveDomain, Retry, vars, connVars
    <2>2. HelloAnswered' BY <2>1
    <2>3. \A j \in Clients :
              at'[j] \in Connected =>
                  /\ at[j] \in Connected
                  /\ at'[j] = "hello" => at[j] = "hello"
                  /\ conn'[j] = conn[j] /\ flags'[j] = flags[j]
        BY <1>3 DEF ClientStep, Start, Stop, Breaks, ReadWelcome, ReadRejection,
                    SaveDomain, Retry
    <2>4. DialledOnce' BY <2>1, <2>3
    <2>5. ConnectionsApart' BY <2>3
    <2>6. QED BY <2>2, <2>4, <2>5
<1>4. QED BY <1>1, <1>2, <1>3

LEMMA HelloStep ==
    ASSUME HelloInv, [SystemNext]_allVars
    PROVE  HelloInv'
<1>1. SystemInv' BY SystemStep DEF HelloInv
<1>2. ASSUME NEW k \in Clients, ClientStep(k) PROVE HelloInv'
    BY <1>1, <1>2, ClientDials DEF HelloInv
<1>3. CASE ServerStep /\ UNCHANGED clientVars
    BY <1>1, <1>3, ServerAnswers, ServerKeepsDialled DEF HelloInv
<1>4. CASE UNCHANGED allVars
    BY <1>1, <1>4
       DEF HelloInv, DialledOnce, ConnectionsApart, HelloAnswered,
           allVars, clientVars, vars, connVars, storeVars
<1>5. QED BY <1>2, <1>3, <1>4 DEF SystemNext

THEOREM SystemKeepsHellos == SystemSpec => []HelloInv
BY HelloInitInv, HelloStep, PTL DEF SystemSpec

-----------------------------------------------------------------------------
(* The name that is asked for was granted, for any number of clients.       *)

\* d was the name of a Welcome.
WasGranted(d) == \E c \in Conns : told[c] = "ok" /\ domain[c] = d

SavedWasGranted == saved # Nothing => WasGranted(saved)

SentWasGranted ==
    \A c \in Conns :
        dialler[c].domain = Unnamed /\ sent[c] \notin {Nothing, Unnamed}
            => WasGranted(sent[c])

GrantInv == HelloInv /\ SavedWasGranted /\ SentWasGranted

LEMMA GrantStays ==
    ASSUME IInv, [Next]_vars, NEW d, WasGranted(d)
    PROVE  WasGranted(d)'
<1>1. PICK c \in Conns : told[c] = "ok" /\ domain[c] = d BY DEF WasGranted
<1>2. told'[c] = "ok" /\ domain'[c] = d BY <1>1, ToldStays
<1>3. QED BY <1>2 DEF WasGranted

LEMMA GrantStep ==
    ASSUME GrantInv, [SystemNext]_allVars
    PROVE  GrantInv'
<1>1. HelloInv' BY HelloStep DEF GrantInv
<1>2. [Next]_vars /\ IInv BY ServerOfStep DEF GrantInv, HelloInv, SystemInv
<1>3. SavedWasGranted'
    <2>1. ASSUME NEW k \in Clients, at[k] = "save", saved' = domain[conn[k]]
          PROVE  SavedWasGranted'
        <3>1. WasGranted(domain[conn[k]])
            BY <2>1, NameToSave DEF WasGranted, GrantInv, HelloInv
        <3>2. WasGranted(saved)' BY <1>2, <2>1, <3>1, GrantStays DEF WasGranted
        <3>3. QED BY <3>2 DEF SavedWasGranted
    <2>2. CASE saved' = saved
        <3>1. ASSUME saved # Nothing PROVE WasGranted(saved)'
            BY <1>2, <2>2, <3>1, GrantStays DEF GrantInv, SavedWasGranted, WasGranted
        <3>2. QED BY <2>2, <3>1 DEF SavedWasGranted
    <2>3. \/ saved' = saved
          \/ \E k \in Clients : at[k] = "save" /\ saved' = domain[conn[k]]
        BY DEF SystemNext, ClientStep, Start, Stop, Dial, Breaks, SendHello, ReadWelcome,
               ReadRejection, SaveDomain, Retry, allVars, clientVars
    <2>4. QED BY <2>1, <2>2, <2>3
<1>4. SentWasGranted'
    <2>1. ASSUME NEW c \in Conns, sent'[c] = sent[c], dialler'[c] = dialler[c],
                 dialler'[c].domain = Unnamed, sent'[c] \notin {Nothing, Unnamed}
          PROVE  WasGranted(sent[c])'
        <3>1. WasGranted(sent[c]) BY <2>1 DEF GrantInv, SentWasGranted
        <3>2. QED BY <1>2, <2>1, <3>1, GrantStays DEF WasGranted
    <2>2. ASSUME NEW k \in Clients, Dial(k) PROVE SentWasGranted'
        <3>1. PICK c \in Conns : /\ pc[c] = "new"
                                 /\ dialler' = [dialler EXCEPT ![c] = flags[k]]
            BY <2>2 DEF Dial, Accept
        <3>2. sent' = sent BY <2>2 DEF Dial
        <3>3. sent'[c] = Nothing
            BY <3>1, <3>2 DEF GrantInv, HelloInv, HelloAnswered
        <3>4. \A x \in Conns \ {c} : dialler'[x] = dialler[x]
            BY <3>1 DEF GrantInv, HelloInv, SystemInv, ClientTypeOK
        <3>5. QED BY <2>1, <3>2, <3>3, <3>4 DEF SentWasGranted, WasGranted
    <2>3. ASSUME NEW k \in Clients, SendHello(k) PROVE SentWasGranted'
        <3>1. /\ at[k] = "hello" /\ UNCHANGED <<told, domain, dialler>>
              /\ sent' = [sent EXCEPT ![conn[k]] = WantedName(k)]
            BY <2>3 DEF SendHello, vars, connVars
        <3>2. /\ conn[k] \in Conns /\ dialler[conn[k]] = flags[k]
              /\ sent \in [Conns -> Names \cup {Nothing}]
            BY <3>1 DEF GrantInv, HelloInv, SystemInv, ClientTypeOK, DialledOnce, Connected
        <3>3. ASSUME flags[k].domain = Unnamed, WantedName(k) # Unnamed
              PROVE  WasGranted(WantedName(k))
            BY <3>3 DEF WantedName, GrantInv, SavedWasGranted
        <3>4. sent'[conn[k]] = WantedName(k) BY <3>1, <3>2
        <3>5. \A x \in Conns \ {conn[k]} : sent'[x] = sent[x] BY <3>1, <3>2
        <3>6. ASSUME NEW x \in Conns, dialler'[x].domain = Unnamed,
                     sent'[x] \notin {Nothing, Unnamed}
              PROVE  WasGranted(sent'[x])
            <4>1. CASE x = conn[k] BY <3>1, <3>2, <3>3, <3>4, <3>6, <4>1
            <4>2. CASE x # conn[k]
                BY <3>1, <3>5, <3>6, <4>2 DEF GrantInv, SentWasGranted
            <4>3. QED BY <4>1, <4>2
        <3>7. QED BY <3>1, <3>6 DEF SentWasGranted, WasGranted
    <2>4. CASE UNCHANGED <<sent, dialler>>
        BY <2>1, <2>4 DEF SentWasGranted, WasGranted
    <2>5. \/ UNCHANGED <<sent, dialler>>
          \/ \E k \in Clients : Dial(k) \/ SendHello(k)
        BY DEF SystemNext, ClientStep, Start, Stop, Breaks, ReadWelcome, ReadRejection,
               SaveDomain, Retry, allVars, clientVars
    <2>6. QED BY <2>2, <2>3, <2>4, <2>5
<1>5. QED BY <1>1, <1>3, <1>4 DEF GrantInv

\* The name that a client without --domain asks for was granted to a tunnel of the
\* machine and is reserved for the token of that one, whatever number of clients
\* share the file, fail to write it or are killed while they do, and however often
\* the relay restarts: ErrDomainTaken strikes between the machine's own tokens only.
THEOREM AskedNamesWereGranted == SystemSpec => []AskedNameWasGranted
<1>1. SystemInit => GrantInv
    BY HelloInitInv DEF SystemInit, GrantInv, SavedWasGranted, SentWasGranted
<1>2. GrantInv /\ [SystemNext]_allVars => GrantInv' BY GrantStep
<1>3. GrantInv => AskedNameWasGranted
    <2> SUFFICES ASSUME GrantInv, NEW c \in Conns, pc[c] = "reserve",
                        dialler[c].domain = Unnamed, domain[c] # Unnamed
                 PROVE  \E e \in Conns : /\ told[e] = "ok" /\ domain[e] = domain[c]
                                         /\ owner[domain[c]] = token[e]
        BY DEF AskedNameWasGranted
    <2>1. sent[c] # Nothing BY DEF GrantInv, HelloInv, HelloAnswered
    <2>2. domain[c] = sent[c] BY DEF GrantInv, HelloInv, HelloAnswered
    <2>3. PICK e \in Conns : told[e] = "ok" /\ domain[e] = domain[c]
        BY <2>1, <2>2 DEF GrantInv, SentWasGranted, WasGranted
    <2>4. owner[domain[e]] = token[e] BY <2>3, WelcomedName DEF GrantInv, HelloInv
    <2>5. QED BY <2>3, <2>4
<1>4. QED BY <1>1, <1>2, <1>3, PTL DEF SystemSpec

-----------------------------------------------------------------------------
(***************************************************************************)
(* The public URL stays the same: on a machine where one tunnl runs at a   *)
(* time and the file can be written, whatever the flags of the runs.       *)
(***************************************************************************)
QuietMachine ==
    /\ \A j, k \in Clients : j = k
    /\ ~SaveFails

\* A client that waits for its name has asked for the one its flags name, or for
\* the one that is still in the file.
AsksForWanted ==
    \A k \in Clients : at[k] \in {"welcome", "save"} => sent[conn[k]] = WantedName(k)

\* The name that was shown is in the file, or what is there instead was asked for
\* with --domain under the token that owns it.
ShownIsSaved ==
    \A k \in Clients : shown[k] # Nothing =>
        /\ saved # Nothing
        /\ saved = shown[k] \/ saved \in AskedWith(owner[saved])

NameInv == HelloInv /\ AsksForWanted /\ ShownIsSaved

LEMMA NameInitInv == SystemInit => NameInv
BY HelloInitInv DEF SystemInit, NameInv, AsksForWanted, ShownIsSaved

LEMMA ServerKeepsShown ==
    ASSUME NameInv, ServerStep, UNCHANGED clientVars
    PROVE  AsksForWanted' /\ ShownIsSaved'
<1>1. [Next]_vars BY ServerStepIsNext
<1>2. AsksForWanted' BY DEF NameInv, AsksForWanted, WantedName, clientVars
<1>3. ASSUME saved # Nothing PROVE owner'[saved] = owner[saved]
    <2>1. saved \in Domains BY <1>3 DEF NameInv, HelloInv, SystemInv, ClientTypeOK
    <2>2. owner[saved] # NoToken
        BY <1>3, ClientAssumption, ConstantsAssumption
           DEF NameInv, HelloInv, SystemInv, SavedNameIsOurs
    <2>3. QED BY <1>1, <2>1, <2>2, OwnerStays DEF NameInv, HelloInv, SystemInv, IInv
<1>4. ShownIsSaved' BY <1>3 DEF NameInv, ShownIsSaved, AskedWith, clientVars
<1>5. QED BY <1>2, <1>4

\* What a client is about to save is what it wanted.
LEMMA SavesWanted ==
    ASSUME NameInv, NEW k \in Clients, at[k] = "save", WantedName(k) # Unnamed
    PROVE  /\ domain[conn[k]] = WantedName(k)
           /\ owner[WantedName(k)] = flags[k].token
           /\ flags[k] \in Flags
<1>1. /\ conn[k] \in Conns /\ told[conn[k]] = "ok" /\ dialler[conn[k]] \in Flags
      /\ owner[domain[conn[k]]] = dialler[conn[k]].token
    BY NameToSave DEF NameInv, HelloInv
<1>2. dialler[conn[k]] = flags[k] BY DEF NameInv, HelloInv, DialledOnce, Connected
<1>3. WantedName(k) # Nothing
    BY WantedIsName, ClientAssumption DEF NameInv, HelloInv, SystemInv
<1>4. sent[conn[k]] = WantedName(k) BY DEF NameInv, AsksForWanted
<1>5. domain[conn[k]] = WantedName(k)
    BY <1>1, <1>3, <1>4 DEF NameInv, HelloInv, HelloAnswered
<1>6. QED BY <1>1, <1>2, <1>5

\* A client without --domain that has shown a name is about to save the one in
\* the file, which is the one it has shown, or was asked for under its token.
LEMMA SameNameAgain ==
    ASSUME NameInv, NEW k \in Clients, at[k] = "save", flags[k].domain = Unnamed,
           shown[k] # Nothing
    PROVE  /\ domain[conn[k]] = saved
           /\ saved \in {shown[k]} \cup AskedWith(flags[k].token)
<1>1. saved # Nothing BY DEF NameInv, ShownIsSaved
<1>2. saved # Unnamed
    BY <1>1, ConstantsAssumption DEF NameInv, HelloInv, SystemInv, ClientTypeOK
<1>3. WantedName(k) = saved BY <1>1 DEF WantedName
<1>4. domain[conn[k]] = saved /\ owner[saved] = flags[k].token
    BY <1>2, <1>3, SavesWanted
<1>5. saved = shown[k] \/ saved \in AskedWith(owner[saved])
    BY DEF NameInv, ShownIsSaved
<1>6. QED BY <1>4, <1>5

\* A name that a run with --domain saves was asked for under the token that owns it.
LEMMA OtherName ==
    ASSUME NameInv, NEW k \in Clients, at[k] = "save", flags[k].domain # Unnamed
    PROVE  domain[conn[k]] \in AskedWith(owner[domain[conn[k]]])
<1>1. WantedName(k) = flags[k].domain BY DEF WantedName
<1>2. /\ domain[conn[k]] = flags[k].domain /\ owner[flags[k].domain] = flags[k].token
      /\ flags[k] \in Flags
    BY <1>1, SavesWanted
<1>3. QED BY <1>2 DEF AskedWith

LEMMA ClientAsks ==
    ASSUME QuietMachine, NameInv, NEW k \in Clients, ClientStep(k)
    PROVE  AsksForWanted'
<1> USE DEF NameInv, HelloInv, SystemInv, ClientTypeOK, ClientSteps, AsksForWanted,
            WantedName, Go
<1>1. CASE SendHello(k)
    <2>1. /\ at[k] = "hello" /\ at' = [at EXCEPT ![k] = "welcome"]
          /\ sent' = [sent EXCEPT ![conn[k]] = WantedName(k)]
          /\ UNCHANGED <<flags, conn, saved>>
        BY <1>1 DEF SendHello
    <2>2. conn[k] \in Conns BY <2>1
    <2>3. QED BY <2>1, <2>2 DEF QuietMachine
<1>2. CASE ReadWelcome(k) BY <1>2 DEF ReadWelcome
<1>3. CASE ~SendHello(k) /\ ~ReadWelcome(k)
    <2>1. at'[k] \notin {"welcome", "save"}
        BY <1>3 DEF ClientStep, Start, Stop, Dial, Breaks, ReadRejection, SaveDomain, Retry
    <2>2. QED BY <2>1 DEF QuietMachine
<1>4. QED BY <1>1, <1>2, <1>3

LEMMA ClientShows ==
    ASSUME QuietMachine, NameInv, NEW k \in Clients, ClientStep(k)
    PROVE  ShownIsSaved'
<1> USE DEF ShownIsSaved
<1>1. owner' = owner
    BY DEF ClientStep, Start, Stop, Dial, Accept, Breaks, SendHello, ReadWelcome,
           ReadRejection, SaveDomain, Retry, vars, storeVars
<1>2. CASE SaveDomain(k)
    <2>1. /\ at[k] = "save" /\ saved' = domain[conn[k]]
          /\ shown' = [shown EXCEPT ![k] = IF flags[k].domain = Unnamed
                                              THEN domain[conn[k]] ELSE @]
        BY <1>2 DEF SaveDomain, Shows, QuietMachine
    <2>2. domain[conn[k]] \in Domains /\ domain[conn[k]] # Nothing
        BY <2>1, NameToSave, ClientAssumption DEF NameInv, HelloInv, Names
    <2>3. CASE flags[k].domain = Unnamed
        <3>1. shown'[k] = saved'
            BY <2>1, <2>3 DEF NameInv, HelloInv, SystemInv, ClientTypeOK
        <3>2. QED BY <2>1, <2>2, <3>1 DEF QuietMachine
    <2>4. CASE flags[k].domain # Unnamed
        BY <1>1, <2>1, <2>2, <2>4, OtherName
    <2>5. QED BY <2>3, <2>4
<1>3. CASE Stop(k) /\ saved' # saved
    <2>1. at[k] = "save" /\ saved' = domain[conn[k]] /\ UNCHANGED shown
        BY <1>3 DEF Stop
    <2>2. domain[conn[k]] \in Domains /\ domain[conn[k]] # Nothing
        BY <2>1, NameToSave, ClientAssumption DEF NameInv, HelloInv, Names
    <2>3. CASE flags[k].domain = Unnamed
        <3>1. ASSUME shown[k] # Nothing PROVE FALSE
            BY <1>3, <2>1, <2>3, <3>1, SameNameAgain
        <3>2. QED BY <2>1, <3>1 DEF QuietMachine
    <2>4. CASE flags[k].domain # Unnamed
        BY <1>1, <2>1, <2>2, <2>4, OtherName
    <2>5. QED BY <2>3, <2>4
<1>4. CASE ~SaveDomain(k) /\ ~(Stop(k) /\ saved' # saved)
    <2>1. UNCHANGED <<shown, saved>>
        BY <1>4 DEF ClientStep, Start, Stop, Dial, Breaks, SendHello, ReadWelcome,
                    ReadRejection, Retry
    <2>2. QED BY <1>1, <2>1 DEF NameInv
<1>5. QED BY <1>2, <1>3, <1>4

LEMMA NameStep ==
    ASSUME QuietMachine, NameInv, [SystemNext]_allVars
    PROVE  NameInv'
<1>1. HelloInv' BY HelloStep DEF NameInv
<1>2. ASSUME NEW k \in Clients, ClientStep(k) PROVE NameInv'
    BY <1>1, <1>2, ClientAsks, ClientShows DEF NameInv
<1>3. CASE ServerStep /\ UNCHANGED clientVars
    BY <1>1, <1>3, ServerKeepsShown DEF NameInv
<1>4. CASE UNCHANGED allVars
    BY <1>1, <1>4
       DEF NameInv, AsksForWanted, WantedName, ShownIsSaved,
           allVars, clientVars, vars, storeVars
<1>5. QED BY <1>2, <1>3, <1>4 DEF SystemNext

\* A client without --domain shows the same public URL whenever it connects, or one
\* whose name was asked for with --domain under its token, over reconnects, lost
\* Welcomes, kills and restarts of either side and whatever else is run in between,
\* if it is the one tunnl of its machine and can write its file.
THEOREM NameStays ==
    ASSUME QuietMachine
    PROVE  SystemSpec => NameIsStable
<1> DEFINE Stable ==
        \A k \in Clients :
            flags[k].domain = Unnamed /\ shown[k] # Nothing
                => shown'[k] \in {shown[k]} \cup AskedWith(flags[k].token)
<1>1. SystemInit => NameInv BY NameInitInv
<1>2. NameInv /\ [SystemNext]_allVars => NameInv' BY NameStep
<1>3. NameInv /\ [SystemNext]_allVars => [Stable]_allVars
    <2> SUFFICES ASSUME NameInv, SystemNext, NEW k \in Clients,
                        flags[k].domain = Unnamed, shown[k] # Nothing
                 PROVE  shown'[k] \in {shown[k]} \cup AskedWith(flags[k].token)
        OBVIOUS
    <2>1. ASSUME NEW j \in Clients, SaveDomain(j)
          PROVE  shown'[k] \in {shown[k]} \cup AskedWith(flags[k].token)
        <3>1. j = k BY DEF QuietMachine
        <3>2. at[k] = "save" /\ shown' = [shown EXCEPT ![k] = domain[conn[k]]]
            BY <2>1, <3>1 DEF SaveDomain, Shows
        <3>3. domain[conn[k]] \in {shown[k]} \cup AskedWith(flags[k].token)
            BY <3>2, SameNameAgain
        <3>4. shown'[k] = domain[conn[k]]
            BY <3>2 DEF NameInv, HelloInv, SystemInv, ClientTypeOK
        <3>5. QED BY <3>3, <3>4
    <2>2. CASE ~ \E j \in Clients : SaveDomain(j)
        BY <2>2 DEF SystemNext, ClientStep, clientVars, Start, Stop, Dial, Breaks,
                    SendHello, ReadWelcome, ReadRejection, Retry
    <2>3. QED BY <2>1, <2>2
<1>4. QED BY <1>1, <1>2, <1>3, PTL DEF SystemSpec, NameIsStable
-----------------------------------------------------------------------------
(***************************************************************************)
(* The public URL is served: any number of clients, whatever their flags,  *)
(* connect, displace one another and break while the relay's handlers are  *)
(* at any step.                                                            *)
(***************************************************************************)
\* A connection is a client's own, and not one that another client dialled or
\* that was dialled with other flags.
ConnectionIsOwn ==
    \A k \in Clients :
        at[k] \in Connected => pc[conn[k]] # "new" /\ dialler[conn[k]] = flags[k]

\* A client shows the URL of a Welcome that the relay has sent.
ShownIsWelcomed == \A k \in Clients : at[k] = "ready" => told[conn[k]] = "ok"

\* A handler that has returned has closed its connection.
DoneIsClosed == \A c \in Conns : pc[c] = "done" => link[c] # "open"

UrlInv == SystemInv /\ ConnectionIsOwn /\ ShownIsWelcomed /\ DoneIsClosed

LEMMA UrlInitInv == SystemInit => UrlInv
BY SystemInitInv
   DEF SystemInit, Init, UrlInv, ConnectionIsOwn, ShownIsWelcomed, DoneIsClosed, Connected

\* Only the close of a connection makes its handler return, and a connection
\* that was closed is not opened again.
LEMMA HandlerCloses ==
    ASSUME TypeOK, DoneIsClosed, NEW x \in Conns, ConnectionStep(x)
    PROVE  DoneIsClosed'
<1> USE DEF TypeOK, DoneIsClosed, Goto, Refuse, Closed, Links, CloseCodes
<1>1. CASE \/ Accept(x) \/ ControlStream(x) \/ Hello(x) \/ Authenticate(x) \/ Reserve(x)
           \/ Register(x) \/ SendWelcome(x) \/ WelcomeFails(x) \/ SessionEnds(x)
           \/ Unregister(x)
    <2>1. \E step \in Steps \ {"done"} : pc' = [pc EXCEPT ![x] = step]
        BY <1>1 DEF Accept, ControlStream, Hello, Authenticate, Reserve, Register,
                    SendWelcome, WelcomeFails, SessionEnds, Unregister, Steps
    <2>2. link' = link \/ (pc[x] = "new" /\ link' = [link EXCEPT ![x] = "open"])
        BY <1>1 DEF Accept, ControlStream, Hello, Authenticate, Reserve, Register,
                    SendWelcome, WelcomeFails, SessionEnds, Unregister
    <2>3. QED BY <2>1, <2>2
<1>2. CASE \/ NoControlStream(x) \/ BadHello(x) \/ AuthenticationFails(x) \/ ReserveFails(x)
           \/ CloseSession(x)
    <2>1. pc' = [pc EXCEPT ![x] = "done"]
          /\ \E code \in CloseCodes : link' = Closed(x, code)
        BY <1>2 DEF NoControlStream, BadHello, AuthenticationFails, ReserveFails, CloseSession
    <2>2. QED BY <2>1
<1>3. CASE ClosePrevious(x) BY <1>3 DEF ClosePrevious
<1>4. CASE HeartbeatFails(x) BY <1>4 DEF HeartbeatFails
<1>5. CASE ConnectionLost(x) BY <1>5 DEF ConnectionLost
<1>6. QED BY <1>1, <1>2, <1>3, <1>4, <1>5 DEF ConnectionStep, HandlerStep

LEMMA DoneStaysClosed ==
    ASSUME TypeOK, DoneIsClosed, [Next]_vars
    PROVE  DoneIsClosed'
<1> USE DEF DoneIsClosed
<1>1. ASSUME NEW x \in Conns, ConnectionStep(x) PROVE DoneIsClosed'
    BY <1>1, HandlerCloses
<1>2. CASE AdminStep
    <2>1. \A c \in Conns : link'[c] = "open" => link[c] = "open"
        BY <1>2, DisconnectFrame
    <2>2. QED BY <1>2, <2>1, AdminFrame
<1>3. CASE ProcessStep BY <1>3, ProcessFrame DEF connVars
<1>4. CASE Exit BY <1>4 DEF Exit, TypeOK
<1>5. CASE UNCHANGED vars BY <1>5 DEF vars, connVars
<1>6. QED BY <1>1, <1>2, <1>3, <1>4, <1>5, NextCases

\* What the steps of the relay leave to the clients.
LEMMA ServerKeepsOwn ==
    ASSUME UrlInv, [Next]_vars, UNCHANGED clientVars
    PROVE  ConnectionIsOwn' /\ ShownIsWelcomed'
<1>1. ASSUME NEW k \in Clients, at[k] \in Connected PROVE pc'[conn[k]] # "new"
    BY <1>1, NewNoMore
       DEF UrlInv, SystemInv, IInv, ClientTypeOK, ConnectionIsOwn, Connected
<1>2. ASSUME NEW k \in Clients, at[k] = "ready" PROVE told'[conn[k]] = "ok"
    BY <1>2, ToldStays DEF UrlInv, SystemInv, ClientTypeOK, ShownIsWelcomed
<1>3. QED BY <1>1, <1>2 DEF UrlInv, ConnectionIsOwn, ShownIsWelcomed, clientVars

\* A client connects over a connection that nobody has dialled before.
LEMMA ClientKeepsOwn ==
    ASSUME UrlInv, NEW k \in Clients, ClientStep(k)
    PROVE  ConnectionIsOwn' /\ ShownIsWelcomed'
<1> USE DEF UrlInv, SystemInv, IInv, TypeOK, ClientTypeOK, ClientSteps, ConnectionIsOwn,
            ShownIsWelcomed, WelcomesRead, Connected, Go
<1>1. CASE Dial(k)
    <2>1. PICK c \in Conns : /\ Accept(c)
                             /\ conn' = [conn EXCEPT ![k] = c]
                             /\ dialler' = [dialler EXCEPT ![c] = flags[k]]
        BY <1>1 DEF Dial
    <2>2. /\ pc[c] = "new" /\ pc' = [pc EXCEPT ![c] = "control"] /\ UNCHANGED told
          /\ at' = [at EXCEPT ![k] = "hello"] /\ UNCHANGED flags
        BY <1>1, <2>1 DEF Accept, Goto, Dial
    <2>3. ASSUME NEW j \in Clients, j # k, at[j] \in Connected PROVE conn[j] # c
        BY <2>2, <2>3
    <2>4. QED BY <2>1, <2>2, <2>3
<1>2. CASE ~Dial(k)
    <2>1. UNCHANGED <<pc, told, dialler>>
        BY <1>2 DEF ClientStep, Start, Stop, Breaks, SendHello, ReadWelcome,
                    ReadRejection, SaveDomain, Retry, vars, connVars
    <2>2. \A j \in Clients :
              /\ at'[j] \in Connected =>
                     at[j] \in Connected /\ conn'[j] = conn[j] /\ flags'[j] = flags[j]
              /\ at'[j] = "ready" => at[j] \in {"save", "ready"}
        BY <1>2 DEF ClientStep, Start, Stop, Breaks, SendHello, ReadWelcome,
                    ReadRejection, SaveDomain, Retry
    <2>3. QED BY <2>1, <2>2
<1>3. QED BY <1>1, <1>2

LEMMA UrlStep ==
    ASSUME UrlInv, [SystemNext]_allVars
    PROVE  UrlInv'
<1>1. SystemInv' BY SystemStep DEF UrlInv
<1>2. [Next]_vars BY ServerOfStep
<1>3. DoneIsClosed' BY <1>2, DoneStaysClosed DEF UrlInv, SystemInv, IInv
<1>4. CASE \E k \in Clients : ClientStep(k)
    BY <1>1, <1>3, <1>4, ClientKeepsOwn DEF UrlInv
<1>5. CASE UNCHANGED clientVars
    BY <1>1, <1>2, <1>3, <1>5, ServerKeepsOwn DEF UrlInv
<1>6. QED BY <1>4, <1>5 DEF SystemNext, allVars

LEMMA UrlInvServed == UrlInv => ShownUrlIsServed
<1> SUFFICES ASSUME UrlInv, NEW k \in Clients, at[k] \in {"save", "ready"},
                    link[conn[k]] = "open"
             PROVE  /\ owner[domain[conn[k]]] = flags[k].token
                    /\ \/ sessions[domain[conn[k]]] = conn[k]
                       \/ pc[conn[k]] \in {"unregister", "close"}
                       \/ \E p \in Conns : Displacing(p, conn[k])
    BY DEF ShownUrlIsServed
<1>1. conn[k] \in Conns /\ told[conn[k]] = "ok" /\ dialler[conn[k]] = flags[k]
    BY DEF UrlInv, SystemInv, ClientTypeOK, WelcomesRead, ConnectionIsOwn,
           ShownIsWelcomed, Connected
<1>2. owner[domain[conn[k]]] = flags[k].token BY <1>1, WelcomedName DEF UrlInv
<1>3. pc[conn[k]] \in Past BY <1>1 DEF UrlInv, SystemInv, IInv, HandlersHoldNames
<1>4. pc[conn[k]] # "done" BY <1>1 DEF UrlInv, DoneIsClosed
<1>5. CASE pc[conn[k]] \in {"replace", "welcome", "serve"}
    BY <1>1, <1>2, <1>5 DEF UrlInv, SystemInv, IInv, NoOrphanedTunnel
<1>6. QED BY <1>2, <1>3, <1>4, <1>5 DEF Past, Online

\* The public URL that a connected client shows is reserved for the token it was
\* started with and served by this client, or the relay is about to close its
\* connection: for any number of clients with any flags.
THEOREM ShownUrlsAreServed == SystemSpec => []ShownUrlIsServed
BY UrlInitInv, UrlStep, UrlInvServed, PTL DEF SystemSpec
-----------------------------------------------------------------------------
(* The public URL stays with the machine.                                  *)

\* What was shown was reserved by a token that the machine uses.
ShownIsOurs ==
    \A k \in Clients : shown[k] # Nothing => \E f \in Flags : owner[shown[k]] = f.token

LEMMA ShownStaysOurs ==
    ASSUME SystemInv, ShownIsOurs, [Next]_vars, UNCHANGED shown
    PROVE  ShownIsOurs'
<1> SUFFICES ASSUME NEW k \in Clients, shown[k] # Nothing
             PROVE  \E f \in Flags : owner'[shown[k]] = f.token
    BY DEF ShownIsOurs
<1>1. shown[k] \in Domains BY DEF SystemInv, ClientTypeOK
<1>2. PICK f \in Flags : owner[shown[k]] = f.token BY DEF ShownIsOurs
<1>3. owner[shown[k]] # NoToken BY <1>2, ClientAssumption, ConstantsAssumption
<1>4. owner'[shown[k]] = owner[shown[k]]
    BY <1>1, <1>3, OwnerStays DEF SystemInv, IInv
<1>5. QED BY <1>2, <1>4

LEMMA ShownIsOursStep ==
    ASSUME SystemInv, ShownIsOurs, [SystemNext]_allVars
    PROVE  ShownIsOurs'
<1>1. [Next]_vars BY ServerOfStep
<1>2. ASSUME NEW k \in Clients, SaveDomain(k) PROVE ShownIsOurs'
    <2>1. /\ at[k] = "save" /\ owner' = owner
          /\ shown' = [shown EXCEPT ![k] = IF flags[k].domain = Unnamed
                                              THEN domain[conn[k]] ELSE @]
        BY <1>2 DEF SaveDomain, Shows, vars, storeVars
    <2>2. dialler[conn[k]] \in Flags /\ owner[domain[conn[k]]] = dialler[conn[k]].token
        BY <2>1, NameToSave
    <2>3. QED BY <2>1, <2>2 DEF ShownIsOurs, SystemInv, ClientTypeOK
<1>3. CASE ~ \E k \in Clients : SaveDomain(k)
    <2>1. UNCHANGED shown
        BY <1>3 DEF SystemNext, ClientStep, Start, Stop, Dial, Breaks, SendHello,
                    ReadWelcome, ReadRejection, Retry, allVars, clientVars
    <2>2. QED BY <1>1, <2>1, ShownStaysOurs
<1>4. QED BY <1>2, <1>3

\* A public URL that was printed on the machine is reserved for one of its tokens
\* ever after, and requests for it reach tunnels of that token only: for any
\* clients, connections and requests, over kills, restarts and lost messages.
THEOREM ShownUrlsArePrivate == SystemSpec => []ShownUrlIsPrivate
<1>1. SystemInit => ShownIsOurs BY DEF SystemInit, ShownIsOurs
<1>2. SystemInv /\ ShownIsOurs /\ [SystemNext]_allVars => ShownIsOurs'
    BY ShownIsOursStep
<1>3. SystemInv /\ ShownIsOurs => ShownUrlIsPrivate
    BY DEF SystemInv, IInv, RoutedToOwner, ShownIsOurs, ShownUrlIsPrivate
<1>4. QED BY <1>1, <1>2, <1>3, SystemKeepsInv, PTL DEF SystemSpec
=============================================================================
