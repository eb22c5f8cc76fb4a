------------------------- MODULE RelayServiceProofs -------------------------
(***************************************************************************)
(* What the abstract service of the relay is worth: its promises follow    *)
(* from its actions, for any tokens, names and requests.  A relay that     *)
(* implements it keeps them.                                               *)
(***************************************************************************)
EXTENDS RelayService, TLAPS

\* The functions of the service, so far as the promises need them.
ServiceTypes ==
    /\ owner \in [Domains -> Tokens \cup {NoToken}]
    /\ DOMAIN serving = Domains
    /\ DOMAIN fate = Requests /\ DOMAIN asked = Requests /\ DOMAIN server = Requests
    /\ \A q \in Requests : fate[q] # "waiting" => asked[q] \in Domains

ServiceInv == ServiceTypes /\ OnlyOwnersServe /\ HandedToOwner

LEMMA ServiceStarts == Init => ServiceInv
BY DEF Init, ServiceInv, ServiceTypes, OnlyOwnersServe, HandedToOwner

LEMMA ServiceGoesOn ==
    ASSUME ServiceInv, [Next]_vars
    PROVE  ServiceInv'
<1> USE DEF ServiceInv, ServiceTypes, OnlyOwnersServe, HandedToOwner, requests
<1>1. ASSUME NEW d \in Domains, NEW t \in Tokens, Claim(d, t) PROVE ServiceInv'
    BY <1>1 DEF Claim
<1>2. ASSUME NEW d \in Domains, ComeOnline(d) \/ GoOffline(d) PROVE ServiceInv'
    BY <1>2 DEF ComeOnline, GoOffline
<1>3. ASSUME NEW q \in Requests, NEW d \in Domains, Assign(q, d) PROVE ServiceInv'
    BY <1>3 DEF Assign
<1>4. ASSUME NEW q \in Requests, Answer(q) PROVE ServiceInv'
    BY <1>4 DEF Answer
<1>5. CASE Stop BY <1>5 DEF Stop
<1>6. CASE UNCHANGED vars BY <1>6 DEF vars
<1>7. QED BY <1>1, <1>2, <1>3, <1>4, <1>5, <1>6 DEF Next

\* Only the owner of a name serves it, and requests go to the owner.
THEOREM ServiceIsOwners == Spec => [](OnlyOwnersServe /\ HandedToOwner)
<1>1. ServiceInv => OnlyOwnersServe /\ HandedToOwner BY DEF ServiceInv
<1>2. QED BY ServiceStarts, ServiceGoesOn, <1>1, PTL DEF Spec

\* No action of the service takes a name from its owner.
THEOREM ServiceNamesStay == Spec => NamesStayOwned
<1> DEFINE Stay == \A d \in Domains : owner[d] # NoToken => owner'[d] = owner[d]
<1>1. ServiceInv /\ [Next]_vars => [Stay]_vars
    <2> SUFFICES ASSUME ServiceInv, Next PROVE Stay OBVIOUS
    <2>1. ASSUME NEW d \in Domains, NEW t \in Tokens, Claim(d, t) PROVE Stay
        BY <2>1 DEF Claim, ServiceInv, ServiceTypes
    <2>2. CASE UNCHANGED owner BY <2>2
    <2>3. QED BY <2>1, <2>2 DEF Next, ComeOnline, GoOffline, Assign, Answer, Stop
<1>2. QED BY ServiceStarts, ServiceGoesOn, <1>1, PTL DEF Spec, NamesStayOwned

\* No request is decided twice.
THEOREM ServiceFateIsFinal == Spec => FateIsFinal
<1> DEFINE Final ==
        \A q \in Requests : fate[q] \in {"forwarded", "refused"} =>
            fate'[q] = fate[q] /\ asked'[q] = asked[q] /\ server'[q] = server[q]
<1>1. ServiceInv /\ [Next]_vars => [Final]_vars
    <2> SUFFICES ASSUME ServiceInv, Next PROVE Final OBVIOUS
    <2>1. ASSUME NEW q \in Requests, NEW d \in Domains, Assign(q, d) PROVE Final
        BY <2>1 DEF Assign, ServiceInv, ServiceTypes
    <2>2. ASSUME NEW q \in Requests, Answer(q) PROVE Final
        BY <2>2 DEF Answer, ServiceInv, ServiceTypes
    <2>3. CASE Stop BY <2>3 DEF Stop
    <2>4. CASE UNCHANGED requests BY <2>4 DEF requests
    <2>5. QED BY <2>1, <2>2, <2>3, <2>4 DEF Next, Claim, ComeOnline, GoOffline
<1>2. QED BY ServiceStarts, ServiceGoesOn, <1>1, PTL DEF Spec, FateIsFinal
=============================================================================
