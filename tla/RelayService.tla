---------------------------- MODULE RelayService ----------------------------
(***************************************************************************)
(* What the relay promises about names, without connections, handlers or   *)
(* locks: a name belongs for ever to the token that first reserved it,     *)
(* only its owner serves it, and a request for it is handed to its owner   *)
(* or refused.  TunnelServer implements this specification.                *)
(***************************************************************************)
CONSTANTS Tokens, Domains, Requests, NoToken, Unnamed

VARIABLES
    owner,    \* owner[d]: the token that holds the reservation of d
    serving,  \* serving[d]: the token whose tunnel is online for d
    fate,     \* fate[q]: what became of request q
    asked,    \* asked[q]: the name it was for
    server    \* server[q]: the token it was assigned to

requests == <<fate, asked, server>>
vars == <<owner, serving, requests>>

Init ==
    /\ owner = [d \in Domains |-> NoToken]
    /\ serving = [d \in Domains |-> NoToken]
    /\ fate = [q \in Requests |-> "waiting"]
    /\ asked = [q \in Requests |-> Unnamed]
    /\ server = [q \in Requests |-> NoToken]

\* The first reservation of a name. There is no action that takes it away.
Claim(d, t) ==
    /\ owner[d] = NoToken
    /\ owner' = [owner EXCEPT ![d] = t]
    /\ UNCHANGED <<serving, requests>>

\* The owner's tunnel comes online. That another tunnel of the same owner takes
\* over is not visible here: the name stays online.
ComeOnline(d) ==
    /\ owner[d] # NoToken
    /\ serving[d] = NoToken
    /\ serving' = [serving EXCEPT ![d] = owner[d]]
    /\ UNCHANGED <<owner, requests>>

GoOffline(d) ==
    /\ serving[d] # NoToken
    /\ serving' = [serving EXCEPT ![d] = NoToken]
    /\ UNCHANGED <<owner, requests>>

\* A request is given to whoever serves its name now, ...
Assign(q, d) ==
    /\ fate[q] = "waiting"
    /\ fate' = [fate EXCEPT ![q] = IF serving[d] = NoToken THEN "refused" ELSE "assigned"]
    /\ asked' = [asked EXCEPT ![q] = d]
    /\ server' = [server EXCEPT ![q] = serving[d]]
    /\ UNCHANGED <<owner, serving>>

\* ... who answers it, or has gone meanwhile.
Answer(q) ==
    /\ fate[q] = "assigned"
    /\ \E f \in {"forwarded", "refused"} : fate' = [fate EXCEPT ![q] = f]
    /\ UNCHANGED <<owner, serving, asked, server>>

\* The relay stops: every name goes offline at once, every request that was
\* assigned is refused, the reservations stay.
Stop ==
    /\ serving' = [d \in Domains |-> NoToken]
    /\ fate' = [q \in Requests |-> IF fate[q] = "assigned" THEN "refused" ELSE fate[q]]
    /\ UNCHANGED <<owner, asked, server>>

Next ==
    \/ \E d \in Domains : \/ \E t \in Tokens : Claim(d, t)
                          \/ ComeOnline(d) \/ GoOffline(d)
    \/ \E q \in Requests : \/ \E d \in Domains : Assign(q, d)
                           \/ Answer(q)
    \/ Stop

Spec == Init /\ [][Next]_vars

-----------------------------------------------------------------------------
\* What users rely on.

\* A name is served by the token that owns it, or by nobody.
OnlyOwnersServe == \A d \in Domains : serving[d] \in {NoToken, owner[d]}

\* A request was handed to the token that owns the name it asked for, and the
\* reservation of that name has not moved since.
HandedToOwner ==
    \A q \in Requests :
        fate[q] \in {"assigned", "forwarded"} =>
            server[q] # NoToken /\ server[q] = owner[asked[q]]

\* A reservation is for ever: no reconnect, revocation or restart moves a name
\* to another token.
NamesStayOwned ==
    [][\A d \in Domains : owner[d] # NoToken => owner'[d] = owner[d]]_vars

\* A request is forwarded or refused once, to one tunnel, for one name.
FateIsFinal ==
    [][\A q \in Requests : fate[q] \in {"forwarded", "refused"} =>
        fate'[q] = fate[q] /\ asked'[q] = asked[q] /\ server'[q] = server[q]]_vars
=============================================================================
