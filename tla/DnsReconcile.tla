---------------------------- MODULE DnsReconcile ----------------------------
(***************************************************************************)
(* ReconcileDNS (internal/server/admin.go, internal/dns/cloudflare.go): a  *)
(* call reads the saved configuration, then, for the wildcard and for the  *)
(* relay name, lists the records at the provider and creates or updates    *)
(* one.  Calls overlap with one another, with SetDNS and with whoever else *)
(* edits the zone; each request may fail, and one that failed for the      *)
(* caller may take effect before or after.                                 *)
(*                                                                         *)
(* A record is what the calls tell apart: its name, type, address and      *)
(* whether its comment is managedComment.  The zone is taken as found and  *)
(* the configuration as valid; a failure of these checks is one of Fails.  *)
(***************************************************************************)
EXTENDS Naturals, FiniteSets

CONSTANTS
    Calls,    \* calls of ReconcileDNS
    Ids,      \* records that the provider may come to hold
    Targets,  \* addresses
    TypeOf,   \* TypeOf[t]: "A" or "AAAA"
    Manual,   \* the provider "manual": no target
    Elsewhere \* the address that others give to records

ASSUME DnsAssumption ==
    /\ IsFiniteSet(Ids)
    /\ Manual \notin Targets /\ Elsewhere \notin Targets
    /\ TypeOf \in [Targets -> {"A", "AAAA"}]

VARIABLES
    config,   \* dns_config: the target, or Manual
    record,   \* record[i]: the record with this id at the provider, or Free
    step,     \* step[c]: the step of the call
    name,     \* name[c]: the name it is at
    target,   \* target[c]: the configuration it has read
    found,    \* found[c]: the ids that its last listing returned
              \* and, for the properties only:
    touched,  \* touched[c]: the ids that others have written since that listing
    alone,    \* alone[c]: whether nobody else has written since the call began
    overlap   \* whether calls have ever overlapped

vars == <<config, record, step, name, target, found, touched, alone, overlap>>

Names == {"wildcard", "relay"}
Free == [owner |-> "none"]
Types == {TypeOf[t] : t \in Targets}
Foreign == [owner : {"other"}, name : Names, type : Types, target : {Elsewhere}]
Records == Foreign \cup [owner : {"tunnl"}, name : Names, type : Types, target : Targets \cup {Elsewhere}]
Writing == {"write", "late"}
Active == {"list"} \cup Writing

Managed(n, t) == [owner |-> "tunnl", name |-> n, type |-> TypeOf[t], target |-> t]

\* What a listing by name and type returns.
Listed(n, type) == {i \in Ids : record[i] # Free /\ record[i].name = n /\ record[i].type = type}

Init ==
    /\ config = Manual
    /\ record \in [Ids -> {Free} \cup Foreign]
    /\ step = [c \in Calls |-> "new"]
    /\ name = [c \in Calls |-> "wildcard"]
    /\ target = [c \in Calls |-> Manual]
    /\ found = [c \in Calls |-> {}]
    /\ touched = [c \in Calls |-> {}]
    /\ alone = [c \in Calls |-> TRUE]
    /\ overlap = FALSE

Goto(c, s) == step' = [step EXCEPT ![c] = s]

-----------------------------------------------------------------------------
(* The server.                                                             *)

SetDNS(t) ==
    /\ config' = t
    /\ UNCHANGED <<record, step, name, target, found, touched, alone, overlap>>

\* Faulty variant, for the sensitivity of the properties: the provider is not checked.
ReconcileUnselected(c) ==
    /\ step[c] = "new"
    /\ target' = [target EXCEPT ![c] = config]
    /\ Goto(c, "list")
    /\ alone' = [alone EXCEPT ![c] = \A b \in Calls : step[b] \notin Active]
    /\ overlap' = (overlap \/ \E b \in Calls : step[b] \in Active)
    /\ UNCHANGED <<config, record, name, found, touched>>

\* "Cloudflare must be selected", or Reconcile begins.
ReconcileDNS(c) ==
    /\ step[c] = "new"
    /\ target' = [target EXCEPT ![c] = config]
    /\ Goto(c, IF config = Manual THEN "failed" ELSE "list")
    /\ alone' = [alone EXCEPT ![c] = \A b \in Calls : step[b] \notin Active]
    /\ overlap' = (overlap \/ \E b \in Calls : step[b] \in Active)
    /\ UNCHANGED <<config, record, name, found, touched>>

\* Faulty variant, for the sensitivity of the properties: the comment is not looked at.
ListUnowned(c) ==
    /\ step[c] = "list"
    /\ LET ids == Listed(name[c], TypeOf[target[c]])
       IN  /\ Goto(c, IF Cardinality(ids) <= 1 THEN "write" ELSE "failed")
           /\ found' = [found EXCEPT ![c] = IF Cardinality(ids) <= 1 THEN ids ELSE {}]
    /\ UNCHANGED <<config, record, name, target, touched, alone, overlap>>

\* The first half of upsertRecord: several records, or one without the comment,
\* are refused.
List(c) ==
    /\ step[c] = "list"
    /\ LET ids == Listed(name[c], TypeOf[target[c]])
           accepted == Cardinality(ids) <= 1 /\ \A i \in ids : record[i].owner = "tunnl"
       IN  /\ Goto(c, IF accepted THEN "write" ELSE "failed")
           /\ found' = [found EXCEPT ![c] = IF accepted THEN ids ELSE {}]
    /\ UNCHANGED <<config, record, name, target, touched, alone, overlap>>

\* At the provider: an id is not given again, so one that a call still holds is not free.
Unused(i) == record[i] = Free /\ \A c \in Calls : i \notin found[c]

\* Faulty variant, for the sensitivity of the properties: POST also where a record was found.
PostsAlways(c, i) == Unused(i)

\* PUT overwrites the record with this id if it still exists; POST creates one.
Puts(c, i) == found[c] = {i} /\ record[i] # Free
Posts(c, i) == found[c] = {} /\ Unused(i)

\* For the properties: the writers, a call or nobody of the relay, write record i.
Recorded(i, writers) ==
    /\ touched' = [b \in Calls |-> IF step[b] \in Writing /\ b \notin writers
                                   THEN touched[b] \cup {i} ELSE {}]
    /\ alone' = [b \in Calls |-> alone[b] /\ b \in writers]

Takes(c) ==
    \E i \in Ids :
        /\ Puts(c, i) \/ Posts(c, i)
        /\ record' = [record EXCEPT ![i] = Managed(name[c], target[c])]
        /\ found' = [found EXCEPT ![c] = {}]
        /\ Recorded(i, {c})

\* The second half of upsertRecord: the request succeeds, and the next name
\* follows, or the call returns.
Write(c) ==
    /\ step[c] = "write" /\ Takes(c)
    /\ name' = [name EXCEPT ![c] = "relay"]
    /\ Goto(c, IF name[c] = "wildcard" THEN "list" ELSE "ok")
    /\ UNCHANGED <<config, target, overlap>>

\* Faulty variant, for the sensitivity of the properties: the error of the first
\* record does not end the loop.
FailsOn(c) ==
    /\ step[c] \in {"list", "write"}
    /\ name' = [name EXCEPT ![c] = "relay"]
    /\ Goto(c, IF name[c] = "wildcard" THEN "list" ELSE "failed")
    /\ UNCHANGED <<config, record, target, found, touched, alone, overlap>>

\* A request fails without an effect, or one that was given up is lost.
Fails(c) ==
    /\ step[c] \in Active
    /\ Goto(c, "failed")
    /\ found' = [found EXCEPT ![c] = {}]
    /\ touched' = [touched EXCEPT ![c] = {}]
    /\ UNCHANGED <<config, record, name, target, alone, overlap>>

\* The call gives up on its request (20 seconds, or the admin's connection), which
\* is still on its way.
GivesUp(c) ==
    /\ step[c] = "write"
    /\ Goto(c, "late")
    /\ UNCHANGED <<config, record, name, target, found, touched, alone, overlap>>

Lands(c) ==
    /\ step[c] = "late" /\ Takes(c)
    /\ Goto(c, "failed")
    /\ UNCHANGED <<config, name, target, overlap>>

-----------------------------------------------------------------------------
(* Whoever else edits the zone.                                            *)

OtherWrites(i, r) ==
    /\ record[i] # r
    /\ record[i] # Free \/ Unused(i)
    /\ record' = [record EXCEPT ![i] = r]
    /\ Recorded(i, {})
    /\ UNCHANGED <<config, step, name, target, found, overlap>>

\* Somebody changes the address and leaves the comment.
OtherRedirects(i) ==
    /\ record[i] # Free /\ record[i].target # Elsewhere
    /\ record' = [record EXCEPT ![i].target = Elsewhere]
    /\ Recorded(i, {})
    /\ UNCHANGED <<config, step, name, target, found, overlap>>

CallStep(c) ==
    ReconcileDNS(c) \/ List(c) \/ Write(c) \/ Fails(c) \/ GivesUp(c) \/ Lands(c)

Next ==
    \/ \E t \in Targets \cup {Manual} : SetDNS(t)
    \/ \E c \in Calls : CallStep(c)
    \/ \E i \in Ids, r \in {Free} \cup Foreign : OtherWrites(i, r)
    \/ \E i \in Ids : OtherRedirects(i)

Spec == Init /\ [][Next]_vars

-----------------------------------------------------------------------------
TypeOK ==
    /\ config \in Targets \cup {Manual}
    /\ record \in [Ids -> {Free} \cup Records]
    /\ step \in [Calls -> {"new", "failed", "ok"} \cup Active]
    /\ name \in [Calls -> Names]
    /\ target \in [Calls -> Targets \cup {Manual}]
    /\ \A c \in Calls : step[c] \in Active => target[c] \in Targets
    /\ found \in [Calls -> SUBSET Ids] /\ touched \in [Calls -> SUBSET Ids]
    /\ alone \in [Calls -> BOOLEAN] /\ overlap \in BOOLEAN

\* README: "tunnl marks its records and refuses to overwrite records it does not
\* own." The comment is read in one request and the record overwritten in another
\* (cloudflare.go:96, 115), so that what somebody edits in between is overwritten.
OthersRecordsKept ==
    [][\A i \in Ids :
        record[i] # Free /\ record[i].owner = "other" => record'[i].owner # "tunnl"]_vars

\* What is left of it: no call overwrites a record of somebody else unless its own
\* listing found that record with the comment, and it was edited after this listing.
\* A record that was unmanaged when it was listed, or that appeared since, stays.
OverwritesOnlyTheEdited ==
    [][\A i \in Ids :
        record[i] # Free /\ record[i].owner = "other" /\ record'[i].owner = "tunnl"
            => \E c \in Calls :
                 step[c] \in Writing /\ found[c] = {i} /\ i \in touched[c]]_vars

\* "Cloudflare DNS records reconciled": a call that succeeds and was alone has left
\* one record of its type for each of the two names, with its target.
SuccessPointsBoth ==
    [][\A c \in Calls : step[c] # "ok" /\ step'[c] = "ok" /\ alone[c] =>
        \A n \in Names : \E i \in Ids :
            /\ Listed(n, TypeOf[target[c]])' = {i}
            /\ record'[i] = Managed(n, target[c])]_vars

\* Calls that do not overlap never create a second record for a name and type,
\* which every later call would refuse ("multiple records already exist"), also
\* when one fails in the middle and another repeats it. A call overlaps as long as
\* a request of it is on its way, given up or not.
NoSecondRecord ==
    \A i, j \in Ids :
        /\ i # j /\ record[i] # Free /\ record[j] # Free
        /\ record[i].owner = "tunnl" /\ record[j].owner = "tunnl"
        /\ record[i].name = record[j].name /\ record[i].type = record[j].type
        => overlap
=============================================================================
