------------------------- MODULE DnsReconcileProofs -------------------------
(***************************************************************************)
(* For any number of calls, records and targets: the variables of          *)
(* DnsReconcile keep their types, a record of somebody else is overwritten *)
(* only if it was written after the listing, and calls that do not overlap *)
(* leave one record for a name and type.                                   *)
(***************************************************************************)
EXTENDS DnsReconcile, FiniteSetTheorems, TLAPS

\* What the calls rely on when they write: a record they have found is gone, is
\* theirs, or was written by somebody else since.
FoundIsOursOrTouched ==
    \A c \in Calls : step[c] \in Writing =>
        \A i \in found[c] :
            record[i] = Free \/ record[i].owner = "tunnl" \/ i \in touched[c]

DnsInv == TypeOK /\ FoundIsOursOrTouched

\* A record has an owner, and a free place has none of the two.
LEMMA Owners ==
    /\ Free.owner = "none"
    /\ \A r \in Foreign : r # Free /\ r.owner = "other" /\ r.name \in Names
                             /\ r.type \in Types /\ r.target = Elsewhere
    /\ \A r \in Records : r # Free /\ r.owner \in {"other", "tunnl"}
    /\ \A n \in Names, t \in Targets :
          Managed(n, t) \in Records /\ Managed(n, t).owner = "tunnl"
<1>1. \A r \in Foreign : r.owner = "other" /\ r.name \in Names
                             /\ r.type \in Types /\ r.target = Elsewhere
  BY DEF Foreign
<1>2. \A r \in Records : r.owner \in {"other", "tunnl"}
  BY DEF Records, Foreign
<1>3. Free.owner = "none"
  BY DEF Free
<1>4. \A n \in Names, t \in Targets :
          Managed(n, t) \in Records /\ Managed(n, t).owner = "tunnl"
  BY DEF Managed, Records, Types
<1> QED
  BY <1>1, <1>2, <1>3, <1>4

\* A redirected record is still a record, of the same owner, name and type.
LEMMA Redirected ==
    ASSUME NEW r \in Records
    PROVE  /\ [r EXCEPT !.target = Elsewhere] \in Records
           /\ [r EXCEPT !.target = Elsewhere].owner = r.owner
           /\ [r EXCEPT !.target = Elsewhere].name = r.name
           /\ [r EXCEPT !.target = Elsewhere].type = r.type
<1>1. CASE r \in Foreign
  BY <1>1 DEF Records, Foreign
<1>2. CASE r \notin Foreign
  BY <1>2 DEF Records
<1> QED
  BY <1>1, <1>2

LEMMA InitDns == Init => DnsInv
<1> SUFFICES ASSUME Init PROVE DnsInv
  OBVIOUS
<1>1. record \in [Ids -> {Free} \cup Records]
  BY DEF Init, Records
<1>2. \A c \in Calls : step[c] \notin Active /\ step[c] \notin Writing
  BY DEF Init, Active, Writing
<1>3. TypeOK
  BY <1>1, <1>2 DEF Init, TypeOK, Names
<1> QED
  BY <1>2, <1>3 DEF DnsInv, FoundIsOursOrTouched

-----------------------------------------------------------------------------
(* A write of a call.                                                      *)

LEMMA TakesTyped ==
    ASSUME TypeOK, NEW c \in Calls, step[c] \in Writing, Takes(c)
    PROVE  /\ record' \in [Ids -> {Free} \cup Records]
           /\ found' \in [Calls -> SUBSET Ids]
           /\ touched' \in [Calls -> SUBSET Ids]
           /\ alone' \in [Calls -> BOOLEAN]
<1>1. PICK i \in Ids :
          /\ record' = [record EXCEPT ![i] = Managed(name[c], target[c])]
          /\ found' = [found EXCEPT ![c] = {}]
          /\ Recorded(i, {c})
  BY DEF Takes
<1>2. Managed(name[c], target[c]) \in Records
  BY Owners DEF TypeOK, Active
<1> QED
  BY <1>1, <1>2 DEF TypeOK, Recorded

LEMMA TakesKeeps ==
    ASSUME DnsInv, NEW c \in Calls, step[c] \in Writing, Takes(c),
           step'[c] \notin Writing,
           \A b \in Calls \ {c} : step'[b] = step[b]
    PROVE  FoundIsOursOrTouched'
<1>1. PICK i \in Ids :
          /\ record' = [record EXCEPT ![i] = Managed(name[c], target[c])]
          /\ found' = [found EXCEPT ![c] = {}]
          /\ Recorded(i, {c})
  BY DEF Takes
<1>2. Managed(name[c], target[c]).owner = "tunnl"
  BY Owners DEF DnsInv, TypeOK, Active
<1>3. ASSUME NEW b \in Calls, step'[b] \in Writing, NEW j \in found'[b]
      PROVE  record'[j] = Free \/ record'[j].owner = "tunnl" \/ j \in touched'[b]
  <2>1. b # c /\ step[b] \in Writing /\ found'[b] = found[b] /\ j \in Ids
    BY <1>1, <1>3 DEF DnsInv, TypeOK
  <2>2. touched'[b] = touched[b] \cup {i}
    BY <1>1, <2>1 DEF Recorded
  <2>3. CASE j = i
    BY <2>2, <2>3
  <2>4. CASE j # i
    BY <1>1, <2>1, <2>2, <2>4 DEF DnsInv, TypeOK, FoundIsOursOrTouched
  <2> QED
    BY <2>3, <2>4
<1> QED
  BY <1>3 DEF FoundIsOursOrTouched
-----------------------------------------------------------------------------
(* The steps of a call, of the operator and of the other writers.          *)

LEMMA CallInv ==
    ASSUME DnsInv, NEW c \in Calls, CallStep(c)
    PROVE  DnsInv'
<1> USE DnsAssumption DEF Goto, Writing, Active
<1>1. CASE ReconcileDNS(c)
  <2>1. TypeOK'
    BY <1>1 DEF DnsInv, TypeOK, ReconcileDNS
  <2>2. FoundIsOursOrTouched'
    BY <1>1 DEF DnsInv, TypeOK, FoundIsOursOrTouched, ReconcileDNS
  <2> QED
    BY <2>1, <2>2 DEF DnsInv
<1>2. CASE List(c)
  <2> DEFINE ids == Listed(name[c], TypeOf[target[c]])
             accepted == Cardinality(ids) <= 1 /\ \A i \in ids : record[i].owner = "tunnl"
  <2>1. /\ step[c] = "list"
        /\ step' = [step EXCEPT ![c] = IF accepted THEN "write" ELSE "failed"]
        /\ found' = [found EXCEPT ![c] = IF accepted THEN ids ELSE {}]
        /\ UNCHANGED <<config, record, name, target, touched, alone, overlap>>
    BY <1>2 DEF List
  <2>2. ids \subseteq Ids
    BY DEF Listed
  <2>3. accepted => \A i \in ids : record[i].owner = "tunnl"
    OBVIOUS
  <2> HIDE DEF ids, accepted
  <2>4. TypeOK'
    BY <2>1, <2>2 DEF DnsInv, TypeOK
  <2>5. FoundIsOursOrTouched'
    BY <2>1, <2>3 DEF DnsInv, TypeOK, FoundIsOursOrTouched
  <2> QED
    BY <2>4, <2>5 DEF DnsInv
<1>3. CASE Write(c)
  <2>1. step[c] \in Writing /\ Takes(c) /\ step'[c] \notin Writing
        /\ \A b \in Calls \ {c} : step'[b] = step[b]
    BY <1>3 DEF Write, DnsInv, TypeOK
  <2>2. TypeOK'
    BY <1>3, <2>1, TakesTyped DEF Write, DnsInv, TypeOK, Names
  <2> QED
    BY <2>1, <2>2, TakesKeeps DEF DnsInv
<1>4. CASE Fails(c)
  <2>1. TypeOK'
    BY <1>4 DEF DnsInv, TypeOK, Fails
  <2>2. FoundIsOursOrTouched'
    BY <1>4 DEF DnsInv, TypeOK, FoundIsOursOrTouched, Fails
  <2> QED
    BY <2>1, <2>2 DEF DnsInv
<1>5. CASE GivesUp(c)
  <2>1. TypeOK'
    BY <1>5 DEF DnsInv, TypeOK, GivesUp
  <2>2. FoundIsOursOrTouched'
    BY <1>5 DEF DnsInv, TypeOK, FoundIsOursOrTouched, GivesUp
  <2> QED
    BY <2>1, <2>2 DEF DnsInv
<1>6. CASE Lands(c)
  <2>1. step[c] \in Writing /\ Takes(c) /\ step'[c] \notin Writing
        /\ \A b \in Calls \ {c} : step'[b] = step[b]
    BY <1>6 DEF Lands, DnsInv, TypeOK
  <2>2. TypeOK'
    BY <1>6, <2>1, TakesTyped DEF Lands, DnsInv, TypeOK
  <2> QED
    BY <2>1, <2>2, TakesKeeps DEF DnsInv
<1> QED
  BY <1>1, <1>2, <1>3, <1>4, <1>5, <1>6 DEF CallStep

LEMMA OtherInv ==
    ASSUME DnsInv, NEW i \in Ids, NEW r \in {Free} \cup Records,
           record' = [record EXCEPT ![i] = r], Recorded(i, {}),
           UNCHANGED <<config, step, name, target, found, overlap>>
    PROVE  DnsInv'
<1>1. TypeOK'
  BY DEF DnsInv, TypeOK, Recorded
<1>2. \A b \in Calls : step[b] \in Writing => touched'[b] = touched[b] \cup {i}
  BY DEF Recorded
<1>3. \A j \in Ids \ {i} : record'[j] = record[j]
  BY DEF DnsInv, TypeOK
<1>4. \A b \in Calls : found[b] \subseteq Ids
  BY DEF DnsInv, TypeOK
<1>5. FoundIsOursOrTouched'
  BY <1>2, <1>3, <1>4 DEF DnsInv, FoundIsOursOrTouched
<1> QED
  BY <1>1, <1>5 DEF DnsInv

LEMMA NextInv == DnsInv /\ [Next]_vars => DnsInv'
<1> SUFFICES ASSUME DnsInv, [Next]_vars PROVE DnsInv'
  OBVIOUS
<1>1. ASSUME NEW t \in Targets \cup {Manual}, SetDNS(t) PROVE DnsInv'
  BY <1>1 DEF SetDNS, DnsInv, TypeOK, FoundIsOursOrTouched
<1>2. ASSUME NEW c \in Calls, CallStep(c) PROVE DnsInv'
  BY <1>2, CallInv
<1>3. ASSUME NEW i \in Ids, NEW r \in {Free} \cup Foreign, OtherWrites(i, r) PROVE DnsInv'
  <2>1. r \in {Free} \cup Records
    BY DEF Records
  <2> QED
    BY <1>3, <2>1, OtherInv DEF OtherWrites
<1>4. ASSUME NEW i \in Ids, OtherRedirects(i) PROVE DnsInv'
  <2> DEFINE r == [record[i] EXCEPT !.target = Elsewhere]
  <2>1. record[i] \in Records
    BY <1>4 DEF OtherRedirects, DnsInv, TypeOK
  <2>2. r \in Records
    BY <2>1, Redirected
  <2>3. record' = [record EXCEPT ![i] = r]
    BY <1>4 DEF OtherRedirects
  <2> QED
    BY <1>4, <2>2, <2>3, OtherInv DEF OtherRedirects
<1>5. CASE UNCHANGED vars
  BY <1>5 DEF vars, DnsInv, TypeOK, FoundIsOursOrTouched
<1> QED
  BY <1>1, <1>2, <1>3, <1>4, <1>5 DEF Next

\* The inductive invariant, for every zone and any number of overlapping calls.
THEOREM DnsInvariance == Spec => []DnsInv
<1> QED
  BY InitDns, NextInv, PTL DEF Spec

\* Every variable of the reconciliation keeps its type.
THEOREM DnsTypeCorrect == Spec => []TypeOK
<1>1. DnsInv => TypeOK
  BY DEF DnsInv
<1> QED
  BY <1>1, DnsInvariance, PTL

-----------------------------------------------------------------------------
(* Records of others.                                                      *)

\* Call c is about to overwrite record i, which it has found and others have edited.
OverwritesEdited(c, i) == step[c] \in Writing /\ found[c] = {i} /\ i \in touched[c]

\* Only the write of a call turns a record of somebody else into one of tunnl, and
\* only one that it has found, and that was edited after the listing.
LEMMA Overwrites ==
    ASSUME DnsInv, NEW c \in Calls, step[c] \in Writing, Takes(c), NEW i \in Ids,
           record[i] # Free, record[i].owner = "other", record'[i].owner = "tunnl"
    PROVE  OverwritesEdited(c, i)
<1>1. PICK j \in Ids :
          /\ Puts(c, j) \/ Posts(c, j)
          /\ record' = [record EXCEPT ![j] = Managed(name[c], target[c])]
  BY DEF Takes
<1>2. i = j
  BY <1>1 DEF DnsInv, TypeOK
<1>3. found[c] = {i}
  BY <1>1, <1>2 DEF Puts, Posts, Unused
<1>4. i \in touched[c]
  BY <1>3 DEF DnsInv, FoundIsOursOrTouched
<1> QED
  BY <1>3, <1>4 DEF OverwritesEdited

LEMMA KeptStep ==
    ASSUME DnsInv, [Next]_vars, NEW i \in Ids,
           record[i] # Free, record[i].owner = "other", record'[i].owner = "tunnl"
    PROVE  \E c \in Calls : OverwritesEdited(c, i)
<1>1. record' # record
  OBVIOUS
<1>2. ASSUME NEW c \in Calls, CallStep(c) PROVE OverwritesEdited(c, i)
  BY <1>1, <1>2, Overwrites
     DEF CallStep, ReconcileDNS, List, Write, Fails, GivesUp, Lands, Writing
<1>3. ASSUME NEW j \in Ids, NEW r \in {Free} \cup Foreign, OtherWrites(j, r) PROVE FALSE
  <2>1. r.owner # "tunnl"
    BY Owners
  <2> QED
    BY <1>3, <2>1 DEF OtherWrites, DnsInv, TypeOK
<1>4. ASSUME NEW j \in Ids, OtherRedirects(j) PROVE FALSE
  <2>1. j = i
    BY <1>4 DEF OtherRedirects, DnsInv, TypeOK
  <2>2. record[i] \in Records
    BY DEF DnsInv, TypeOK
  <2>3. record'[i] = [record[i] EXCEPT !.target = Elsewhere]
    BY <1>4, <2>1 DEF OtherRedirects, DnsInv, TypeOK
  <2> QED
    BY <2>2, <2>3, Redirected
<1> QED
  BY <1>1, <1>2, <1>3, <1>4 DEF Next, vars, SetDNS

\* What the two requests of upsertRecord guarantee of "refuses to overwrite records
\* it does not own": however many calls overlap, fail or take effect late, a record
\* of somebody else is overwritten only by a call whose listing had found it with
\* the comment, and that was edited since.
THEOREM ForeignRecordsKept == Spec => OverwritesOnlyTheEdited
<1>1. DnsInv /\ [Next]_vars =>
        [\A i \in Ids :
            record[i] # Free /\ record[i].owner = "other" /\ record'[i].owner = "tunnl"
                => \E c \in Calls :
                     step[c] \in Writing /\ found[c] = {i} /\ i \in touched[c]]_vars
  BY KeptStep DEF OverwritesEdited
<1> QED
  BY <1>1, DnsInvariance, PTL DEF Spec, OverwritesOnlyTheEdited
-----------------------------------------------------------------------------
(* One record for a name and type.                                         *)

\* Record i is one of tunnl for this name and type.
Ours(i, n, type) ==
    record[i] # Free /\ record[i].owner = "tunnl" /\ record[i].name = n /\ record[i].type = type

\* As long as calls have not overlapped, one call at most is under way, and the only
\* record of tunnl for what it is about to write is the one that it has found.
OneCall == \A b, c \in Calls : step[b] \in Active /\ step[c] \in Active => b = c

FoundAll ==
    \A c \in Calls : step[c] \in Writing =>
        \A i \in Ids : Ours(i, name[c], TypeOf[target[c]]) => i \in found[c]

OneRecord ==
    \A i, j \in Ids : i # j => \A n \in Names, type \in Types : ~(Ours(i, n, type) /\ Ours(j, n, type))

SingleInv == ~overlap => OneCall /\ FoundAll /\ OneRecord

LEMMA SingleInit == Init => SingleInv
<1> SUFFICES ASSUME Init PROVE OneCall /\ FoundAll /\ OneRecord
  BY DEF SingleInv
<1>1. \A c \in Calls : step[c] \notin Active /\ step[c] \notin Writing
  BY DEF Init, Active, Writing
<1>2. \A i \in Ids : record[i] = Free \/ record[i].owner = "other"
  BY Owners DEF Init
<1> QED
  BY <1>1, <1>2 DEF OneCall, FoundAll, OneRecord, Ours

\* A write by the only call: afterwards the record that was written is the only one.
LEMMA SingleTakes ==
    ASSUME DnsInv, OneCall, FoundAll, OneRecord, NEW c \in Calls, step[c] \in Writing,
           Takes(c), step'[c] \notin Writing, \A b \in Calls \ {c} : step'[b] = step[b]
    PROVE  FoundAll' /\ OneRecord'
<1> DEFINE n == name[c]
           type == TypeOf[target[c]]
<1>1. PICK i \in Ids :
          /\ Puts(c, i) \/ Posts(c, i)
          /\ record' = [record EXCEPT ![i] = Managed(n, target[c])]
  BY DEF Takes
<1>2. \A j \in Ids \ {i} : ~Ours(j, n, type) /\ record'[j] = record[j]
  BY <1>1 DEF Puts, Posts, FoundAll, DnsInv, TypeOK
<1>3. \A m \in Names, t \in Types : Ours(i, m, t)' => m = n /\ t = type
  BY <1>1 DEF Ours, Managed, DnsInv, TypeOK
<1>4. \A j \in Ids \ {i}, m \in Names, t \in Types : Ours(j, m, t)' <=> Ours(j, m, t)
  BY <1>2 DEF Ours
<1>5. OneRecord'
  BY <1>2, <1>3, <1>4 DEF OneRecord
<1>6. \A b \in Calls : step'[b] \notin Writing
  BY DEF OneCall, Active
<1> QED
  BY <1>5, <1>6 DEF FoundAll

LEMMA SingleCall ==
    ASSUME DnsInv, SingleInv, NEW c \in Calls, CallStep(c)
    PROVE  SingleInv'
<1> SUFFICES ASSUME ~overlap' PROVE (OneCall /\ FoundAll /\ OneRecord)'
  BY DEF SingleInv
<1>1. ~overlap /\ OneCall /\ FoundAll /\ OneRecord
  <2>1. CASE ReconcileDNS(c)
    BY <2>1, Zenon DEF ReconcileDNS, SingleInv
  <2>2. CASE ~ReconcileDNS(c)
    <3>1. overlap' = overlap
      BY <2>2 DEF CallStep, List, Write, Fails, GivesUp, Lands
    <3> QED
      BY <3>1, Zenon DEF SingleInv
  <2> QED
    BY <2>1, <2>2
<1>2. \A b \in Calls \ {c} : step'[b] = step[b]
  BY DEF CallStep, ReconcileDNS, List, Write, Fails, GivesUp, Lands, Goto, DnsInv, TypeOK
<1>3. CASE ReconcileDNS(c)
  <2>1. \A b \in Calls : step[b] \notin Active
    BY <1>3 DEF ReconcileDNS
  <2>2. step'[c] \notin Writing
    BY <1>3 DEF ReconcileDNS, Goto, Writing, DnsInv, TypeOK
  <2>3. \A b \in Calls : step'[b] \in Active => b = c
    BY <1>2, <2>1
  <2>4. \A b \in Calls : step'[b] \notin Writing
    BY <2>2, <2>3 DEF Active
  <2> QED
    BY <1>1, <1>3, <2>3, <2>4 DEF OneCall, FoundAll, OneRecord, Ours, ReconcileDNS
<1>4. CASE ~ReconcileDNS(c)
  <2>1. step[c] \in Active
    BY <1>4 DEF CallStep, List, Write, Fails, GivesUp, Lands, Active, Writing
  <2>2. OneCall'
    BY <1>1, <1>2, <2>1 DEF OneCall
  <2>3. CASE List(c)
    <3>1. /\ step'[c] \in Writing => found'[c] = Listed(name[c], TypeOf[target[c]])
          /\ UNCHANGED <<record, name, target>>
      BY <2>3 DEF List, Goto, Writing, DnsInv, TypeOK
    <3>2. \A i \in Ids :
              Ours(i, name[c], TypeOf[target[c]]) => i \in Listed(name[c], TypeOf[target[c]])
      BY DEF Ours, Listed
    <3>3. \A b \in Calls : step'[b] \in Writing => b = c
      BY <1>1, <1>2, <2>1 DEF OneCall, Active
    <3> QED
      BY <1>1, <2>2, <3>1, <3>2, <3>3 DEF FoundAll, OneRecord, Ours
  <2>4. CASE Write(c) \/ Lands(c)
    <3>1. step[c] \in Writing /\ Takes(c) /\ step'[c] \notin Writing
      BY <2>4 DEF Write, Lands, Goto, Writing, DnsInv, TypeOK
    <3> QED
      BY <1>1, <1>2, <2>2, <3>1, SingleTakes
  <2>5. CASE Fails(c)
    <3>1. step'[c] \notin Writing /\ UNCHANGED <<record, name, target>>
      BY <2>5 DEF Fails, Goto, Writing, DnsInv, TypeOK
    <3>2. \A b \in Calls : step'[b] \notin Writing
      BY <1>1, <1>2, <2>1, <3>1 DEF OneCall, Active
    <3> QED
      BY <1>1, <2>2, <3>1, <3>2 DEF FoundAll, OneRecord, Ours
  <2>6. CASE GivesUp(c)
    BY <1>1, <1>2, <2>2, <2>6 DEF GivesUp, FoundAll, OneRecord, Ours, Writing
  <2> QED
    BY <1>4, <2>3, <2>4, <2>5, <2>6 DEF CallStep
<1> QED
  BY <1>3, <1>4

LEMMA SingleOther ==
    ASSUME DnsInv, SingleInv, NEW i \in Ids,
           UNCHANGED <<step, name, target, found, overlap>>,
           \A j \in Ids \ {i} : record'[j] = record[j],
           \A n \in Names, type \in Types : Ours(i, n, type)' => Ours(i, n, type)
    PROVE  SingleInv'
<1>1. \A j \in Ids, n \in Names, type \in Types : Ours(j, n, type)' => Ours(j, n, type)
  BY DEF Ours
<1>2. \A c \in Calls : step[c] \in Writing => name[c] \in Names /\ TypeOf[target[c]] \in Types
  BY DEF DnsInv, TypeOK, Active, Types
<1> QED
  BY <1>1, <1>2 DEF SingleInv, OneCall, FoundAll, OneRecord

LEMMA SingleNext == DnsInv /\ SingleInv /\ [Next]_vars => SingleInv'
<1> SUFFICES ASSUME DnsInv, SingleInv, [Next]_vars PROVE SingleInv'
  OBVIOUS
<1>1. ASSUME NEW t \in Targets \cup {Manual}, SetDNS(t) PROVE SingleInv'
  BY <1>1 DEF SetDNS, SingleInv, OneCall, FoundAll, OneRecord, Ours
<1>2. ASSUME NEW c \in Calls, CallStep(c) PROVE SingleInv'
  BY <1>2, SingleCall
<1>3. ASSUME NEW i \in Ids, NEW r \in {Free} \cup Foreign, OtherWrites(i, r) PROVE SingleInv'
  <2>1. r.owner # "tunnl"
    BY Owners
  <2>2. record'[i] = r /\ \A j \in Ids \ {i} : record'[j] = record[j]
    BY <1>3 DEF OtherWrites, DnsInv, TypeOK
  <2>3. \A n \in Names, type \in Types : ~Ours(i, n, type)'
    BY <2>1, <2>2 DEF Ours
  <2> QED
    BY <1>3, <2>2, <2>3, SingleOther DEF OtherWrites
<1>4. ASSUME NEW i \in Ids, OtherRedirects(i) PROVE SingleInv'
  <2>1. record'[i] = [record[i] EXCEPT !.target = Elsewhere]
        /\ \A j \in Ids \ {i} : record'[j] = record[j]
    BY <1>4 DEF OtherRedirects, DnsInv, TypeOK
  <2>2. record[i] # Free /\ record[i] \in Records
    BY <1>4 DEF OtherRedirects, DnsInv, TypeOK
  <2>3. record'[i].owner = record[i].owner /\ record'[i].name = record[i].name
        /\ record'[i].type = record[i].type
    BY <2>1, <2>2, Redirected
  <2>4. \A n \in Names, type \in Types : Ours(i, n, type)' => Ours(i, n, type)
    BY <2>2, <2>3 DEF Ours
  <2> QED
    BY <1>4, <2>1, <2>4, SingleOther DEF OtherRedirects
<1>5. CASE UNCHANGED vars
  BY <1>5 DEF vars, SingleInv, OneCall, FoundAll, OneRecord, Ours
<1> QED
  BY <1>1, <1>2, <1>3, <1>4, <1>5 DEF Next

\* The invariant says what NoSecondRecord says, in terms of names and types.
LEMMA SingleMeans == DnsInv /\ SingleInv => NoSecondRecord
<1> SUFFICES ASSUME DnsInv, SingleInv, ~overlap, NEW i \in Ids, NEW j \in Ids, i # j,
                    record[i] # Free, record[j] # Free,
                    record[i].owner = "tunnl", record[j].owner = "tunnl",
                    record[i].name = record[j].name, record[i].type = record[j].type
             PROVE  FALSE
  BY DEF NoSecondRecord
<1>1. record[i] \in Records
  BY DEF DnsInv, TypeOK
<1>2. record[i].name \in Names /\ record[i].type \in Types
  BY <1>1 DEF Records, Foreign
<1>3. Ours(i, record[i].name, record[i].type) /\ Ours(j, record[i].name, record[i].type)
  BY DEF Ours
<1> QED
  BY <1>2, <1>3 DEF SingleInv, OneRecord

\* Calls of ReconcileDNS that do not overlap never leave two records for one name and
\* type, wherever they fail and however many follow one another.
THEOREM SecondRecordNever == Spec => []NoSecondRecord
<1>1. Init => SingleInv
  BY SingleInit
<1>2. DnsInv /\ SingleInv /\ [Next]_vars => SingleInv'
  BY SingleNext
<1>3. DnsInv /\ SingleInv => NoSecondRecord
  BY SingleMeans
<1> QED
  BY <1>1, <1>2, <1>3, DnsInvariance, PTL DEF Spec

-----------------------------------------------------------------------------
(* Success of a call that nobody has disturbed.                            *)

\* Record i is the only one of its type for name n, and it points to t.
PointsTo(n, t, i) == Listed(n, TypeOf[t]) = {i} /\ record[i] = Managed(n, t)

\* A call that was alone so far knows the one record there is, if any, and has left
\* the wildcard behind as it shall be.
AloneInv ==
    \A c \in Calls :
        /\ step[c] = "new" => name[c] = "wildcard"
        /\ alone[c] /\ step[c] = "write" =>
             /\ found[c] = Listed(name[c], TypeOf[target[c]])
             /\ \A i, j \in found[c] : i = j
        /\ alone[c] /\ step[c] \in {"list", "write"} /\ name[c] = "relay" =>
             \E i \in Ids : PointsTo("wildcard", target[c], i)

LEMMA AloneInit == Init => AloneInv
BY DEF Init, AloneInv

\* A set that a listing accepts.
LEMMA AtMostOne ==
    ASSUME NEW S \in SUBSET Ids, Cardinality(S) <= 1
    PROVE  \A i, j \in S : i = j
<1>1. IsFiniteSet(S)
  BY DnsAssumption, FS_Subset
<1>2. Cardinality(S) = 0 \/ Cardinality(S) = 1
  BY <1>1, FS_CardinalityType
<1>3. S = {} \/ \E x : S = {x}
  BY <1>1, <1>2, FS_EmptySet, FS_Singleton
<1> QED
  BY <1>3

\* What a write leaves of the listings.
LEMMA PointsAfterWrite ==
    ASSUME TypeOK, NEW n \in Names, NEW t \in Targets, NEW i \in Ids,
           record' = [record EXCEPT ![i] = Managed(n, t)],
           Listed(n, TypeOf[t]) \subseteq {i},
           record[i] = Free \/ record[i].name = n
    PROVE  /\ PointsTo(n, t, i)'
           /\ \A m \in Names \ {n} : \A j \in Ids : PointsTo(m, t, j) => PointsTo(m, t, j)'
<1>1. record'[i] = Managed(n, t) /\ \A j \in Ids \ {i} : record'[j] = record[j]
  BY DEF TypeOK
<1>2. /\ Managed(n, t) # Free /\ Managed(n, t).name = n /\ Managed(n, t).type = TypeOf[t]
  BY Owners DEF Managed
<1>3. \A j \in Ids : j \in Listed(n, TypeOf[t])' <=> j = i
  BY <1>1, <1>2 DEF Listed
<1>4. PointsTo(n, t, i)'
  BY <1>1, <1>3 DEF PointsTo, Listed
<1>5. ASSUME NEW m \in Names \ {n}, NEW j \in Ids, PointsTo(m, t, j)
      PROVE  PointsTo(m, t, j)'
  <2>1. \A k \in Ids : k \in Listed(m, TypeOf[t])' <=> k \in Listed(m, TypeOf[t])
    BY <1>1, <1>2 DEF Listed
  <2>2. Listed(m, TypeOf[t])' = Listed(m, TypeOf[t])
    BY <2>1 DEF Listed
  <2>3. i \notin Listed(m, TypeOf[t])
    BY DEF Listed
  <2>4. j \in Listed(m, TypeOf[t])
    BY <1>5 DEF PointsTo
  <2>5. record'[j] = record[j]
    BY <1>1, <2>3, <2>4
  <2> QED
    BY <1>5, <2>2, <2>5 DEF PointsTo
<1> QED
  BY <1>4, <1>5

\* A step that leaves the records, and what a call has found, of all but the one
\* that takes it.
LEMMA AloneFrame ==
    ASSUME UNCHANGED record
    PROVE  /\ \A n, t : Listed(n, t)' = Listed(n, t)
           /\ \A n, t, i : PointsTo(n, t, i)' <=> PointsTo(n, t, i)
BY DEF Listed, PointsTo

\* The write of a call that was alone: the name that it is at points to its target,
\* and so does the wildcard if that was done before.
LEMMA AloneTakes ==
    ASSUME DnsInv, AloneInv, NEW c \in Calls, step[c] = "write", alone[c], Takes(c),
           NEW n, n = name[c], NEW t, t = target[c]
    PROVE  /\ \E i \in Ids : PointsTo(n, t, i)'
           /\ n = "relay" => \E i \in Ids : PointsTo("wildcard", t, i)'
<1>1. PICK i \in Ids :
          /\ Puts(c, i) \/ Posts(c, i)
          /\ record' = [record EXCEPT ![i] = Managed(n, t)]
  BY DEF Takes
<1>2. n \in Names /\ t \in Targets
  BY DEF DnsInv, TypeOK, Active, Writing
<1>3. found[c] = Listed(n, TypeOf[t])
  BY DEF AloneInv
<1>4. Listed(n, TypeOf[t]) \subseteq {i}
  BY <1>1, <1>3 DEF Puts, Posts
<1>5. record[i] = Free \/ record[i].name = n
  BY <1>1, <1>3 DEF Puts, Posts, Unused, Listed
<1>6. PointsTo(n, t, i)'
      /\ \A m \in Names \ {n} : \A j \in Ids : PointsTo(m, t, j) => PointsTo(m, t, j)'
  BY <1>1, <1>2, <1>4, <1>5, PointsAfterWrite DEF DnsInv
<1>7. ASSUME n = "relay" PROVE \E j \in Ids : PointsTo("wildcard", t, j)'
  <2>1. PICK j \in Ids : PointsTo("wildcard", t, j)
    BY <1>7 DEF AloneInv
  <2>2. "wildcard" \in Names \ {n}
    BY <1>7 DEF Names
  <2> QED
    BY <1>6, <2>1, <2>2
<1> QED
  BY <1>6, <1>7

\* Who else was alone is so no more after a write.
LEMMA OnlyTheWriter ==
    ASSUME TypeOK, NEW i \in Ids, NEW W \in SUBSET Calls, Recorded(i, W)
    PROVE  \A b \in Calls : alone'[b] => alone[b] /\ b \in W
BY DEF TypeOK, Recorded

LEMMA AloneCall ==
    ASSUME DnsInv, AloneInv, NEW c \in Calls, CallStep(c)
    PROVE  AloneInv'
<1> USE DEF DnsInv, TypeOK, Goto, Active, Writing
<1>1. CASE ReconcileDNS(c)
  BY <1>1, AloneFrame DEF ReconcileDNS, AloneInv
<1>2. CASE List(c)
  <2> DEFINE ids == Listed(name[c], TypeOf[target[c]])
  <2>1. ids \in SUBSET Ids
    BY DEF Listed
  <2>2. step'[c] = "write" => found'[c] = ids /\ Cardinality(ids) <= 1
    BY <1>2 DEF List
  <2>3. step'[c] = "write" => \A i, j \in found'[c] : i = j
    BY <2>1, <2>2, AtMostOne
  <2>4. /\ step[c] = "list" /\ step'[c] \in {"write", "failed"}
        /\ UNCHANGED <<record, name, target, alone>>
        /\ \A b \in Calls \ {c} : step'[b] = step[b] /\ found'[b] = found[b]
    BY <1>2 DEF List
  <2> HIDE DEF ids
  <2>5. ids = Listed(name[c], TypeOf[target[c]])'
    BY <2>4, AloneFrame DEF ids
  <2> QED
    BY <2>2, <2>3, <2>4, <2>5, AloneFrame DEF AloneInv
<1>3. CASE Fails(c) \/ GivesUp(c)
  <2>1. /\ UNCHANGED <<record, name, target, alone>>
        /\ step'[c] \notin {"new", "list", "write"}
        /\ \A b \in Calls \ {c} : step'[b] = step[b] /\ found'[b] = found[b]
    BY <1>3 DEF Fails, GivesUp
  <2> QED
    BY <2>1, AloneFrame DEF AloneInv
<1>4. CASE Write(c)
  <2>1. \A b \in Calls : alone'[b] => alone[b] /\ b = c
    BY <1>4, OnlyTheWriter DEF Write, Takes
  <2>2. /\ step[c] = "write" /\ Takes(c) /\ UNCHANGED target
        /\ step'[c] = (IF name[c] = "wildcard" THEN "list" ELSE "ok")
        /\ name'[c] = "relay"
        /\ \A b \in Calls \ {c} : step'[b] = step[b] /\ name'[b] = name[b]
    BY <1>4 DEF Write
  <2>3. alone[c] /\ name[c] = "wildcard" =>
            \E i \in Ids : PointsTo("wildcard", target[c], i)'
    <3> SUFFICES ASSUME alone[c], name[c] = "wildcard"
                 PROVE  \E i \in Ids : PointsTo("wildcard", target[c], i)'
      OBVIOUS
    <3>1. PICK t : t = target[c]
      OBVIOUS
    <3>2. PICK i \in Ids : PointsTo("wildcard", t, i)'
      BY <2>2, <3>1, AloneTakes
    <3>3. target'[c] = t
      BY <2>2, <3>1
    <3> QED
      BY <3>2, <3>3 DEF PointsTo
  <2> QED
    BY <2>1, <2>2, <2>3 DEF AloneInv, PointsTo
<1>5. CASE Lands(c)
  <2>1. \A b \in Calls : alone'[b] => alone[b] /\ b = c
    BY <1>5, OnlyTheWriter DEF Lands, Takes
  <2>2. /\ step'[c] = "failed" /\ UNCHANGED name
        /\ \A b \in Calls \ {c} : step'[b] = step[b]
    BY <1>5 DEF Lands
  <2> QED
    BY <2>1, <2>2 DEF AloneInv
<1> QED
  BY <1>1, <1>2, <1>3, <1>4, <1>5 DEF CallStep

LEMMA AloneOther ==
    ASSUME DnsInv, AloneInv, NEW i \in Ids, Recorded(i, {}), UNCHANGED <<step, name>>
    PROVE  AloneInv'
<1>1. \A b \in Calls : ~alone'[b]
  BY OnlyTheWriter DEF DnsInv
<1> QED
  BY <1>1 DEF AloneInv

LEMMA AloneNext == DnsInv /\ AloneInv /\ [Next]_vars => AloneInv'
<1> SUFFICES ASSUME DnsInv, AloneInv, [Next]_vars PROVE AloneInv'
  OBVIOUS
<1>1. CASE (\E t \in Targets \cup {Manual} : SetDNS(t)) \/ UNCHANGED vars
  BY <1>1, AloneFrame DEF SetDNS, vars, AloneInv
<1>2. ASSUME NEW c \in Calls, CallStep(c) PROVE AloneInv'
  BY <1>2, AloneCall
<1>3. ASSUME NEW i \in Ids, NEW r \in {Free} \cup Foreign, OtherWrites(i, r) PROVE AloneInv'
  BY <1>3, AloneOther DEF OtherWrites
<1>4. ASSUME NEW i \in Ids, OtherRedirects(i) PROVE AloneInv'
  BY <1>4, AloneOther DEF OtherRedirects
<1> QED
  BY <1>1, <1>2, <1>3, <1>4 DEF Next

\* The step by which a call succeeds is its write for the relay name.
LEMMA Succeeds ==
    ASSUME DnsInv, AloneInv, Next, NEW c \in Calls, step[c] # "ok", step'[c] = "ok", alone[c]
    PROVE  \A n \in Names : \E i \in Ids :
               /\ Listed(n, TypeOf[target[c]])' = {i}
               /\ record'[i] = Managed(n, target[c])
<1>1. ASSUME NEW b \in Calls, CallStep(b) PROVE b = c /\ Write(c)
  BY <1>1 DEF CallStep, ReconcileDNS, List, Write, Fails, GivesUp, Lands, Goto, DnsInv, TypeOK
<1>2. Write(c)
  BY <1>1 DEF Next, SetDNS, OtherWrites, OtherRedirects
<1>3. step[c] = "write" /\ Takes(c) /\ UNCHANGED target /\ name[c] = "relay"
  BY <1>2 DEF Write, Goto, DnsInv, TypeOK, Names
<1>4. PICK t : t = target[c]
  OBVIOUS
<1>5. /\ \E i \in Ids : PointsTo("relay", t, i)'
      /\ \E i \in Ids : PointsTo("wildcard", t, i)'
  BY <1>3, <1>4, AloneTakes
<1>6. \A n \in Names : \E i \in Ids :
          Listed(n, TypeOf[t])' = {i} /\ record'[i] = Managed(n, t)
  BY <1>5 DEF PointsTo, Names
<1>7. target'[c] = t
  BY <1>3, <1>4
<1> QED
  BY <1>4, <1>6, <1>7

\* A call that succeeds, and beside which nobody has written, has left one record of
\* its type for each of the two names, and that points to its target.
THEOREM SuccessIsComplete == Spec => SuccessPointsBoth
<1>1. DnsInv /\ AloneInv /\ [Next]_vars =>
        [\A c \in Calls : step[c] # "ok" /\ step'[c] = "ok" /\ alone[c] =>
            \A n \in Names : \E i \in Ids :
                /\ Listed(n, TypeOf[target[c]])' = {i}
                /\ record'[i] = Managed(n, target[c])]_vars
  BY Succeeds
<1> QED
  BY <1>1, AloneInit, AloneNext, DnsInvariance, PTL DEF Spec, SuccessPointsBoth
=============================================================================
