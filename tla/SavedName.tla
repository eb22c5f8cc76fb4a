------------------------------ MODULE SavedName ------------------------------
(***************************************************************************)
(* What the client relies on: a name per key that processes of one user    *)
(* save and load, each at one moment between call and return.  Where       *)
(* renaming does not replace, a save may first take the name away; a power *)
(* failure may bring back a name of before; and where files cannot always  *)
(* be read, a load may miss what is there.                                 *)
(***************************************************************************)
CONSTANTS
    Procs,    \* calls of saveDomain and loadDomain, by processes of the user
    Keys,     \* pairs of a relay and a target
    Domains,  \* names
    NoName,   \* the empty string
    Legacy    \* Legacy[k]: what state.json of an older version says

VARIABLES
    replaces,  \* whether renaming replaces a file that exists
    readable,  \* whether a file that exists can always be read
    stored,    \* stored[k]: the name of k
    past,      \* past[k]: the names of k that a power failure may leave
    call,      \* call[p]: "none", "save", "saved" or "load"
    key, name, \* the arguments of the call
    answer     \* answer[p]: what the last load of p returned

serviceVars == <<replaces, readable, stored, past, call, key, name, answer>>

Name == Domains \cup {NoName}

Init ==
    /\ replaces \in BOOLEAN /\ readable \in BOOLEAN
    /\ stored = Legacy
    /\ past = [k \in Keys |-> {Legacy[k]}]
    /\ call = [p \in Procs |-> "none"]
    /\ key \in [Procs -> Keys]
    /\ name \in [Procs -> Domains]
    /\ answer = [p \in Procs |-> NoName]

Becomes(k, n) ==
    /\ stored' = [stored EXCEPT ![k] = n]
    /\ past' = [past EXCEPT ![k] = @ \cup {n}]

Call(p) ==
    /\ call[p] = "none"
    /\ \E c \in {"save", "load"} : call' = [call EXCEPT ![p] = c]
    /\ \E k \in Keys : key' = [key EXCEPT ![p] = k]
    /\ \E d \in Domains : name' = [name EXCEPT ![p] = d]
    /\ UNCHANGED <<replaces, readable, stored, past, answer>>

Store(p) ==
    /\ call[p] = "save"
    /\ Becomes(key[p], name[p])
    /\ call' = [call EXCEPT ![p] = "saved"]
    /\ UNCHANGED <<replaces, readable, key, name, answer>>

Vacate(p) ==
    /\ call[p] = "save" /\ ~replaces
    /\ Becomes(key[p], Legacy[key[p]])
    /\ UNCHANGED <<replaces, readable, call, key, name, answer>>

Answer(p) ==
    /\ call[p] = "load"
    /\ answer' = [answer EXCEPT ![p] = stored[key[p]]]
    /\ call' = [call EXCEPT ![p] = "none"]
    /\ UNCHANGED <<replaces, readable, stored, past, key, name>>

AnswerOld(p) ==
    /\ call[p] = "load" /\ ~readable
    /\ answer' = [answer EXCEPT ![p] = Legacy[key[p]]]
    /\ call' = [call EXCEPT ![p] = "none"]
    /\ UNCHANGED <<replaces, readable, stored, past, key, name>>

\* A save returns, well or not.
Return(p) ==
    /\ call[p] \in {"save", "saved"}
    /\ call' = [call EXCEPT ![p] = "none"]
    /\ UNCHANGED <<replaces, readable, stored, past, key, name, answer>>

Kill(p) ==
    /\ call' = [call EXCEPT ![p] = "none"]
    /\ answer' = [answer EXCEPT ![p] = NoName]
    /\ UNCHANGED <<replaces, readable, stored, past, key, name>>

WriteBack(k) ==
    /\ past' = [past EXCEPT ![k] = {stored[k]}]
    /\ UNCHANGED <<replaces, readable, stored, call, key, name, answer>>

PowerFails ==
    /\ stored' \in [Keys -> Name] /\ \A k \in Keys : stored'[k] \in past[k]
    /\ past' = [k \in Keys |-> {stored'[k]}]
    /\ call' = [p \in Procs |-> "none"]
    /\ answer' = [p \in Procs |-> NoName]
    /\ UNCHANGED <<replaces, readable, key, name>>

Next ==
    \/ \E p \in Procs :
        Call(p) \/ Store(p) \/ Vacate(p) \/ Answer(p) \/ AnswerOld(p) \/ Return(p) \/ Kill(p)
    \/ \E k \in Keys : WriteBack(k)
    \/ PowerFails

Spec == Init /\ [][Next]_serviceVars
=============================================================================
