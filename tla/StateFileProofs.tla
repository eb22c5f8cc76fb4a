--------------------------- MODULE StateFileProofs ---------------------------
(***************************************************************************)
(* What TLAPS proves of StateFile for any number of calls, keys and names. *)
(***************************************************************************)
EXTENDS StateFile, TLAPS

-----------------------------------------------------------------------------
(* The invariant, one step per action.                                     *)

LEMMA InitInv == Init => FileInv
BY FileAssumption DEF Init, FileInv, TypeOK, NeverTorn, SyncedBeforeRename, RemovedWhereNeeded, Steps

LEMMA SaveInv ==
    ASSUME FileInv, NEW p \in Procs, SaveStep(p)
    PROVE  FileInv'
<1> USE FileAssumption
        DEF FileInv, TypeOK, NeverTorn, SyncedBeforeRename, RemovedWhereNeeded, Steps, platform, Goto
<1>1. ASSUME NEW k \in Keys, NEW d \in Domains, SaveDomain(p, k, d) PROVE FileInv'
    BY <1>1 DEF SaveDomain
<1>2. CASE FillTemp(p) BY <1>2 DEF FillTemp
<1>3. CASE Rename(p) BY <1>3 DEF Rename
<1>4. CASE RenameRefused(p) BY <1>4 DEF RenameRefused
<1>5. CASE RemoveOld(p) BY <1>5 DEF RemoveOld
<1>6. CASE Fails(p) BY <1>6 DEF Fails
<1>7. CASE Return(p) BY <1>7 DEF Return
<1>8. QED BY <1>1, <1>2, <1>3, <1>4, <1>5, <1>6, <1>7 DEF SaveStep

LEMMA LoadInv ==
    ASSUME FileInv, NEW p \in Procs, LoadStep(p) \/ Killed(p)
    PROVE  FileInv'
<1> USE FileAssumption
        DEF FileInv, TypeOK, NeverTorn, SyncedBeforeRename, RemovedWhereNeeded, Steps, platform, Goto
<1>1. ASSUME NEW k \in Keys, LoadDomain(p, k) PROVE FileInv'
    BY <1>1 DEF LoadDomain
<1>2. CASE ReadFile(p) BY <1>2 DEF ReadFile
<1>3. CASE ReadFileFails(p) BY <1>3 DEF ReadFileFails
<1>4. CASE ReadLegacy(p) BY <1>4 DEF ReadLegacy
<1>5. CASE Killed(p) BY <1>5 DEF Killed
<1>6. QED BY <1>1, <1>2, <1>3, <1>4, <1>5 DEF LoadStep

LEMMA DiskInv ==
    ASSUME FileInv, (\E k \in Keys : WriteBack(k)) \/ PowerFails
    PROVE  FileInv'
<1> USE FileAssumption
        DEF FileInv, TypeOK, NeverTorn, SyncedBeforeRename, RemovedWhereNeeded, Steps, platform
<1>1. ASSUME NEW k \in Keys, WriteBack(k) PROVE FileInv'
    BY <1>1 DEF WriteBack
<1>2. CASE PowerFails
    <2>1. PICK left \in [Keys -> Domains \cup {Absent, Torn}] :
              /\ \A k \in Keys : left[k] \in past[k]
              /\ file' = left
              /\ past' = [k \in Keys |-> {left[k]}]
        BY <1>2 DEF PowerFails
    <2>2. QED BY <1>2, <2>1 DEF PowerFails
<1>3. QED BY <1>1, <1>2

\* At every moment, every file that a power failure may leave was written in full:
\* what makes NeverTorn inductive.
THEOREM FileInvariance == Spec => []FileInv
<1>1. FileInv /\ [Next]_vars => FileInv'
    <2> SUFFICES ASSUME FileInv, [Next]_vars PROVE FileInv'
        OBVIOUS
    <2>1. CASE Next BY <2>1, SaveInv, LoadInv, DiskInv DEF Next
    <2>2. CASE UNCHANGED vars
        BY <2>2 DEF vars, FileInv, TypeOK, NeverTorn, SyncedBeforeRename, RemovedWhereNeeded
    <2>3. QED BY <2>1, <2>2
<1>2. QED BY InitInv, <1>1, PTL DEF Spec

\* Every variable of the state files keeps its type.
THEOREM FileTypeCorrect == Spec => []TypeOK
<1>1. FileInv => TypeOK BY DEF FileInv
<1>2. QED BY FileInvariance, <1>1, PTL

\* No interruption of saveDomainAt, a power failure included, leaves a file that
\* does not parse.
THEOREM NeverTornAlways == Spec => []NeverTorn
<1>1. FileInv => NeverTorn BY DEF FileInv
<1>2. QED BY FileInvariance, <1>1, PTL

-----------------------------------------------------------------------------
(* The refinement of SavedName.                                            *)

LEMMA SavedInit == Init => Saved!Init
<1> SUFFICES ASSUME Init PROVE Saved!Init
    OBVIOUS
<1> USE FileAssumption
<1>1. stored = Legacy /\ before = [k \in Keys |-> {Legacy[k]}]
    BY DEF Init, stored, before, Told
<1>2. call = [p \in Procs |-> "none"] /\ settled = [p \in Procs |-> NoName]
    BY DEF Init, call, CallOf, settled
<1>3. QED BY <1>1, <1>2 DEF Init, Saved!Init

\* What a step does to one file is what it does to the name.
LEMMA FileBecomes ==
    ASSUME TypeOK, NEW k \in Keys, NEW content \in Domains \cup {Absent},
           file' = [file EXCEPT ![k] = content],
           past' = [past EXCEPT ![k] = @ \cup {content}]
    PROVE  Saved!Becomes(k, Told(k, content))
<1>1. stored' = [stored EXCEPT ![k] = Told(k, content)]
    BY DEF TypeOK, stored, Told
<1>2. before' = [before EXCEPT ![k] = @ \cup {Told(k, content)}]
    <2>1. ASSUME NEW j \in Keys, j # k PROVE before'[j] = before[j]
        BY <2>1 DEF TypeOK, before, Told
    <2>2. before'[k] = before[k] \cup {Told(k, content)}
        BY DEF TypeOK, before, Told
    <2>3. QED BY <2>1, <2>2 DEF before
<1>3. QED BY <1>1, <1>2 DEF Saved!Becomes

\* A call as the abstract service sees it follows its step.
LEMMA CallFollows ==
    ASSUME TypeOK, NEW p \in Procs, NEW step \in Steps, pc' = [pc EXCEPT ![p] = step]
    PROVE  call' = [call EXCEPT ![p] = CallOf[step]]
BY DEF TypeOK, call

LEMMA CallNames ==
    /\ CallOf["idle"] = "none" /\ CallOf["legacy"] = "none" /\ CallOf["load"] = "load"
    /\ CallOf["return"] = "saved"
    /\ \A step \in {"fill", "rename", "remove", "again", "failed"} : CallOf[step] = "save"
BY DEF CallOf

LEMMA CallEnds ==
    ASSUME TypeOK, NEW p \in Procs, pc' = [pc EXCEPT ![p] = "idle"]
    PROVE  call' = [call EXCEPT ![p] = "none"]
<1>1. "idle" \in Steps
    BY DEF Steps
<1>2. call' = [call EXCEPT ![p] = CallOf["idle"]]
    BY <1>1, CallFollows
<1>3. QED BY <1>2, CallNames

LEMMA SavedSave ==
    ASSUME FileInv, NEW p \in Procs, SaveStep(p)
    PROVE  Saved!Next \/ UNCHANGED Saved!serviceVars
<1> USE FileAssumption DEF FileInv, TypeOK, platform, Goto, Steps
<1> DEFINE Same == UNCHANGED <<file, past>> => UNCHANGED <<stored, before>>
<1>same. Same BY DEF stored, before, Told
<1> HIDE DEF Same
<1>1. ASSUME NEW k \in Keys, NEW d \in Domains, SaveDomain(p, k, d) PROVE Saved!Call(p)
    <2>1. call[p] = "none" /\ call' = [call EXCEPT ![p] = "save"]
        BY <1>1, CallFollows, CallNames DEF SaveDomain, call
    <2>2. settled' = settled
        BY <1>1 DEF SaveDomain, settled
    <2>3. UNCHANGED <<stored, before>>
        BY <1>1, <1>same DEF SaveDomain, Same
    <2>4. QED BY <1>1, <2>1, <2>2, <2>3 DEF SaveDomain, Saved!Call
<1>2. CASE FillTemp(p) \/ RenameRefused(p) \/ Fails(p)
    <2>1. UNCHANGED <<stored, before>>
        BY <1>2, <1>same DEF FillTemp, RenameRefused, Fails, Same
    <2>2. UNCHANGED call
        BY <1>2 DEF FillTemp, RenameRefused, Fails, call, CallOf
    <2>3. UNCHANGED settled
        BY <1>2 DEF FillTemp, RenameRefused, Fails, settled
    <2>4. QED BY <1>2, <2>1, <2>2, <2>3
              DEF FillTemp, RenameRefused, Fails, Saved!serviceVars
<1>3. CASE Rename(p)
    <2>1. Saved!Becomes(key[p], name[p])
        <3>1. past' = [past EXCEPT ![key[p]] = @ \cup {name[p]}]
            BY <1>3 DEF Rename, SyncedBeforeRename
        <3>2. Saved!Becomes(key[p], Told(key[p], name[p]))
            BY <1>3, <3>1, FileBecomes DEF Rename
        <3>3. QED BY <3>2 DEF Told
    <2>2. call[p] = "save" /\ call' = [call EXCEPT ![p] = "saved"]
        BY <1>3, CallFollows, CallNames DEF Rename, call
    <2>3. settled' = settled
        BY <1>3 DEF Rename, settled
    <2>4. Saved!Store(p) BY <1>3, <2>1, <2>2, <2>3 DEF Rename, Saved!Store
    <2>5. QED BY <2>4 DEF Saved!Next
<1>4. CASE RemoveOld(p) /\ ~replaces
    <2>1. Saved!Becomes(key[p], Legacy[key[p]])
        <3>1. Saved!Becomes(key[p], Told(key[p], Absent))
            BY <1>4, FileBecomes DEF RemoveOld
        <3>2. QED BY <3>1 DEF Told
    <2>2. call[p] = "save" /\ call' = call
        BY <1>4 DEF RemoveOld, call, CallOf
    <2>3. settled' = settled
        BY <1>4 DEF RemoveOld, settled
    <2>4. Saved!Vacate(p) BY <1>4, <2>1, <2>2, <2>3 DEF RemoveOld, Saved!Vacate
    <2>5. QED BY <2>4 DEF Saved!Next
<1>5. CASE Return(p)
    <2>1. UNCHANGED <<stored, before>>
        BY <1>5, <1>same DEF Return, Same
    <2>2. call[p] \in {"save", "saved"} /\ call' = [call EXCEPT ![p] = "none"]
        BY <1>5, CallFollows, CallNames DEF Return, call
    <2>3. settled' = settled
        BY <1>5 DEF Return, settled
    <2>4. Saved!Return(p) BY <1>5, <2>1, <2>2, <2>3 DEF Return, Saved!Return
    <2>5. QED BY <2>4 DEF Saved!Next
<1>6. RemoveOld(p) => ~replaces
    BY DEF RemoveOld, RemovedWhereNeeded
<1>7. QED BY <1>1, <1>2, <1>3, <1>4, <1>5, <1>6 DEF SaveStep, Saved!Next

LEMMA SavedLoad ==
    ASSUME FileInv, NEW p \in Procs, LoadStep(p) \/ Killed(p)
    PROVE  Saved!Next \/ UNCHANGED Saved!serviceVars
<1> USE FileAssumption DEF FileInv, TypeOK, platform, Goto, Steps
<1>same. UNCHANGED <<stored, before>>
    BY DEF LoadStep, LoadDomain, ReadFile, ReadFileFails, ReadLegacy, Killed,
           stored, before, Told
<1>1. ASSUME NEW k \in Keys, LoadDomain(p, k) PROVE Saved!Call(p)
    <2>1. call[p] = "none" /\ call' = [call EXCEPT ![p] = "load"]
        BY <1>1, CallFollows, CallNames DEF LoadDomain, call
    <2>2. settled' = settled
        BY <1>1 DEF LoadDomain, settled
    <2>3. name' = [name EXCEPT ![p] = name[p]]
        BY <1>1 DEF LoadDomain
    <2>4. QED BY <1>1, <1>same, <2>1, <2>2, <2>3 DEF LoadDomain, Saved!Call
<1>2. CASE ReadFile(p)
    <2>1. call[p] = "load" /\ call' = [call EXCEPT ![p] = "none"]
        BY <1>2, CallFollows, CallNames DEF ReadFile, call
    <2>2. settled' = [settled EXCEPT ![p] = stored[key[p]]]
        BY <1>2 DEF ReadFile, settled, stored, Told
    <2>3. Saved!Answer(p) BY <1>2, <1>same, <2>1, <2>2 DEF ReadFile, Saved!Answer
    <2>4. QED BY <2>3 DEF Saved!Next
<1>3. CASE ReadFileFails(p)
    <2>1. call[p] = "load" /\ call' = [call EXCEPT ![p] = "none"]
        BY <1>3, CallFollows, CallNames DEF ReadFileFails, call
    <2>2. settled' = [settled EXCEPT ![p] = Legacy[key[p]]]
        BY <1>3 DEF ReadFileFails, settled
    <2>3. CASE readable
        <3>1. stored[key[p]] = Legacy[key[p]]
            BY <1>3, <2>3 DEF ReadFileFails, stored, Told
        <3>2. Saved!Answer(p)
            BY <1>3, <1>same, <2>1, <2>2, <3>1 DEF ReadFileFails, Saved!Answer
        <3>3. QED BY <3>2 DEF Saved!Next
    <2>4. CASE ~readable
        <3>1. Saved!AnswerOld(p)
            BY <1>3, <1>same, <2>1, <2>2, <2>4 DEF ReadFileFails, Saved!AnswerOld
        <3>2. QED BY <3>1 DEF Saved!Next
    <2>5. QED BY <2>3, <2>4
<1>4. CASE ReadLegacy(p)
    <2>1. call' = call
        BY <1>4, CallFollows, CallNames DEF ReadLegacy, call
    <2>2. settled' = settled
        BY <1>4 DEF ReadLegacy, settled
    <2>3. QED BY <1>4, <1>same, <2>1, <2>2 DEF ReadLegacy, Saved!serviceVars
<1>5. CASE Killed(p)
    <2>1. call' = [call EXCEPT ![p] = "none"]
        <3>1. pc' = [pc EXCEPT ![p] = "idle"]
            BY <1>5 DEF Killed
        <3>2. TypeOK
            BY DEF FileInv
        <3>3. QED BY <3>1, <3>2, CallEnds
    <2>2. settled' = [settled EXCEPT ![p] = NoName]
        BY <1>5 DEF Killed, settled
    <2>3. Saved!Kill(p) BY <1>5, <1>same, <2>1, <2>2 DEF Killed, Saved!Kill
    <2>4. QED BY <2>3 DEF Saved!Next
<1>6. QED BY <1>1, <1>2, <1>3, <1>4, <1>5 DEF LoadStep, Saved!Next

LEMMA SavedDisk ==
    ASSUME FileInv, (\E k \in Keys : WriteBack(k)) \/ PowerFails
    PROVE  Saved!Next
<1> USE FileAssumption DEF FileInv, TypeOK, platform, Steps
<1>1. ASSUME NEW k \in Keys, WriteBack(k) PROVE Saved!WriteBack(k)
    <2>1. UNCHANGED <<stored, call, settled>>
        BY <1>1 DEF WriteBack, stored, call, settled
    <2>2. before' = [before EXCEPT ![k] = {stored[k]}]
        <3>1. ASSUME NEW j \in Keys, j # k PROVE before'[j] = before[j]
            BY <1>1, <3>1 DEF WriteBack, before, Told
        <3>2. before'[k] = {stored[k]}
            BY <1>1 DEF WriteBack, before, stored
        <3>3. QED BY <3>1, <3>2 DEF before
    <2>3. QED BY <1>1, <2>1, <2>2 DEF WriteBack, Saved!WriteBack
<1>2. CASE PowerFails
    <2>1. PICK left \in [Keys -> Domains \cup {Absent, Torn}] :
              /\ \A k \in Keys : left[k] \in past[k]
              /\ file' = left
              /\ past' = [k \in Keys |-> {left[k]}]
        BY <1>2 DEF PowerFails
    <2>2. stored' \in [Keys -> Saved!Name] /\ \A k \in Keys : stored'[k] \in before[k]
        BY <2>1 DEF stored, before, Told, Saved!Name
    <2>3. before' = [k \in Keys |-> {stored'[k]}]
        BY <2>1 DEF stored, before
    <2>4. call' = [p \in Procs |-> "none"]
        BY <1>2, CallNames DEF PowerFails, call
    <2>5. settled' = [p \in Procs |-> NoName]
        BY <1>2 DEF PowerFails, settled
    <2>6. Saved!PowerFails
        BY <1>2, <2>2, <2>3, <2>4, <2>5 DEF PowerFails, Saved!PowerFails
    <2>7. QED BY <2>6 DEF Saved!Next
<1>3. QED BY <1>1, <1>2 DEF Saved!Next

\* However calls of saveDomain and loadDomain overlap or are cut off, the state
\* files behave as one stored name per key.
THEOREM StateRefinement == Spec => ImplementsSavedName
<1>1. FileInv /\ [Next]_vars => [Saved!Next]_(Saved!serviceVars)
    <2> SUFFICES ASSUME FileInv, [Next]_vars
                 PROVE  Saved!Next \/ UNCHANGED Saved!serviceVars
        OBVIOUS
    <2>1. CASE Next BY <2>1, SavedSave, SavedLoad, SavedDisk DEF Next
    <2>2. CASE UNCHANGED vars
        BY <2>2 DEF vars, Saved!serviceVars, stored, before, Told, call, settled
    <2>3. QED BY <2>1, <2>2
<1>2. QED
    BY SavedInit, FileInvariance, <1>1, PTL DEF Spec, ImplementsSavedName, Saved!Spec
=============================================================================
