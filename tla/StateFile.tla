------------------------------ MODULE StateFile ------------------------------
(***************************************************************************)
(* The client's state files (internal/client/state.go): saveDomainAt fills *)
(* a temporary file, syncs it and renames it; loadDomainAt reads the file  *)
(* of the key and, if that tells nothing, the state.json of an older       *)
(* version, which is never written.  Processes call them concurrently, and *)
(* may be killed at any step.                                              *)
(*                                                                         *)
(* A file is its domain, or Absent, or Torn: one that does not parse.  The *)
(* key is hashed into the file's name, taken as injective.  Temporary      *)
(* files have names of their own and are private to the call that made     *)
(* them, so filling one is a single step.                                  *)
(***************************************************************************)
EXTENDS Naturals

CONSTANTS Procs, Keys, Domains, NoName, Legacy, Absent, Torn

ASSUME FileAssumption ==
    /\ Keys # {} /\ Domains # {}
    /\ NoName \notin Domains
    /\ Absent \notin Domains \cup {NoName}
    /\ Torn \notin Domains \cup {NoName, Absent}
    /\ Legacy \in [Keys -> Domains \cup {NoName}]

VARIABLES
    replaces,  \* whether os.Rename replaces a file here, or reports os.ErrExist
    readable,  \* whether a file that exists can always be read
    file,      \* file[k]: the file of k
    past,      \* past[k]: what a power failure may leave of it, as the directory
               \* is not synced
    pc,        \* pc[p]: the step of the call
    key, name, \* its arguments
    temp,      \* temp[p]: its temporary file: "none", "cached" or "synced"
    answer     \* answer[p]: what its last load returned

platform == <<replaces, readable>>
vars == <<replaces, readable, file, past, pc, key, name, temp, answer>>

Steps == {"idle", "fill", "rename", "remove", "again", "return", "failed",
          "load", "legacy"}

Init ==
    /\ replaces \in BOOLEAN /\ readable \in BOOLEAN
    /\ file = [k \in Keys |-> Absent]
    /\ past = [k \in Keys |-> {Absent}]
    /\ pc = [p \in Procs |-> "idle"]
    /\ key \in [Procs -> Keys]
    /\ name \in [Procs -> Domains]
    /\ temp = [p \in Procs |-> "none"]
    /\ answer = [p \in Procs |-> NoName]

Goto(p, step) == pc' = [pc EXCEPT ![p] = step]

-----------------------------------------------------------------------------
(* saveDomainAt.                                                           *)

SaveDomain(p, k, d) ==
    /\ pc[p] = "idle"
    /\ key' = [key EXCEPT ![p] = k]
    /\ name' = [name EXCEPT ![p] = d]
    /\ Goto(p, "fill")
    /\ UNCHANGED <<platform, file, past, temp, answer>>

\* Faulty variant, for the sensitivity of the properties: no Sync.
FillTempUnsynced(p) ==
    /\ pc[p] = "fill"
    /\ temp' = [temp EXCEPT ![p] = "cached"]
    /\ Goto(p, "rename")
    /\ UNCHANGED <<platform, file, past, key, name, answer>>

\* CreateTemp, Chmod, Write, Sync, Close.
FillTemp(p) ==
    /\ pc[p] = "fill"
    /\ temp' = [temp EXCEPT ![p] = "synced"]
    /\ Goto(p, "rename")
    /\ UNCHANGED <<platform, file, past, key, name, answer>>

\* The first os.Rename, or the second one, takes effect. What a power failure
\* leaves of the file that took the place depends on what was synced.
Rename(p) ==
    /\ pc[p] \in {"rename", "again"}
    /\ replaces \/ file[key[p]] = Absent
    /\ file' = [file EXCEPT ![key[p]] = name[p]]
    /\ past' = [past EXCEPT ![key[p]] = @ \cup {IF temp[p] = "synced" THEN name[p] ELSE Torn}]
    /\ temp' = [temp EXCEPT ![p] = "none"]
    /\ Goto(p, "return")
    /\ UNCHANGED <<platform, key, name, answer>>

\* Faulty variant, for the sensitivity of the properties: the old file is removed
\* before the first os.Rename is tried.
RenameRefusedAlways(p) ==
    /\ pc[p] = "rename"
    /\ file[key[p]] # Absent
    /\ Goto(p, "remove")
    /\ UNCHANGED <<platform, file, past, key, name, temp, answer>>

\* os.ErrExist from the first os.Rename.
RenameRefused(p) ==
    /\ pc[p] = "rename"
    /\ ~replaces /\ file[key[p]] # Absent
    /\ Goto(p, "remove")
    /\ UNCHANGED <<platform, file, past, key, name, temp, answer>>

\* os.Remove of the destination; that it is not there is no error.
RemoveOld(p) ==
    /\ pc[p] = "remove"
    /\ file' = [file EXCEPT ![key[p]] = Absent]
    /\ past' = [past EXCEPT ![key[p]] = @ \cup {Absent}]
    /\ Goto(p, "again")
    /\ UNCHANGED <<platform, key, name, temp, answer>>

\* Every other error is returned, os.ErrExist from the second os.Rename included.
Fails(p) ==
    /\ pc[p] \in {"fill", "rename", "remove", "again"}
    /\ Goto(p, "failed")
    /\ UNCHANGED <<platform, file, past, key, name, temp, answer>>

\* The deferred os.Remove of the temporary file.
Return(p) ==
    /\ pc[p] \in {"return", "failed"}
    /\ temp' = [temp EXCEPT ![p] = "none"]
    /\ Goto(p, "idle")
    /\ UNCHANGED <<platform, file, past, key, name, answer>>

-----------------------------------------------------------------------------
(* loadDomainAt.                                                           *)

LoadDomain(p, k) ==
    /\ pc[p] = "idle"
    /\ key' = [key EXCEPT ![p] = k]
    /\ Goto(p, "load")
    /\ UNCHANGED <<platform, file, past, name, temp, answer>>

\* Faulty variant, for the sensitivity of the properties: the result of
\* json.Unmarshal is not looked at.
ReadFileUnchecked(p) ==
    /\ pc[p] = "load"
    /\ answer' = [answer EXCEPT ![p] = file[key[p]]]
    /\ Goto(p, "idle")
    /\ UNCHANGED <<platform, file, past, key, name, temp>>

ReadFile(p) ==
    /\ pc[p] = "load" /\ file[key[p]] \in Domains
    /\ answer' = [answer EXCEPT ![p] = file[key[p]]]
    /\ Goto(p, "idle")
    /\ UNCHANGED <<platform, file, past, key, name, temp>>

\* No file, or none that can be read or that parses.
ReadFileFails(p) ==
    /\ pc[p] = "load" /\ (file[key[p]] \notin Domains \/ ~readable)
    /\ Goto(p, "legacy")
    /\ UNCHANGED <<platform, file, past, key, name, temp, answer>>

ReadLegacy(p) ==
    /\ pc[p] = "legacy"
    /\ answer' = [answer EXCEPT ![p] = Legacy[key[p]]]
    /\ Goto(p, "idle")
    /\ UNCHANGED <<platform, file, past, key, name, temp>>

-----------------------------------------------------------------------------
(* The processes and the file system.                                      *)

\* A temporary file that is left behind is never looked at.
Killed(p) ==
    /\ pc[p] # "idle"
    /\ Goto(p, "idle")
    /\ temp' = [temp EXCEPT ![p] = "none"]
    /\ answer' = [answer EXCEPT ![p] = NoName]
    /\ UNCHANGED <<platform, file, past, key, name>>

\* The directory reaches the disk.
WriteBack(k) ==
    /\ past' = [past EXCEPT ![k] = {file[k]}]
    /\ UNCHANGED <<platform, file, pc, key, name, temp, answer>>

PowerFails ==
    /\ \E left \in [Keys -> Domains \cup {Absent, Torn}] :
        /\ \A k \in Keys : left[k] \in past[k]
        /\ file' = left
        /\ past' = [k \in Keys |-> {left[k]}]
    /\ pc' = [p \in Procs |-> "idle"]
    /\ temp' = [p \in Procs |-> "none"]
    /\ answer' = [p \in Procs |-> NoName]
    /\ UNCHANGED <<platform, key, name>>

SaveStep(p) ==
    \/ \E k \in Keys, d \in Domains : SaveDomain(p, k, d)
    \/ FillTemp(p) \/ Rename(p) \/ RenameRefused(p) \/ RemoveOld(p) \/ Fails(p) \/ Return(p)

LoadStep(p) ==
    \/ \E k \in Keys : LoadDomain(p, k)
    \/ ReadFile(p) \/ ReadFileFails(p) \/ ReadLegacy(p)

Next ==
    \/ \E p \in Procs : SaveStep(p) \/ LoadStep(p) \/ Killed(p)
    \/ \E k \in Keys : WriteBack(k)
    \/ PowerFails

Spec == Init /\ [][Next]_vars

-----------------------------------------------------------------------------
TypeOK ==
    /\ replaces \in BOOLEAN /\ readable \in BOOLEAN
    /\ file \in [Keys -> Domains \cup {Absent, Torn}]
    /\ past \in [Keys -> SUBSET (Domains \cup {Absent, Torn})]
    /\ pc \in [Procs -> Steps]
    /\ key \in [Procs -> Keys]
    /\ name \in [Procs -> Domains]
    /\ temp \in [Procs -> {"none", "cached", "synced"}]
    /\ answer \in [Procs -> Domains \cup {NoName}]

\* Whatever is interrupted, the file of a key is one that was written in full, or
\* is not there: a power failure never leaves one that does not parse, and with
\* it the name lost (the Sync before the os.Rename of saveDomainAt).
NeverTorn == \A k \in Keys : file[k] # Torn

\* The inductive form: nothing that a power failure may leave is torn, as what is
\* renamed has been synced; and no file is removed where renaming replaces it.
SyncedBeforeRename ==
    /\ \A k \in Keys : file[k] \in past[k] /\ Torn \notin past[k]
    /\ \A p \in Procs : pc[p] \in {"rename", "remove", "again"} => temp[p] = "synced"

RemovedWhereNeeded == \A p \in Procs : pc[p] \in {"remove", "again"} => ~replaces

FileInv == TypeOK /\ NeverTorn /\ SyncedBeforeRename /\ RemovedWhereNeeded

-----------------------------------------------------------------------------
(***************************************************************************)
(* The abstract service.  A load takes effect when it reads the file: if   *)
(* that tells nothing, what it is going to return is settled.              *)
(***************************************************************************)
Told(k, content) == IF content \in Domains THEN content ELSE Legacy[k]

stored == [k \in Keys |-> Told(k, file[k])]
before == [k \in Keys |-> {Told(k, content) : content \in past[k]}]

CallOf == [idle |-> "none", fill |-> "save", rename |-> "save", remove |-> "save",
           again |-> "save", failed |-> "save", return |-> "saved",
           load |-> "load", legacy |-> "none"]

call == [p \in Procs |-> CallOf[pc[p]]]

settled == [p \in Procs |-> IF pc[p] = "legacy" THEN Legacy[key[p]] ELSE answer[p]]

Saved == INSTANCE SavedName WITH past <- before, answer <- settled

\* Concurrent calls of saveDomain and loadDomain behave as if each took effect at
\* one moment: a load that follows a save that succeeded gets its name or a later
\* one, one that overlaps a save gets the old name or the new one, and a save that
\* fails or is killed leaves one of the two. Only where renaming does not replace
\* may the name be missing in between.
ImplementsSavedName == Saved!Spec
=============================================================================
