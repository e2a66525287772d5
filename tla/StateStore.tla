---------------------------- MODULE StateStore ----------------------------
(***************************************************************************)
(* The state file of a workspace: callers load and update state.json under *)
(* an advisory lock on state.lock; a save writes state.json.tmp, syncs it, *)
(* renames it over state.json and syncs the directory.  A caller may be    *)
(* killed at any step, which releases its lock, the machine may lose power *)
(* at any step, and every file operation of a save may fail.               *)
(*                                                                         *)
(* What an update does to the sessions is abstracted to its identity: a    *)
(* state is the set of the updates that made it, and the schema version it *)
(* was written with.                                                       *)
(*                                                                         *)
(* A definition whose comment starts with "Mutant" is not the code: it is  *)
(* a slip one could make there, kept to show that a property notices it.   *)
(***************************************************************************)
EXTENDS Naturals

CONSTANTS
    Procs,        \* callers: processes, or threads of the HTTP server
    Updates,      \* the updates they make, each with its own identity
    NoUpdate,     \* the update of a caller that makes none
    Supported,    \* [Procs -> Nat]: the schema version a caller's program has
    Oldest        \* the least of them

ASSUME StoreAssumption ==
    /\ NoUpdate \notin Updates
    /\ Supported \in [Procs -> Nat]
    /\ Oldest \in Nat

VARIABLES
    file,         \* state.json as everybody sees it
    tmp,          \* state.json.tmp
    tmpSynced,    \* its contents are on the disk
    onDisk,       \* what state.json may be after a power failure
    shared,       \* callers that hold the shared lock
    exclusive,    \* callers that hold the exclusive lock
    call,         \* what each caller is doing
    begun,        \* updates begun so far
    acked         \* updates answered with success

locks == <<shared, exclusive>>
disk == <<file, tmp, tmpSynced, onDisk>>
vars == <<file, tmp, tmpSynced, onDisk, shared, exclusive, call, begun, acked>>

-----------------------------------------------------------------------------
(* Contents *)

Absent == [kind |-> "absent", version |-> 0, applied |-> {}]
Blank  == [kind |-> "blank",  version |-> 0, applied |-> {}]
Torn   == [kind |-> "torn",   version |-> 0, applied |-> {}]

Doc(version, applied) == [kind |-> "doc", version |-> version, applied |-> applied]

\* Mutant: the schema version is not compared.
LoadsAnyVersion(p) == file.kind # "torn"

\* load_unlocked with migrate_state: no file and a blank file are the default
\* state, an older state is taken over, a newer one is an error.
Loads(p) ==
    \/ file.kind \in {"absent", "blank"}
    \/ file.kind = "doc" /\ file.version <= Supported[p]

-----------------------------------------------------------------------------
(* Callers *)

Idle == [step |-> "idle", update |-> NoUpdate, doc |-> Absent]

At(p, step) == call[p].step = step

Goto(p, step) == call' = [call EXCEPT ![p].step = step]

Init ==
    /\ file \in {Absent, Blank, Doc(Oldest, {})}
    /\ tmp = Absent
    /\ tmpSynced = TRUE
    /\ onDisk = {file}
    /\ shared = {}
    /\ exclusive = {}
    /\ call = [p \in Procs |-> Idle]
    /\ begun = {}
    /\ acked = {}

-----------------------------------------------------------------------------
(* load: shared lock, read, unlock *)

BeginLoad(p) ==
    /\ At(p, "idle")
    /\ Goto(p, "load_lock")
    /\ UNCHANGED <<disk, locks, begun, acked>>

LockShared(p) ==
    /\ At(p, "load_lock")
    /\ exclusive = {}
    /\ shared' = shared \union {p}
    /\ Goto(p, "load_read")
    /\ UNCHANGED <<disk, exclusive, begun, acked>>

\* A failed load unlocks as well, and answers the error.
LoadRead(p) ==
    /\ At(p, "load_read")
    /\ call' = [call EXCEPT ![p].step = "load_unlock",
                            ![p].doc = IF Loads(p) THEN file ELSE Absent]
    /\ UNCHANGED <<disk, locks, begun, acked>>

LoadUnlock(p) ==
    /\ At(p, "load_unlock")
    /\ shared' = shared \ {p}
    /\ call' = [call EXCEPT ![p] = Idle]
    /\ UNCHANGED <<disk, exclusive, begun, acked>>

-----------------------------------------------------------------------------
(* update: exclusive lock, read, mutate, save_unlocked, unlock *)

BeginUpdate(p, u) ==
    /\ At(p, "idle")
    /\ u \notin begun
    /\ begun' = begun \union {u}
    /\ call' = [call EXCEPT ![p].step = "update_lock", ![p].update = u]
    /\ UNCHANGED <<disk, locks, acked>>

\* Mutant: the update loads under a shared lock, as load does.
LockSharedForUpdate(p) ==
    /\ At(p, "update_lock")
    /\ exclusive = {}
    /\ exclusive' = exclusive
    /\ shared' = shared \union {p}
    /\ Goto(p, "update_load")
    /\ UNCHANGED <<disk, begun, acked>>

LockExclusive(p) ==
    /\ At(p, "update_lock")
    /\ exclusive = {} /\ shared = {}
    /\ exclusive' = {p}
    /\ Goto(p, "update_load")
    /\ UNCHANGED <<disk, shared, begun, acked>>

\* The caller's closure may refuse the update: nothing is saved then.
UpdateLoad(p) ==
    /\ At(p, "update_load")
    /\ \/ /\ Loads(p)
          /\ call' = [call EXCEPT
                ![p].step = "save_create",
                ![p].doc = Doc(Supported[p], file.applied \union {call[p].update})]
       \/ Goto(p, "unlock_error")
    /\ UNCHANGED <<disk, locks, begun, acked>>

SaveFails(p) == Goto(p, "unlock_error") /\ UNCHANGED <<file, onDisk>>

SaveCreate(p) ==
    /\ At(p, "save_create")
    /\ \/ /\ Goto(p, "save_write")
          /\ tmp' = Torn                             \* created or truncated
          /\ tmpSynced' = FALSE
          /\ UNCHANGED <<file, onDisk>>
       \/ SaveFails(p) /\ UNCHANGED <<tmp, tmpSynced>>
    /\ UNCHANGED <<locks, begun, acked>>

\* A write that fails leaves a part of the document.
SaveWrite(p) ==
    /\ At(p, "save_write")
    /\ \/ Goto(p, "save_sync") /\ tmp' = call[p].doc /\ UNCHANGED <<file, onDisk>>
       \/ SaveFails(p) /\ UNCHANGED tmp
    /\ UNCHANGED <<tmpSynced, locks, begun, acked>>

\* Mutant: the temporary file is not synced.
SaveSyncSkipped(p) ==
    /\ At(p, "save_sync")
    /\ Goto(p, "save_rename")
    /\ UNCHANGED <<disk, locks, begun, acked>>

SaveSync(p) ==
    /\ At(p, "save_sync")
    /\ \/ Goto(p, "save_rename") /\ tmpSynced' = TRUE /\ UNCHANGED <<file, onDisk>>
       \/ SaveFails(p) /\ UNCHANGED tmpSynced
    /\ UNCHANGED <<tmp, locks, begun, acked>>

\* The new name is on the disk only when the directory is: until then a power
\* failure shows the old file or the new one, and the new one's contents only
\* if they were synced.
SaveRename(p) ==
    /\ At(p, "save_rename")
    /\ \/ /\ Goto(p, "save_syncdir")
          /\ file' = tmp
          /\ tmp' = Absent
          /\ onDisk' = onDisk \union {IF tmpSynced THEN tmp ELSE Torn}
       \/ SaveFails(p) /\ UNCHANGED tmp
    /\ UNCHANGED <<tmpSynced, locks, begun, acked>>

\* Mutant: the answer does not wait for the directory.
SaveSyncDirSkipped(p) ==
    /\ At(p, "save_syncdir")
    /\ Goto(p, "unlock_ok")
    /\ UNCHANGED <<disk, locks, begun, acked>>

\* When this fails the caller gets an error and yet the file is the new one.
SaveSyncDir(p) ==
    /\ At(p, "save_syncdir")
    /\ \/ Goto(p, "unlock_ok") /\ onDisk' = {file} /\ UNCHANGED file
       \/ SaveFails(p)
    /\ UNCHANGED <<tmp, tmpSynced, locks, begun, acked>>

UpdateUnlock(p) ==
    /\ \/ At(p, "unlock_ok") /\ acked' = acked \union {call[p].update}
       \/ At(p, "unlock_error") /\ UNCHANGED acked
    /\ exclusive' = exclusive \ {p}
    /\ call' = [call EXCEPT ![p] = Idle]
    /\ UNCHANGED <<disk, shared, begun>>

-----------------------------------------------------------------------------
(* The environment *)

\* The kernel releases the locks of a process that is killed.
Crash(p) ==
    /\ ~At(p, "idle")
    /\ call' = [call EXCEPT ![p] = Idle]
    /\ shared' = shared \ {p}
    /\ exclusive' = exclusive \ {p}
    /\ UNCHANGED <<disk, begun, acked>>

PowerLoss ==
    /\ file' \in onDisk
    /\ onDisk' = {file'}
    /\ tmp' \in {tmp, Torn, Absent}
    /\ tmpSynced' = TRUE
    /\ shared' = {}
    /\ exclusive' = {}
    /\ call' = [p \in Procs |-> Idle]
    /\ UNCHANGED <<begun, acked>>

Next ==
    \/ \E p \in Procs :
        \/ BeginLoad(p) \/ LockShared(p) \/ LoadRead(p) \/ LoadUnlock(p)
        \/ \E u \in Updates : BeginUpdate(p, u)
        \/ LockExclusive(p) \/ UpdateLoad(p)
        \/ SaveCreate(p) \/ SaveWrite(p) \/ SaveSync(p) \/ SaveRename(p) \/ SaveSyncDir(p)
        \/ UpdateUnlock(p)
        \/ Crash(p)
    \/ PowerLoss

Spec == Init /\ [][Next]_vars

-----------------------------------------------------------------------------
(* Properties *)

Contents == [kind : {"absent", "blank", "torn", "doc"}, version : Nat, applied : SUBSET Updates]

Saving == {"save_create", "save_write", "save_sync", "save_rename"}

Steps == Saving \union {"idle", "load_lock", "load_read", "load_unlock", "update_lock",
                        "update_load", "save_syncdir", "unlock_ok", "unlock_error"}

\* Every variable keeps its type.
TypeOK ==
    /\ file \in Contents
    /\ tmp \in Contents
    /\ tmpSynced \in BOOLEAN
    /\ onDisk \subseteq Contents
    /\ shared \subseteq Procs
    /\ exclusive \subseteq Procs
    /\ call \in [Procs -> [step : Steps, update : Updates \union {NoUpdate}, doc : Contents]]
    /\ begun \subseteq Updates
    /\ acked \subseteq Updates

\* state.json is never half a document, not after a kill and not after a power
\* failure: a torn file would make every command of the workspace fail for good.
NeverTorn == file.kind # "torn" /\ \A d \in onDisk : d.kind # "torn"

\* An update that was answered with success is in the file, whatever the callers
\* after it do, and survives a power failure.
AckedSurvives == \A d \in onDisk \union {file} : acked \subseteq d.applied

\* "rejects_future_schema_version" (state_store_persistence.rs): a caller of an older
\* program never replaces a newer state, also when the newer program writes it
\* while the older one waits for the lock.
NewerStateKept ==
    [][file'.version >= file.version \/ PowerLoss]_vars

\* The store implements AtomicStore: no update is lost or half done.
Atomic == INSTANCE AtomicStore WITH applied <- file.applied
ImplementsAtomicStore == Atomic!Spec
=============================================================================
