-------------------------- MODULE StateStoreProofs --------------------------
(***************************************************************************)
(* Proofs about StateStore: the file is never torn, what was answered is   *)
(* there, and the store implements AtomicStore, for every set of callers,  *)
(* updates and schema versions.                                            *)
(***************************************************************************)
EXTENDS StateStore, TLAPS

Holding == Saving \union {"update_load", "save_syncdir", "unlock_ok", "unlock_error"}

Updating == Holding \union {"update_lock"}

NotYetSaved == Saving \union {"update_lock", "update_load"}

\* Whoever is between its lock and its unlock holds the exclusive lock, alone.
LockHeld ==
    /\ \A p \in Procs : call[p].step \in Holding => p \in exclusive
    /\ \A p, q \in exclusive : p = q

\* A writer builds on the state that the file still has.
SavesOnTop ==
    \A p \in Procs : call[p].step \in Saving =>
        /\ call[p].doc.kind = "doc"
        /\ call[p].doc.version >= file.version
        /\ call[p].doc.applied = file.applied \union {call[p].update}

\* What a writer renames is its whole document, and it is on the disk.
TmpReady ==
    \A p \in Procs :
        /\ call[p].step \in {"save_sync", "save_rename"} => tmp = call[p].doc
        /\ call[p].step = "save_rename" => tmpSynced

\* Every update is one caller's, and in the file from its rename on.
UpdateOwned ==
    /\ \A p \in Procs : call[p].step \in Updating => call[p].update \in begun
    /\ \A p, q \in Procs :
         (call[p].step \in Updating /\ call[q].step \in Updating /\ call[p].update = call[q].update)
            => p = q
    /\ \A p \in Procs : call[p].step \in NotYetSaved => call[p].update \notin file.applied
    /\ \A p \in Procs : call[p].step \in {"save_syncdir", "unlock_ok"} => call[p].update \in file.applied
    /\ file.applied \subseteq begun

\* Every state a power failure may show is whole, an earlier state of this file,
\* and has what was answered; after the directory is synced there is just one.
DiskBehind ==
    /\ file \in onDisk
    /\ \A d \in onDisk : d.kind # "torn" /\ d.applied \subseteq file.applied /\ acked \subseteq d.applied
    /\ \A p \in Procs : call[p].step = "unlock_ok" => onDisk = {file}

\* A file that is no document has no version.
NoVersion == \A d \in onDisk : d.kind \in {"absent", "blank"} => d.version = 0

StoreInv ==
    /\ TypeOK
    /\ NoVersion
    /\ LockHeld
    /\ SavesOnTop
    /\ TmpReady
    /\ UpdateOwned
    /\ DiskBehind

-----------------------------------------------------------------------------
LEMMA StoreInvInit ==
    ASSUME Init
    PROVE  StoreInv
<1>1. TypeOK
    BY StoreAssumption DEF Init, TypeOK, Absent, Blank, Doc, Contents, Idle, Steps, Saving
<1>2. \A p \in Procs : call[p].step = "idle"
    BY DEF Init, Idle
<1>3. NoVersion /\ LockHeld /\ SavesOnTop /\ TmpReady /\ UpdateOwned
    BY <1>2 DEF Init, NoVersion, LockHeld, SavesOnTop, TmpReady, UpdateOwned, Holding, Updating, NotYetSaved, Saving,
                Absent, Blank, Doc
<1>4. DiskBehind
    BY <1>2 DEF Init, DiskBehind, Absent, Blank, Doc
<1> QED
    BY <1>1, <1>3, <1>4 DEF StoreInv

-----------------------------------------------------------------------------
ProcStep(p) ==
    \/ BeginLoad(p) \/ LockShared(p) \/ LoadRead(p) \/ LoadUnlock(p)
    \/ \E u \in Updates : BeginUpdate(p, u)
    \/ LockExclusive(p) \/ UpdateLoad(p)
    \/ SaveCreate(p) \/ SaveWrite(p) \/ SaveSync(p) \/ SaveRename(p) \/ SaveSyncDir(p)
    \/ UpdateUnlock(p)
    \/ Crash(p)

Calls == [step : Steps, update : Updates \union {NoUpdate}, doc : Contents]

\* A step of one caller leaves the call of every other as it is.
LEMMA OthersStay ==
    ASSUME TypeOK, NEW p \in Procs, ProcStep(p), NEW q \in Procs, q # p
    PROVE  call'[q] = call[q]
<1>1. ASSUME NEW r, call' = [call EXCEPT ![p] = r] PROVE call'[q] = call[q]
    BY <1>1 DEF TypeOK
<1>2. ASSUME NEW step, Goto(p, step) PROVE call'[q] = call[q]
    BY <1>2 DEF Goto, TypeOK
<1>3. CASE LoadRead(p) \/ UpdateLoad(p) \/ \E u \in Updates : BeginUpdate(p, u)
    BY <1>2, <1>3 DEF LoadRead, UpdateLoad, BeginUpdate, TypeOK
<1> QED
    BY <1>1, <1>2, <1>3
    DEF ProcStep, BeginLoad, LockShared, LoadUnlock, LockExclusive, SaveCreate, SaveWrite, SaveSync,
        SaveRename, SaveSyncDir, SaveFails, UpdateUnlock, Crash

\* Where a caller's own step takes it; only the load of an update and of a load
\* change more of its call than the step.
LEMMA OwnStep ==
    ASSUME TypeOK, NEW p \in Procs
    PROVE  /\ BeginLoad(p) => call'[p].step = "load_lock"
           /\ LockShared(p) => call'[p].step = "load_read"
           /\ LoadRead(p) => call'[p].step = "load_unlock"
           /\ LoadUnlock(p) \/ UpdateUnlock(p) \/ Crash(p) => call'[p].step = "idle"
           /\ \A u \in Updates : BeginUpdate(p, u) => call'[p].step = "update_lock" /\ call'[p].update = u
           /\ LockExclusive(p) => call'[p].step = "update_load" /\ call'[p].update = call[p].update
           /\ UpdateLoad(p) =>
                /\ call'[p].update = call[p].update
                /\ \/ call'[p].step = "unlock_error"
                   \/ /\ call'[p].step = "save_create"
                      /\ Loads(p)
                      /\ call'[p].doc = Doc(Supported[p], file.applied \union {call[p].update})
           /\ SaveCreate(p) => call'[p].step \in {"save_write", "unlock_error"}
           /\ SaveWrite(p) => call'[p].step \in {"save_sync", "unlock_error"}
           /\ SaveSync(p) => call'[p].step \in {"save_rename", "unlock_error"}
           /\ SaveRename(p) => call'[p].step \in {"save_syncdir", "unlock_error"}
           /\ SaveSyncDir(p) => call'[p].step \in {"unlock_ok", "unlock_error"}
           /\ SaveCreate(p) \/ SaveWrite(p) \/ SaveSync(p) \/ SaveRename(p) \/ SaveSyncDir(p) =>
                call'[p].update = call[p].update /\ call'[p].doc = call[p].doc
<1>1. BeginLoad(p) \/ LockShared(p) \/ LockExclusive(p) =>
        /\ BeginLoad(p) => call'[p].step = "load_lock"
        /\ LockShared(p) => call'[p].step = "load_read"
        /\ LockExclusive(p) => call'[p].step = "update_load" /\ call'[p].update = call[p].update
    BY DEF BeginLoad, LockShared, LockExclusive, Goto, TypeOK
<1>2. LoadUnlock(p) \/ UpdateUnlock(p) \/ Crash(p) => call'[p].step = "idle"
    BY DEF LoadUnlock, UpdateUnlock, Crash, Idle, TypeOK
<1>3. LoadRead(p) => call'[p].step = "load_unlock"
    BY DEF LoadRead, TypeOK
<1>4. \A u \in Updates : BeginUpdate(p, u) => call'[p].step = "update_lock" /\ call'[p].update = u
    BY DEF BeginUpdate, TypeOK
<1>5. UpdateLoad(p) =>
                /\ call'[p].update = call[p].update
                /\ \/ call'[p].step = "unlock_error"
                   \/ /\ call'[p].step = "save_create"
                      /\ Loads(p)
                      /\ call'[p].doc = Doc(Supported[p], file.applied \union {call[p].update})
    BY DEF UpdateLoad, Goto, TypeOK
<1>6. ASSUME NEW step, Goto(p, step)
      PROVE  call'[p].step = step /\ call'[p].update = call[p].update /\ call'[p].doc = call[p].doc
    BY <1>6 DEF Goto, TypeOK
<1>7. SaveCreate(p) \/ SaveWrite(p) \/ SaveSync(p) \/ SaveRename(p) \/ SaveSyncDir(p) =>
        /\ call'[p].update = call[p].update /\ call'[p].doc = call[p].doc
        /\ SaveCreate(p) => call'[p].step \in {"save_write", "unlock_error"}
        /\ SaveWrite(p) => call'[p].step \in {"save_sync", "unlock_error"}
        /\ SaveSync(p) => call'[p].step \in {"save_rename", "unlock_error"}
        /\ SaveRename(p) => call'[p].step \in {"save_syncdir", "unlock_error"}
        /\ SaveSyncDir(p) => call'[p].step \in {"unlock_ok", "unlock_error"}
    BY <1>6 DEF SaveCreate, SaveWrite, SaveSync, SaveRename, SaveSyncDir, SaveFails
<1> QED
    BY <1>1, <1>2, <1>3, <1>4, <1>5, <1>7

LEMMA CallsTyped ==
    ASSUME StoreInv, NEW p \in Procs, ProcStep(p)
    PROVE  call' \in [Procs -> Calls]
<1>0. /\ call \in [Procs -> Calls] /\ call[p] \in Calls /\ file \in Contents
      /\ Absent \in Contents /\ Idle \in Calls /\ begun \subseteq Updates
    BY DEF StoreInv, TypeOK, Calls, Absent, Contents, Idle, Steps
<1> USE DEF Goto, Calls
<1>1. ASSUME NEW r \in Calls, call' = [call EXCEPT ![p] = r] PROVE call' \in [Procs -> Calls]
    BY <1>0, <1>1
<1>2. ASSUME NEW step \in Steps, Goto(p, step) PROVE call' \in [Procs -> Calls]
    BY <1>0, <1>2
<1>3. CASE LoadRead(p)
    <2>1. PICK d \in Contents : call' = [call EXCEPT ![p].step = "load_unlock", ![p].doc = d]
        BY <1>0, <1>3 DEF LoadRead
    <2> QED
        BY <1>0, <2>1 DEF Steps
<1>4. ASSUME NEW u \in Updates, BeginUpdate(p, u) PROVE call' \in [Procs -> Calls]
    BY <1>0, <1>4 DEF BeginUpdate, Steps
<1>5. CASE UpdateLoad(p)
    <2>1. call[p].update \in Updates
        BY <1>0, <1>5 DEF UpdateLoad, At, StoreInv, UpdateOwned, Updating, Holding
    <2>2. Doc(Supported[p], file.applied \union {call[p].update}) \in Contents
        BY <1>0, <2>1, StoreAssumption DEF Doc, Contents
    <2>3. PICK d \in Contents : \/ call' = [call EXCEPT ![p].step = "save_create", ![p].doc = d]
                                \/ Goto(p, "unlock_error")
        BY <1>5, <2>2 DEF UpdateLoad
    <2> QED
        BY <1>0, <2>3 DEF Steps, Saving
<1> QED
    BY <1>0, <1>1, <1>2, <1>3, <1>4, <1>5
    DEF ProcStep, BeginLoad, LockShared, LoadUnlock, LockExclusive, SaveCreate, SaveWrite, SaveSync,
        SaveRename, SaveSyncDir, SaveFails, UpdateUnlock, Crash, Steps, Saving

\* What a step may do to the disk.
LEMMA DiskNext ==
    ASSUME StoreInv, NEW p \in Procs, ProcStep(p)
    PROVE  \/ UNCHANGED <<file, onDisk>>
           \/ SaveRename(p) /\ file' = tmp /\ onDisk' = onDisk \union {tmp} /\ tmp = call[p].doc
           \/ SaveSyncDir(p) /\ file' = file /\ onDisk' = {file}
<1>1. CASE SaveRename(p)
    BY <1>1 DEF SaveRename, SaveFails, At, StoreInv, TmpReady
<1>2. CASE SaveSyncDir(p)
    BY <1>2 DEF SaveSyncDir, SaveFails
<1> QED
    BY <1>1, <1>2
    DEF ProcStep, BeginLoad, LockShared, LoadRead, LoadUnlock, BeginUpdate, LockExclusive, UpdateLoad,
        SaveCreate, SaveWrite, SaveSync, SaveFails, UpdateUnlock, Crash, disk

LEMMA TypeNext ==
    ASSUME StoreInv, NEW p \in Procs, ProcStep(p)
    PROVE  TypeOK'
<1>0. TypeOK /\ call' \in [Procs -> Calls] /\ Absent \in Contents /\ Torn \in Contents
    BY CallsTyped DEF StoreInv, Absent, Torn, Contents
<1>1. call[p].step \in Updating => call[p].update \in Updates
    BY <1>0 DEF StoreInv, UpdateOwned, TypeOK
<1>2. file' \in Contents /\ onDisk' \subseteq Contents
    BY <1>0, DiskNext DEF TypeOK
<1>3. tmp' \in Contents /\ tmpSynced' \in BOOLEAN
    BY <1>0
    DEF TypeOK, ProcStep, BeginLoad, LockShared, LoadRead, LoadUnlock, BeginUpdate, LockExclusive,
        UpdateLoad, SaveCreate, SaveWrite, SaveSync, SaveRename, SaveSyncDir, UpdateUnlock, Crash, disk
<1>4. shared' \subseteq Procs /\ exclusive' \subseteq Procs
    BY <1>0
    DEF TypeOK, ProcStep, BeginLoad, LockShared, LoadRead, LoadUnlock, BeginUpdate, LockExclusive,
        UpdateLoad, SaveCreate, SaveWrite, SaveSync, SaveRename, SaveSyncDir, UpdateUnlock, Crash, locks
<1>5. begun' \subseteq Updates /\ acked' \subseteq Updates
    BY <1>0, <1>1
    DEF TypeOK, ProcStep, BeginLoad, LockShared, LoadRead, LoadUnlock, BeginUpdate, LockExclusive,
        UpdateLoad, SaveCreate, SaveWrite, SaveSync, SaveRename, SaveSyncDir, UpdateUnlock, Crash,
        At, Updating, Holding
<1> QED
    BY <1>0, <1>2, <1>3, <1>4, <1>5 DEF TypeOK, Calls

-----------------------------------------------------------------------------
\* The exclusive lock is taken when nobody has it, and given back at the end.
LEMMA LockHeldNext ==
    ASSUME StoreInv, NEW p \in Procs, ProcStep(p)
    PROVE  LockHeld'
<1>0. TypeOK /\ call[p] \in Calls /\ LockHeld /\ p \in Procs
    BY DEF StoreInv, TypeOK, Calls
<1> USE DEF Holding, Saving, At
<1>1. CASE LockExclusive(p)
    <2>1. exclusive' = {p} /\ exclusive = {}
        BY <1>1 DEF LockExclusive
    <2>2. \A q \in Procs : q # p => call'[q] = call[q]
        BY <1>0, OthersStay
    <2>3. \A q \in Procs : q # p => call'[q].step \notin Holding
        BY <1>0, <2>1, <2>2 DEF LockHeld
    <2> QED
        BY <2>1, <2>3 DEF LockHeld
<1>2. CASE UpdateUnlock(p) \/ Crash(p)
    <2>1. exclusive' = exclusive \ {p} /\ call'[p].step = "idle"
        BY <1>0, <1>2, OwnStep DEF UpdateUnlock, Crash
    <2>2. \A q \in Procs : q # p => call'[q] = call[q]
        BY <1>0, OthersStay
    <2> QED
        BY <1>0, <2>1, <2>2 DEF LockHeld
<1>3. CASE ~LockExclusive(p) /\ ~UpdateUnlock(p) /\ ~Crash(p)
    <2>1. exclusive' = exclusive
        BY <1>3
        DEF ProcStep, BeginLoad, LockShared, LoadRead, LoadUnlock, BeginUpdate, UpdateLoad,
            SaveCreate, SaveWrite, SaveSync, SaveRename, SaveSyncDir, locks
    <2>2. call'[p].step \in Holding => call[p].step \in Holding
        BY <1>0, <1>3, OwnStep
        DEF ProcStep, BeginLoad, LockShared, LoadRead, LoadUnlock, BeginUpdate, UpdateLoad,
            SaveCreate, SaveWrite, SaveSync, SaveRename, SaveSyncDir
    <2>3. \A q \in Procs : q # p => call'[q] = call[q]
        BY <1>0, OthersStay
    <2> QED
        BY <1>0, <2>1, <2>2, <2>3 DEF LockHeld
<1> QED
    BY <1>1, <1>2, <1>3

\* Two callers never hold the lock: while one is between lock and unlock, no
\* other saves.
LEMMA AloneInside ==
    ASSUME StoreInv, NEW p \in Procs, NEW q \in Procs,
           call[p].step \in Holding, call[q].step \in Holding
    PROVE  p = q
BY DEF StoreInv, LockHeld

\* A save in progress: its document is on top of the file, and in the temporary
\* file once it is written.
LEMMA SavesNext ==
    ASSUME StoreInv, NEW p \in Procs, ProcStep(p)
    PROVE  SavesOnTop' /\ TmpReady'
<1>0. TypeOK /\ call[p] \in Calls /\ SavesOnTop /\ TmpReady /\ file \in Contents
    BY DEF StoreInv, TypeOK, Calls
<1> USE DEF Saving, At
<1>1. ASSUME NEW q \in Procs, q # p, call'[q].step \in Saving
      PROVE  UNCHANGED <<file, tmp, tmpSynced>> /\ call'[q] = call[q]
    <2>1. call'[q] = call[q]
        BY <1>0, <1>1, OthersStay
    <2>2. call[p].step \notin Holding
        BY <1>1, <2>1, AloneInside DEF Holding
    <2> QED
        BY <2>1, <2>2
        DEF ProcStep, BeginLoad, LockShared, LoadRead, LoadUnlock, BeginUpdate, LockExclusive, UpdateLoad,
            SaveCreate, SaveWrite, SaveSync, SaveRename, SaveSyncDir, UpdateUnlock, Crash, disk, Holding
<1>2. CASE UpdateLoad(p)
    <2>1. UNCHANGED file
        BY <1>2 DEF UpdateLoad, disk
    <2>2. call'[p].step \in Saving =>
            /\ call'[p].step = "save_create"
            /\ call'[p].update = call[p].update
            /\ Loads(p)
            /\ call'[p].doc = Doc(Supported[p], file.applied \union {call[p].update})
        BY <1>0, <1>2, OwnStep
    <2>3. Loads(p) => Supported[p] >= file.version
        BY <1>0, StoreAssumption DEF Loads, Contents, StoreInv, NoVersion, DiskBehind
    <2> QED
        BY <1>1, <1>0, <2>1, <2>2, <2>3 DEF SavesOnTop, TmpReady, Doc
<1>3. CASE SaveCreate(p) \/ SaveWrite(p) \/ SaveSync(p)
    <2>1. UNCHANGED file
        BY <1>3 DEF SaveCreate, SaveWrite, SaveSync, SaveFails
    <2>2. /\ call'[p].doc = call[p].doc /\ call'[p].update = call[p].update
          /\ call'[p].step \in Saving => call[p].step \in Saving
        BY <1>0, <1>3, OwnStep DEF SaveCreate, SaveWrite, SaveSync
    <2>3. SavesOnTop'
        BY <1>0, <1>1, <2>1, <2>2 DEF SavesOnTop
    <2>4. /\ call'[p].step \in {"save_sync", "save_rename"} => tmp' = call'[p].doc
          /\ call'[p].step = "save_rename" => tmpSynced'
        <3>1. CASE SaveCreate(p)
            BY <1>0, <3>1, OwnStep
        <3>2. CASE SaveWrite(p)
            <4>1. call'[p].step = "save_sync" => tmp' = call[p].doc
                BY <1>0, <3>2 DEF SaveWrite, SaveFails, Goto, TypeOK
            <4> QED
                BY <1>0, <3>2, <4>1, <2>2, OwnStep
        <3>3. CASE SaveSync(p)
            <4>1. tmp' = tmp /\ (call'[p].step = "save_rename" => tmpSynced')
                BY <1>0, <3>3 DEF SaveSync, SaveFails, Goto, TypeOK
            <4>2. tmp = call[p].doc
                BY <1>0, <3>3 DEF SaveSync, TmpReady
            <4> QED
                BY <4>1, <4>2, <2>2
        <3> QED
            BY <1>3, <3>1, <3>2, <3>3
    <2> QED
        BY <1>0, <1>1, <2>3, <2>4 DEF TmpReady
<1>4. ASSUME call'[p].step \notin Saving
      PROVE  SavesOnTop' /\ TmpReady'
    BY <1>0, <1>1, <1>4 DEF SavesOnTop, TmpReady
<1>5. CASE ~UpdateLoad(p) /\ ~SaveCreate(p) /\ ~SaveWrite(p) /\ ~SaveSync(p)
    <2>1. call'[p].step \notin Saving
        BY <1>0, <1>5, OwnStep DEF ProcStep
    <2> QED
        BY <1>4, <2>1
<1> QED
    BY <1>2, <1>3, <1>5

-----------------------------------------------------------------------------
\* The update of a caller is its own; it is in the file from the rename on.
LEMMA UpdateOwnedNext ==
    ASSUME StoreInv, NEW p \in Procs, ProcStep(p)
    PROVE  UpdateOwned'
<1>0. TypeOK /\ UpdateOwned /\ \A q \in Procs : q # p => call'[q] = call[q]
    BY OthersStay DEF StoreInv
<1>1. CASE \E u \in Updates : BeginUpdate(p, u)
    <2>1. PICK u \in Updates : BeginUpdate(p, u)
        BY <1>1
    <2>2. UNCHANGED file /\ begun' = begun \union {u} /\ u \notin begun
        BY <2>1 DEF BeginUpdate, disk
    <2>3. call'[p].step = "update_lock" /\ call'[p].update = u
        BY <1>0, <2>1, OwnStep
    <2> QED
        BY <1>0, <2>2, <2>3 DEF UpdateOwned, Updating, NotYetSaved, Holding, Saving
<1>2. CASE SaveRename(p)
    <2>1. begun' = begun
        BY <1>2 DEF SaveRename
    <2>2. /\ call[p].step = "save_rename"
          /\ call'[p].step \in {"save_syncdir", "unlock_error"}
          /\ call'[p].update = call[p].update
        BY <1>0, <1>2, OwnStep DEF SaveRename, At
    <2>3. \/ file' = file /\ call'[p].step = "unlock_error"
          \/ file'.applied = file.applied \union {call[p].update}
        BY <1>0, <1>2, <2>2 DEF SaveRename, SaveFails, Goto, StoreInv, TypeOK, SavesOnTop, TmpReady, Saving
    <2>4. \A q \in Procs : call[q].step \in Updating /\ call[q].update = call[p].update => q = p
        BY <1>0, <2>2 DEF UpdateOwned, Updating, Holding, Saving
    <2>5. \A q \in Procs : call'[q].step \in NotYetSaved => call'[q].update \notin file'.applied
        BY <1>0, <2>2, <2>3, <2>4 DEF UpdateOwned, NotYetSaved, Updating, Holding, Saving
    <2>6. \A q \in Procs : call'[q].step \in {"save_syncdir", "unlock_ok"} => call'[q].update \in file'.applied
        BY <1>0, <2>2, <2>3 DEF UpdateOwned
    <2>7. file'.applied \subseteq begun'
        BY <1>0, <2>1, <2>2, <2>3 DEF UpdateOwned, Updating, Holding, Saving
    <2> QED
        BY <1>0, <2>1, <2>2, <2>5, <2>6, <2>7 DEF UpdateOwned, Updating, Holding, Saving
<1>3. CASE ~SaveRename(p) /\ ~\E u \in Updates : BeginUpdate(p, u)
    <2>1. UNCHANGED <<file, begun>>
        BY <1>3
        DEF ProcStep, BeginLoad, LockShared, LoadRead, LoadUnlock, LockExclusive, UpdateLoad, SaveCreate,
            SaveWrite, SaveSync, SaveFails, SaveSyncDir, UpdateUnlock, Crash, disk
    <2>2. call'[p].step \in Updating =>
            /\ call[p].step \in Updating
            /\ call'[p].update = call[p].update
            /\ call'[p].step \in NotYetSaved => call[p].step \in NotYetSaved
            /\ call'[p].step \in {"save_syncdir", "unlock_ok"} => call[p].step = "save_syncdir"
        BY <1>0, <1>3, OwnStep
        DEF ProcStep, Updating, NotYetSaved, Holding, Saving, At, LockExclusive, UpdateLoad, SaveCreate,
            SaveWrite, SaveSync, SaveSyncDir
    <2>3. NotYetSaved \subseteq Updating /\ {"save_syncdir", "unlock_ok"} \subseteq Updating
        BY DEF NotYetSaved, Updating, Holding, Saving
    <2> QED
        BY <1>0, <2>1, <2>2, <2>3 DEF UpdateOwned
<1> QED
    BY <1>1, <1>2, <1>3

\* What a power failure may show stays behind the file, and has what was answered.
LEMMA DiskBehindNext ==
    ASSUME StoreInv, NEW p \in Procs, ProcStep(p)
    PROVE  DiskBehind'
<1>0. TypeOK /\ DiskBehind /\ \A q \in Procs : q # p => call'[q] = call[q]
    BY OthersStay DEF StoreInv
<1>1. CASE SaveRename(p)
    <2>1. acked' = acked /\ call[p].step = "save_rename" /\ call'[p].step # "unlock_ok"
        BY <1>0, <1>1, OwnStep DEF SaveRename, At
    <2>2. \A q \in Procs : call[q].step # "unlock_ok"
        BY <2>1, AloneInside DEF Holding, Saving
    <2>3. \/ UNCHANGED <<file, onDisk>>
          \/ /\ file' = call[p].doc /\ onDisk' = onDisk \union {call[p].doc}
             /\ call[p].doc.kind = "doc" /\ file.applied \subseteq call[p].doc.applied
        BY <1>1, <2>1 DEF SaveRename, SaveFails, StoreInv, SavesOnTop, TmpReady, Saving
    <2> QED
        BY <1>0, <2>1, <2>2, <2>3 DEF DiskBehind
<1>2. CASE SaveSyncDir(p)
    <2>1. acked' = acked /\ call[p].step = "save_syncdir" /\ file' = file
        BY <1>2 DEF SaveSyncDir, SaveFails, At
    <2>2. (onDisk' = onDisk /\ call'[p].step # "unlock_ok") \/ onDisk' = {file}
        BY <1>0, <1>2 DEF SaveSyncDir, SaveFails, Goto, TypeOK
    <2>3. \A q \in Procs : call[q].step # "unlock_ok"
        BY <2>1, AloneInside DEF Holding, Saving
    <2> QED
        BY <1>0, <2>1, <2>2, <2>3 DEF DiskBehind
<1>3. CASE UpdateUnlock(p)
    <2>1. UNCHANGED <<file, onDisk>> /\ call'[p].step = "idle"
        BY <1>0, <1>3, OwnStep DEF UpdateUnlock, disk
    <2>2. acked' = acked \/ (call[p].step = "unlock_ok" /\ acked' = acked \union {call[p].update})
        BY <1>3 DEF UpdateUnlock, At
    <2>3. call[p].step = "unlock_ok" => onDisk = {file} /\ call[p].update \in file.applied
        BY <1>0 DEF DiskBehind, StoreInv, UpdateOwned
    <2> QED
        BY <1>0, <2>1, <2>2, <2>3 DEF DiskBehind
<1>4. CASE ~SaveRename(p) /\ ~SaveSyncDir(p) /\ ~UpdateUnlock(p)
    <2>1. UNCHANGED <<file, onDisk, acked>>
        BY <1>4
        DEF ProcStep, BeginLoad, LockShared, LoadRead, LoadUnlock, BeginUpdate, LockExclusive, UpdateLoad,
            SaveCreate, SaveWrite, SaveSync, SaveFails, Crash, disk
    <2>2. call'[p].step # "unlock_ok"
        BY <1>0, <1>4, OwnStep DEF ProcStep
    <2> QED
        BY <1>0, <2>1, <2>2 DEF DiskBehind
<1> QED
    BY <1>1, <1>2, <1>3, <1>4

LEMMA NoVersionNext ==
    ASSUME StoreInv, NEW p \in Procs, ProcStep(p)
    PROVE  NoVersion'
<1>1. CASE SaveRename(p)
    <2>1. onDisk' = onDisk \/ (onDisk' = onDisk \union {call[p].doc} /\ call[p].doc.kind = "doc")
        BY <1>1 DEF SaveRename, SaveFails, StoreInv, SavesOnTop, TmpReady, Saving, At
    <2> QED
        BY <2>1 DEF StoreInv, NoVersion
<1>2. CASE ~SaveRename(p)
    BY <1>2, DiskNext DEF StoreInv, NoVersion, DiskBehind
<1> QED
    BY <1>1, <1>2

\* A power failure leaves one of the states the disk may show, and no caller.
LEMMA PowerLossKeeps ==
    ASSUME StoreInv, PowerLoss
    PROVE  StoreInv'
<1>1. /\ file' \in onDisk /\ onDisk' = {file'} /\ shared' = {} /\ exclusive' = {}
      /\ tmp' \in {tmp, Torn, Absent} /\ tmpSynced' = TRUE
      /\ call' = [q \in Procs |-> Idle] /\ begun' = begun /\ acked' = acked
    BY DEF PowerLoss
<1>2. TypeOK'
    BY <1>1 DEF StoreInv, TypeOK, Contents, Torn, Absent, Idle, Steps
<1>3. \A q \in Procs : call'[q].step = "idle"
    BY <1>1 DEF Idle
<1>4. NoVersion' /\ LockHeld' /\ SavesOnTop' /\ TmpReady'
    BY <1>1, <1>3 DEF StoreInv, NoVersion, LockHeld, SavesOnTop, TmpReady, Holding, Saving
<1>5. UpdateOwned' /\ DiskBehind'
    BY <1>1, <1>3 DEF StoreInv, UpdateOwned, DiskBehind, Updating, NotYetSaved, Holding, Saving
<1> QED
    BY <1>2, <1>4, <1>5 DEF StoreInv

LEMMA NextIs ==
    Next <=> (\E p \in Procs : ProcStep(p)) \/ PowerLoss
BY DEF Next, ProcStep

LEMMA StoreInvNext ==
    ASSUME StoreInv, [Next]_vars
    PROVE  StoreInv'
<1>1. CASE \E p \in Procs : ProcStep(p)
    BY <1>1, TypeNext, NoVersionNext, LockHeldNext, SavesNext, UpdateOwnedNext, DiskBehindNext DEF StoreInv
<1>2. CASE PowerLoss
    BY <1>2, PowerLossKeeps
<1>3. CASE UNCHANGED vars
    BY <1>3
    DEF vars, StoreInv, TypeOK, NoVersion, LockHeld, SavesOnTop, TmpReady, UpdateOwned, DiskBehind
<1> QED
    BY <1>1, <1>2, <1>3, NextIs

\* The invariant of the protocol around the state file: StateStore::update keeps
\* its lock, its document and its temporary file in step with the file.
THEOREM StoreInvariant == Spec => []StoreInv
BY StoreInvInit, StoreInvNext, PTL DEF Spec

\* StateStore never leaves half a document in state.json.
THEOREM NeverTornAlways == Spec => []NeverTorn
<1>1. StoreInv => NeverTorn
    BY DEF StoreInv, DiskBehind, NeverTorn
<1> QED
    BY <1>1, StoreInvariant, PTL

\* What StateStore::update answered with success is in the file for good.
THEOREM AckedSurvivesAlways == Spec => []AckedSurvives
<1>1. StoreInv => AckedSurvives
    BY DEF StoreInv, DiskBehind, AckedSurvives
<1> QED
    BY <1>1, StoreInvariant, PTL

\* Only a power failure, never a caller, makes the file's version smaller.
THEOREM NewerStateKeptAlways == Spec => NewerStateKept
<1>1. ASSUME StoreInv, [Next]_vars
      PROVE  [file'.version >= file.version \/ PowerLoss]_vars
    <2>1. file.version \in Nat
        BY <1>1 DEF StoreInv, TypeOK, Contents
    <2>2. CASE \E p \in Procs : ProcStep(p)
        <3>1. PICK p \in Procs : ProcStep(p)
            BY <2>2
        <3>2. file' = file \/ (SaveRename(p) /\ file' = call[p].doc)
            BY <1>1, <3>1, DiskNext
        <3>3. SaveRename(p) => call[p].doc.version >= file.version
            BY <1>1 DEF SaveRename, At, StoreInv, SavesOnTop, Saving
        <3> QED
            BY <2>1, <3>2, <3>3
    <2> QED
        BY <1>1, <2>2, NextIs
<1> QED
    BY <1>1, StoreInvariant, PTL DEF Spec, NewerStateKept

-----------------------------------------------------------------------------
\* A step of a caller is a step of the store it promises, or none.
LEMMA CallerStepIsAtomic ==
    ASSUME StoreInv, NEW p \in Procs, ProcStep(p)
    PROVE  [Atomic!Next]_<<file.applied, acked>>
<1>1. CASE SaveRename(p)
    <2>1. acked' = acked /\ (file' = file \/ file'.applied = file.applied \union {call[p].update})
        BY <1>1 DEF SaveRename, SaveFails, At, StoreInv, SavesOnTop, TmpReady, Saving
    <2>2. call[p].update \in Updates /\ call[p].update \notin file.applied
        BY <1>1 DEF SaveRename, At, StoreInv, UpdateOwned, TypeOK, Updating, Holding, NotYetSaved, Saving
    <2> QED
        BY <2>1, <2>2 DEF Atomic!Next, Atomic!Apply
<1>2. CASE UpdateUnlock(p)
    <2>1. file' = file
        BY <1>2 DEF UpdateUnlock, disk
    <2>2. \/ acked' = acked
          \/ call[p].step = "unlock_ok" /\ acked' = acked \union {call[p].update}
        BY <1>2 DEF UpdateUnlock, At
    <2>3. call[p].step = "unlock_ok" => call[p].update \in Updates /\ call[p].update \in file.applied
        BY DEF StoreInv, UpdateOwned, TypeOK, Updating, Holding
    <2> QED
        BY <2>1, <2>2, <2>3 DEF Atomic!Next, Atomic!Acknowledge
<1>3. CASE ~SaveRename(p) /\ ~UpdateUnlock(p)
    <2>1. UNCHANGED <<file, acked>>
        BY <1>3
        DEF ProcStep, BeginLoad, LockShared, LoadRead, LoadUnlock, BeginUpdate, LockExclusive, UpdateLoad,
            SaveCreate, SaveWrite, SaveSync, SaveFails, SaveSyncDir, Crash, disk
    <2> QED
        BY <2>1
<1> QED
    BY <1>1, <1>2, <1>3

\* StateStore implements AtomicStore: an update happens at its rename, whole, on
\* the outcome of those before it.
THEOREM Refinement == Spec => ImplementsAtomicStore
<1>1. Init => Atomic!Init
    BY DEF Init, Atomic!Init, Absent, Blank, Doc
<1>2. ASSUME StoreInv, [Next]_vars
      PROVE  [Atomic!Next]_<<file.applied, acked>>
    <2>1. CASE PowerLoss
        <3>1. file' \in onDisk /\ acked' = acked
            BY <2>1 DEF PowerLoss
        <3>2. file'.applied \subseteq file.applied /\ acked \subseteq file'.applied
            BY <1>2, <3>1 DEF StoreInv, DiskBehind
        <3> DEFINE lost == file.applied \ file'.applied
        <3>3. /\ lost \in SUBSET file.applied /\ lost \intersect acked = {}
              /\ file'.applied = file.applied \ lost
            BY <3>2
        <3> QED
            BY <3>1, <3>3 DEF Atomic!Next, Atomic!Undo
    <2>2. CASE UNCHANGED vars
        BY <2>2 DEF vars
    <2> QED
        BY <1>2, <2>1, <2>2, NextIs, CallerStepIsAtomic
<1> QED
    BY <1>1, <1>2, StoreInvariant, PTL DEF Spec, ImplementsAtomicStore, Atomic!Spec
=============================================================================
