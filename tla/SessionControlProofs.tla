------------------------ MODULE SessionControlProofs ------------------------
(* Proofs about SessionControl, for any number of sessions, callers and pids. *)
EXTENDS SessionControl, TLAPS

Untargeted == {"idle", "list_update", "cleanup_update"}

\* Every job but a list or a cleanup is about one session.
JobSessions == \A a \in Actors : job[a].step \notin Untargeted => job[a].session \in Sessions

TypeInv == TypeOK /\ JobSessions

-----------------------------------------------------------------------------
\* A reconcile of any set of sessions keeps the types.
LEMMA ReconcileSavedTypes ==
    ASSUME TypeOK, NEW R, ReconcileSaved(R)
    PROVE  /\ status' \in [Sessions -> Statuses]
           /\ pid' \in [Sessions -> Pids \union {NoPid}]
           /\ logPath' \subseteq Sessions /\ logFile' \subseteq Sessions
           /\ proc' \in [Pids -> {"gone", "running", "paused"}]
<1>1. PICK f \in Spawns(Respawns(R)) :
        /\ status' = StatusAfter(R)
        /\ pid' = PidAfter(R, f)
        /\ proc' = WithRunning(NewPids(f))
        /\ logFile' = logFile \union Respawns(R)
        /\ UNCHANGED logPath
    BY DEF ReconcileSaved
<1>2. Respawns(R) \subseteq Sessions
    BY DEF Respawns, DeadRecords, Recorded
<1>3. f \in [Respawns(R) -> Pids]
    BY DEF Spawns, Fresh
<1>4. status' \in [Sessions -> Statuses]
    BY <1>1 DEF StatusAfter, TypeOK, Statuses
<1>5. pid' \in [Sessions -> Pids \union {NoPid}]
    BY <1>1, <1>3 DEF PidAfter, TypeOK
<1>6. proc' \in [Pids -> {"gone", "running", "paused"}]
    BY <1>1 DEF WithRunning, TypeOK
<1> QED
    BY <1>1, <1>2, <1>4, <1>5, <1>6 DEF TypeOK

LEMMA ReconcileLostTypes ==
    ASSUME TypeOK, NEW S, NEW touched \in SUBSET Sessions, ReconcileLost(S, touched)
    PROVE  /\ UNCHANGED record
           /\ logFile' \subseteq Sessions
           /\ proc' \in [Pids -> {"gone", "running", "paused"}]
<1>1. PICK f \in Spawns(S) :
        /\ proc' = WithRunning(NewPids(f))
        /\ logFile' = logFile \union touched
        /\ UNCHANGED record
    BY DEF ReconcileLost
<1>2. NewPids(f) \subseteq Pids
    BY DEF NewPids, Spawns, Fresh
<1> QED
    BY <1>1, <1>2 DEF WithRunning, TypeOK

LEMMA ReconcileFailsTypes ==
    ASSUME TypeOK, NEW R, ReconcileFails(R)
    PROVE  /\ UNCHANGED record
           /\ logFile' \subseteq Sessions
           /\ proc' \in [Pids -> {"gone", "running", "paused"}]
<1>1. Respawns(R) \subseteq Sessions
    BY DEF Respawns, DeadRecords, Recorded
<1>2. PICK S \in SUBSET Respawns(R), touched \in SUBSET Sessions : ReconcileLost(S, touched)
    BY <1>1 DEF ReconcileFails
<1> QED
    BY <1>2, ReconcileLostTypes

-----------------------------------------------------------------------------
\* The ways a job moves, each of which keeps the type of jobs.
JobsTyped == job \in [Actors -> Jobs] /\ JobSessions

LEMMA IdleJob == Idle \in Jobs
BY ConstantsAssumption DEF Idle, Jobs, Steps

LEMMA JobBecomes ==
    ASSUME JobsTyped, NEW a \in Actors, NEW r \in Jobs,
           r.step \notin Untargeted => r.session \in Sessions,
           Become(a, r)
    PROVE  JobsTyped'
BY DEF JobsTyped, JobSessions, Become

\* Where an operation begins, it has neither found nor spawned a worker.
Beginnings == {"start_spawn", "stop_load", "restart_load", "list_update", "cleanup_update"}

LEMMA CallBegins ==
    ASSUME job \in [Actors -> Jobs], NEW a \in Actors, Call(a)
    PROVE  /\ job'[a].step \in Beginnings
           /\ job'[a].spawned = NoPid /\ job'[a].expected = NoPid
<1> DEFINE Begun == /\ job'[a].step \in Beginnings
                    /\ job'[a].spawned = NoPid /\ job'[a].expected = NoPid
<1>1. ASSUME NEW r, Become(a, r) PROVE job'[a] = r
    BY <1>1 DEF Become
<1>2. ASSUME NEW step \in Beginnings, NEW s, NEW force, Begin(a, step, s, force) PROVE Begun
    <2> DEFINE r == [Idle EXCEPT !.step = step, !.session = s, !.force = force, !.attempt = 1]
    <2>1. job'[a] = r
        BY <1>1, <1>2 DEF Begin
    <2>2. r.step = step /\ r.spawned = NoPid /\ r.expected = NoPid
        BY DEF Idle
    <2> QED
        BY <2>1, <2>2
<1>3. ASSUME NEW step \in Beginnings, NEW ids, BeginScan(a, step, ids) PROVE Begun
    <2> DEFINE r == [Idle EXCEPT !.step = step, !.ids = ids]
    <2>1. job'[a] = r
        BY <1>1, <1>3 DEF BeginScan
    <2>2. r.step = step /\ r.spawned = NoPid /\ r.expected = NoPid
        BY DEF Idle
    <2> QED
        BY <2>1, <2>2
<1> HIDE DEF Begun
<1>4. ASSUME NEW s \in Sessions, BeginStart(a, s) PROVE Begun
    BY <1>2, <1>4 DEF BeginStart, Beginnings
<1>5. ASSUME NEW s \in Sessions, NEW force \in BOOLEAN, BeginStop(a, s, force) PROVE Begun
    BY <1>2, <1>5 DEF BeginStop, Beginnings
<1>6. ASSUME NEW s \in Sessions, NEW force \in BOOLEAN, BeginRestart(a, s, force) PROVE Begun
    BY <1>2, <1>6 DEF BeginRestart, Beginnings
<1>7. ASSUME BeginList(a) \/ BeginCleanup(a) PROVE Begun
    BY <1>3, <1>7 DEF BeginList, BeginCleanup, Beginnings
<1>8. Begun
    BY <1>4, <1>5, <1>6, <1>7 DEF Call
<1> QED
    BY <1>8 DEF Begun

LEMMA FinishTyped == ASSUME JobsTyped, NEW a \in Actors, Finish(a) PROVE JobsTyped'
BY IdleJob, JobBecomes DEF Finish, Idle, Untargeted

LEMMA GotoTyped ==
    ASSUME JobsTyped, NEW a \in Actors, NEW step \in Steps,
           Goto(a, step), job[a].step \notin Untargeted
    PROVE  JobsTyped'
<1> DEFINE r == [job[a] EXCEPT !.step = step]
<1>1. r \in Jobs /\ r.session = job[a].session
    BY DEF JobsTyped, Jobs
<1> QED
    BY <1>1, JobBecomes DEF JobsTyped, JobSessions, Goto

LEMMA GotoExpectingTyped ==
    ASSUME JobsTyped, NEW a \in Actors, NEW p \in Pids \union {NoPid},
           NEW without \in Steps, NEW with \in Steps,
           GotoExpecting(a, p, without, with), job[a].step \notin Untargeted
    PROVE  JobsTyped'
<1> DEFINE r == [job[a] EXCEPT !.step = IF p = NoPid THEN without ELSE with, !.expected = p]
<1>1. r \in Jobs /\ r.session = job[a].session
    BY DEF JobsTyped, Jobs
<1> QED
    BY <1>1, JobBecomes DEF JobsTyped, JobSessions, GotoExpecting

LEMMA RetryTyped ==
    ASSUME JobsTyped, NEW a \in Actors, NEW step \in Steps,
           RetryFrom(a, step), job[a].step \notin Untargeted
    PROVE  JobsTyped'
<1> DEFINE r == [job[a] EXCEPT !.step = step, !.attempt = @ + 1,
                               !.expected = NoPid, !.spawned = NoPid]
<1>1. CASE job[a].attempt < MaxRetries
    <2>1. job[a] \in Jobs
        BY DEF JobsTyped
    <2>2. job[a].attempt + 1 \in 0..MaxRetries
        BY <1>1, <2>1, ConstantsAssumption DEF Jobs
    <2>3. r \in Jobs /\ r.session = job[a].session
        BY <2>1, <2>2 DEF Jobs
    <2>4. Become(a, r)
        BY <1>1 DEF RetryFrom, Again
    <2> QED
        BY <2>3, <2>4, JobBecomes DEF JobsTyped, JobSessions
<1>2. CASE ~(job[a].attempt < MaxRetries)
    BY <1>2, FinishTyped DEF RetryFrom
<1> QED
    BY <1>1, <1>2

LEMMA BeginTyped ==
    ASSUME JobsTyped, NEW a \in Actors, NEW step \in Steps, NEW s \in Sessions,
           NEW force \in BOOLEAN, Begin(a, step, s, force)
    PROVE  JobsTyped'
<1> DEFINE r == [Idle EXCEPT !.step = step, !.session = s, !.force = force, !.attempt = 1]
<1>1. 1 \in 0..MaxRetries
    BY ConstantsAssumption
<1>2. r \in Jobs /\ r.session = s
    BY <1>1, IdleJob DEF Jobs, Idle
<1> QED
    BY <1>2, JobBecomes DEF Begin

LEMMA BeginScanTyped ==
    ASSUME JobsTyped, NEW a \in Actors, NEW step \in Steps \intersect Untargeted,
           NEW ids \in SUBSET Sessions, BeginScan(a, step, ids)
    PROVE  JobsTyped'
<1> DEFINE r == [Idle EXCEPT !.step = step, !.ids = ids]
<1>1. r \in Jobs /\ r.step = step
    BY IdleJob DEF Jobs, Idle
<1> QED
    BY <1>1, JobBecomes DEF BeginScan

LEMMA SpawnWorkerTyped ==
    ASSUME TypeInv, NEW a \in Actors, NEW next \in Steps,
           job[a].step \notin Untargeted, SpawnWorker(a, next) \/ SpawnFails(a)
    PROVE  TypeInv'
<1> DEFINE s == job[a].session
<1>0. JobsTyped /\ s \in Sessions
    BY DEF TypeInv, TypeOK, JobsTyped, JobSessions
<1>1. CASE SpawnWorker(a, next)
    <2>1. PICK p \in Fresh :
            /\ proc' = WithRunning({p})
            /\ logFile' = logFile \union {s}
            /\ Become(a, [job[a] EXCEPT !.step = next, !.spawned = p])
            /\ UNCHANGED <<record, daemonUp>>
        BY <1>1 DEF SpawnWorker
    <2> DEFINE r == [job[a] EXCEPT !.step = next, !.spawned = p]
    <2>2. p \in Pids
        BY DEF Fresh
    <2>3. r \in Jobs /\ r.session = s
        BY <1>0, <2>2 DEF JobsTyped, Jobs
    <2>4. JobsTyped'
        BY <1>0, <2>1, <2>3, JobBecomes
    <2> QED
        BY <1>0, <2>1, <2>4 DEF TypeInv, TypeOK, JobsTyped, record, WithRunning
<1>2. CASE SpawnFails(a)
    BY <1>0, <1>2, FinishTyped DEF SpawnFails, TypeInv, TypeOK, JobsTyped, record
<1> QED
    BY <1>1, <1>2

LEMMA SignalTyped ==
    ASSUME TypeInv, NEW a \in Actors, NEW next \in Steps,
           job[a].step \notin Untargeted, Signal(a, next)
    PROVE  TypeInv'
<1>1. JobsTyped
    BY DEF TypeInv, TypeOK, JobsTyped
<1>2. JobsTyped'
    BY <1>1, FinishTyped, GotoTyped DEF Signal
<1>3. proc' \in [Pids -> {"gone", "running", "paused"}]
    BY DEF Signal, WithGone, TypeInv, TypeOK
<1> QED
    BY <1>2, <1>3 DEF Signal, TypeInv, TypeOK, JobsTyped, record

LEMMA CleanupSavedTypes ==
    ASSUME TypeOK, NEW R, CleanupSaved(R)
    PROVE  /\ status' \in [Sessions -> Statuses]
           /\ pid' \in [Sessions -> Pids \union {NoPid}]
           /\ logPath' \subseteq Sessions /\ logFile' \subseteq Sessions
           /\ proc' \in [Pids -> {"gone", "running", "paused"}]
<1>1. PICK f \in Spawns(Respawns(R)), removed \in SUBSET Recorded :
        /\ status' = [s \in Sessions |-> IF s \in removed THEN "absent" ELSE StatusAfter(R)[s]]
        /\ pid' = [s \in Sessions |-> IF s \in removed THEN NoPid ELSE PidAfter(R, f)[s]]
        /\ proc' = WithRunning(NewPids(f))
        /\ logFile' = (logFile \union Respawns(R)) \ (removed \intersect logPath)
        /\ logPath' = logPath \ removed
    BY DEF CleanupSaved
<1>2. Respawns(R) \subseteq Sessions
    BY DEF Respawns, DeadRecords, Recorded
<1>3. f \in [Respawns(R) -> Pids]
    BY DEF Spawns, Fresh
<1>4. status' \in [Sessions -> Statuses]
    BY <1>1 DEF StatusAfter, TypeOK, Statuses
<1>5. PidAfter(R, f) \in [Sessions -> Pids \union {NoPid}]
    BY <1>3 DEF PidAfter, TypeOK
<1>6. proc' \in [Pids -> {"gone", "running", "paused"}]
    BY <1>1 DEF WithRunning, TypeOK
<1> QED
    BY <1>1, <1>2, <1>4, <1>5, <1>6 DEF TypeOK

LEMMA CleanupUnsavedTypes ==
    ASSUME TypeOK, NEW R, CleanupUnsaved(R)
    PROVE  /\ status' \in [Sessions -> Statuses]
           /\ pid' \in [Sessions -> Pids \union {NoPid}]
           /\ logPath' \subseteq Sessions /\ logFile' \subseteq Sessions
           /\ proc' \in [Pids -> {"gone", "running", "paused"}]
<1>1. Respawns(R) \subseteq Sessions
    BY DEF Respawns, DeadRecords, Recorded
<1> QED
    BY <1>1 DEF CleanupUnsaved, WithRunning, record, TypeOK

LEMMA LogsFailTyped ==
    ASSUME TypeOK, NEW s \in Sessions, LogsFail(s)
    PROVE  /\ UNCHANGED record
           /\ logFile' \subseteq Sessions
           /\ proc' \in [Pids -> {"gone", "running", "paused"}]
<1>1. Respawns({s}) \subseteq Sessions
    BY DEF Respawns, DeadRecords, Recorded
<1>2. CASE UNCHANGED <<record, logFile, proc>>
    BY <1>2 DEF record, TypeOK
<1>3. CASE ReconcileLost(Respawns({s}), Respawns({s}))
    BY <1>1, <1>3, ReconcileLostTypes
<1>4. CASE ReconcileFails({s})
    BY <1>4, ReconcileFailsTypes
<1> QED
    BY <1>2, <1>3, <1>4 DEF LogsFail

-----------------------------------------------------------------------------
LEMMA TypeInvInit == ASSUME Init PROVE TypeInv
BY IdleJob DEF Init, TypeInv, TypeOK, JobSessions, Statuses, Untargeted, Idle

LEMMA TypeInvNext == ASSUME TypeInv, [Next]_vars PROVE TypeInv'
<1>0. JobsTyped
    BY DEF JobsTyped, TypeInv, TypeOK
<1> USE DEF At, Steps, Untargeted
<1>1. CASE UNCHANGED vars
    BY <1>1 DEF vars, record, TypeInv, TypeOK, JobSessions
<1>2. ASSUME NEW a \in Actors, NEW s \in Sessions, BeginStart(a, s)
      PROVE  TypeInv'
    BY <1>0, <1>2, BeginTyped DEF BeginStart, record, TypeInv, TypeOK, JobsTyped
<1>3. ASSUME NEW a \in Actors, StartSpawn(a)
      PROVE  TypeInv'
    BY <1>3, SpawnWorkerTyped DEF StartSpawn
<1>4. ASSUME NEW a \in Actors, StartUpdate(a)
      PROVE  TypeInv'
    <2> DEFINE r == [job[a] EXCEPT !.step = "follow_logs", !.spawned = NoPid]
    <2>1. job[a].session \in Sessions /\ job[a].spawned \in Pids \union {NoPid}
        BY <1>0, <1>4 DEF StartUpdate, StartSaved, StartUnsaved, JobsTyped, JobSessions, Jobs
    <2>2. r \in Jobs /\ r.session = job[a].session
        <3>1. job[a] \in Jobs /\ "follow_logs" \in Steps
            BY <1>0 DEF JobsTyped
        <3> HIDE DEF Steps
        <3> QED
            BY <3>1 DEF Jobs
    <2>3. JobsTyped'
        BY <1>0, <1>4, <2>1, <2>2, FinishTyped, JobBecomes
        DEF StartUpdate, StartSaved, StartUnsaved
    <2>4. CASE StartSaved(a)
        BY <1>4, <2>1, <2>3, <2>4
        DEF StartUpdate, StartSaved, Record, TypeInv, TypeOK, JobsTyped, Statuses
    <2>5. CASE StartUnsaved(a)
        BY <1>4, <2>3, <2>5 DEF StartUpdate, StartUnsaved, record, TypeInv, TypeOK, JobsTyped
    <2> QED
        BY <1>4, <2>4, <2>5 DEF StartUpdate
<1>5. ASSUME NEW a \in Actors, NEW s \in Sessions, NEW force \in BOOLEAN,
             BeginStop(a, s, force) \/ BeginRestart(a, s, force)
      PROVE  TypeInv'
    BY <1>0, <1>5, BeginTyped DEF BeginStop, BeginRestart, record, TypeInv, TypeOK, JobsTyped
<1>6. ASSUME NEW a \in Actors, StopLoad(a) \/ RestartLoad(a)
      PROVE  TypeInv'
    <2>1. JobsTyped'
        <3>1. pid[job[a].session] \in Pids \union {NoPid}
            BY <1>0, <1>6 DEF StopLoad, RestartLoad, JobsTyped, JobSessions, TypeInv, TypeOK
        <3> QED
            BY <1>0, <1>6, <3>1, FinishTyped, GotoExpectingTyped DEF StopLoad, RestartLoad
    <2> QED
        BY <1>6, <2>1 DEF StopLoad, RestartLoad, record, TypeInv, TypeOK, JobsTyped
<1>7. ASSUME NEW a \in Actors, StopSignal(a) \/ RestartSignal(a)
      PROVE  TypeInv'
    BY <1>7, SignalTyped DEF StopSignal, RestartSignal
<1>8. ASSUME NEW a \in Actors, StopUpdate(a)
      PROVE  TypeInv'
    <2>1. JobsTyped'
        BY <1>0, <1>8, FinishTyped, GotoTyped, RetryTyped
        DEF StopUpdate, StopMissing, StopSaved, StopComesSecond, StopConflicts, StopUnsaved,
            LeaveStop, AfterStop
    <2> QED
        BY <1>8, <2>1
        DEF StopUpdate, StopMissing, StopSaved, StopComesSecond, StopConflicts, StopUnsaved,
            Record, record, TypeInv, TypeOK, JobsTyped, Statuses
<1>9. ASSUME NEW a \in Actors, StopPost(a) \/ StopPrune(a)
      PROVE  TypeInv'
    <2>1. JobsTyped'
        BY <1>0, <1>9, FinishTyped, GotoTyped DEF StopPost, StopPrune, LeaveStop, AfterStop
    <2>2. job[a].session \in Sessions
        BY <1>0, <1>9 DEF StopPost, StopPrune, JobsTyped, JobSessions
    <2> QED
        BY <1>9, <2>1, <2>2 DEF StopPost, StopPrune, record, TypeInv, TypeOK, JobsTyped
<1>10. ASSUME NEW a \in Actors, RestartSpawn(a)
       PROVE  TypeInv'
    BY <1>10, SpawnWorkerTyped DEF RestartSpawn
<1>11. ASSUME NEW a \in Actors, RestartUpdate(a)
       PROVE  TypeInv'
    <2>1. JobsTyped'
        BY <1>0, <1>11, FinishTyped, GotoTyped
        DEF RestartUpdate, RestartSaved, RestartRecords, RestartRefused, RestartUnsaved
    <2>2. job[a].session \in Sessions /\ job[a].spawned \in Pids \union {NoPid}
        BY <1>0, <1>11 DEF RestartUpdate, JobsTyped, JobSessions, Jobs
    <2> QED
        BY <1>11, <2>1, <2>2
        DEF RestartUpdate, RestartSaved, RestartRecords, RestartRefused, RestartUnsaved, Record,
            record, TypeInv, TypeOK,
            JobsTyped, Statuses
<1>12. ASSUME NEW a \in Actors, RestartUndo(a)
       PROVE  TypeInv'
    <2>1. JobsTyped'
        BY <1>0, <1>12, FinishTyped, RetryTyped DEF RestartUndo
    <2> QED
        BY <1>12, <2>1 DEF RestartUndo, WithGone, record, TypeInv, TypeOK, JobsTyped
<1>13. ASSUME NEW s \in Sessions, Suspend(s) \/ Resume(s)
       PROVE  TypeInv'
    BY <1>13 DEF Suspend, Resume, SignalRecorded, Record, TypeInv, TypeOK, JobSessions, Statuses
<1> DEFINE StoreTyped ==
            /\ status' \in [Sessions -> Statuses]
            /\ pid' \in [Sessions -> Pids \union {NoPid}]
            /\ logPath' \subseteq Sessions /\ logFile' \subseteq Sessions
            /\ proc' \in [Pids -> {"gone", "running", "paused"}]
<1>14. ASSUME StoreTyped, JobsTyped', daemonUp' \in BOOLEAN
       PROVE  TypeInv'
    BY <1>14 DEF TypeInv, TypeOK, JobsTyped
<1>15. ASSUME NEW R, ReconcileSaved(R) \/ ReconcileFails(R)
       PROVE  StoreTyped
    BY <1>15, ReconcileSavedTypes, ReconcileFailsTypes DEF TypeInv, TypeOK, record
<1>16. ASSUME NEW s \in Sessions, LogsFound(s) \/ LogsFail(s)
       PROVE  StoreTyped
    BY <1>16, <1>15, LogsFailTyped DEF LogsFound, TypeInv, TypeOK, record
<1> HIDE DEF StoreTyped
<1>17. ASSUME NEW s \in Sessions, GetSession(s) \/ Logs(s)
       PROVE  TypeInv'
    <2>1. StoreTyped
        BY <1>15, <1>16, <1>17 DEF GetSession, Logs
    <2>2. JobsTyped' /\ daemonUp' \in BOOLEAN
        BY <1>0, <1>17 DEF GetSession, Logs, JobsTyped, JobSessions, TypeInv, TypeOK
    <2> QED
        BY <1>14, <2>1, <2>2
<1>18. ASSUME NEW a \in Actors, FollowLogs(a)
       PROVE  TypeInv'
    <2> DEFINE r == [job[a] EXCEPT !.step = "follow_wait", !.expected = pid'[job[a].session]]
    <2>1. job[a].session \in Sessions
        BY <1>0, <1>18 DEF FollowLogs, JobsTyped, JobSessions
    <2>2. StoreTyped
        BY <1>16, <1>18, <2>1 DEF FollowLogs
    <2>3. r \in Jobs /\ r.session = job[a].session
        <3>1. job[a] \in Jobs /\ "follow_wait" \in Steps /\ pid'[job[a].session] \in Pids \union {NoPid}
            BY <1>0, <2>1, <2>2 DEF JobsTyped, StoreTyped
        <3> HIDE DEF Steps
        <3> QED
            BY <3>1 DEF Jobs
    <2>4. JobsTyped'
        BY <1>0, <1>18, <2>1, <2>3, FinishTyped, JobBecomes DEF FollowLogs
    <2> QED
        BY <1>14, <1>18, <2>2, <2>4 DEF FollowLogs, TypeInv, TypeOK
<1>19. ASSUME NEW a \in Actors, FollowEnds(a)
       PROVE  TypeInv'
    <2>1. JobsTyped'
        BY <1>0, <1>19, GotoTyped DEF FollowEnds
    <2> QED
        BY <1>19, <2>1 DEF FollowEnds, record, TypeInv, TypeOK, JobsTyped
<1>20. ASSUME NEW a \in Actors, FollowFinalize(a)
       PROVE  TypeInv'
    <2> DEFINE s == job[a].session
    <2>1. JobsTyped' /\ daemonUp' \in BOOLEAN
        BY <1>0, <1>20, FinishTyped DEF FollowFinalize, TypeInv, TypeOK
    <2>2. CASE UNCHANGED <<record, logFile, proc>>
        BY <2>1, <2>2 DEF record, TypeInv, TypeOK, JobsTyped
    <2>3. CASE ReconcileSaved({s}) \/ ReconcileFails({s})
        BY <1>14, <1>15, <2>1, <2>3
    <2>4. CASE /\ status' = StatusAfter({s}) /\ pid' = PidAfter({s}, <<>>)
               /\ logFile' = IF s \in logPath THEN logFile \ {s} ELSE logFile
               /\ logPath' = logPath \ {s} /\ UNCHANGED proc
               /\ StatusAfter({s})[s] = "stopped"
        <3>1. s \in Sessions
            BY <1>0, <1>20 DEF FollowFinalize, JobsTyped, JobSessions
        <3>2. Respawns({s}) = {}
            BY <2>4, <3>1 DEF StatusAfter, Respawns, DeadRecords
        <3>3. pid' \in [Sessions -> Pids \union {NoPid}]
            BY <2>4, <3>2 DEF PidAfter, TypeInv, TypeOK
        <3>4. status' \in [Sessions -> Statuses]
            BY <2>4 DEF StatusAfter, Statuses, TypeInv, TypeOK
        <3> QED
            BY <2>1, <2>4, <3>3, <3>4 DEF TypeInv, TypeOK, JobsTyped
    <2>5. CASE /\ UNCHANGED record /\ UNCHANGED proc
               /\ logFile' = IF s \in logPath THEN logFile \ {s} ELSE logFile
        BY <2>1, <2>5 DEF record, TypeInv, TypeOK, JobsTyped
    <2> QED
        BY <1>20, <2>2, <2>3, <2>4, <2>5 DEF FollowFinalize
<1>21. ASSUME NEW a \in Actors, BeginList(a) \/ BeginCleanup(a)
       PROVE  TypeInv'
    <2>1. ReconcileCandidates \subseteq Sessions
        BY DEF ReconcileCandidates, Recorded
    <2> QED
        BY <1>0, <1>21, <2>1, BeginScanTyped
        DEF BeginList, BeginCleanup, record, TypeInv, TypeOK, JobsTyped
<1>22. ASSUME NEW a \in Actors, ListUpdate(a)
       PROVE  TypeInv'
    BY <1>0, <1>14, <1>15, <1>22, FinishTyped DEF ListUpdate, TypeInv, TypeOK
<1>23. ASSUME NEW a \in Actors, CleanupUpdate(a)
       PROVE  TypeInv'
    <2>1. JobsTyped' /\ daemonUp' \in BOOLEAN
        BY <1>0, <1>23, FinishTyped DEF CleanupUpdate, TypeInv, TypeOK
    <2>2. CASE CleanupSaved(job[a].ids)
        BY <1>14, <2>1, <2>2, CleanupSavedTypes DEF StoreTyped, TypeInv
    <2>3. CASE CleanupUnsaved(job[a].ids)
        BY <1>14, <2>1, <2>3, CleanupUnsavedTypes DEF StoreTyped, TypeInv
    <2> QED
        BY <1>14, <1>15, <1>23, <2>1, <2>2, <2>3 DEF CleanupUpdate
<1>24. CASE DaemonStart \/ DaemonPass
    <2>1. JobsTyped' /\ daemonUp' \in BOOLEAN
        BY <1>0, <1>24 DEF DaemonStart, DaemonPass, JobsTyped, JobSessions, TypeInv, TypeOK
    <2>2. CASE DaemonStart
        BY <2>1, <2>2 DEF DaemonStart, record, TypeInv, TypeOK, JobsTyped
    <2> QED
        BY <1>14, <1>15, <1>24, <2>1, <2>2 DEF DaemonPass
<1>25. ASSUME NEW p \in Pids, Exit(p)
       PROVE  TypeInv'
    BY <1>25 DEF Exit, WithGone, record, TypeInv, TypeOK, JobSessions
<1>26. ASSUME NEW a \in Actors, Crash(a)
       PROVE  TypeInv'
    <2>1. JobsTyped'
        BY <1>0, <1>26, FinishTyped DEF Crash
    <2> QED
        BY <1>26, <2>1 DEF Crash, record, TypeInv, TypeOK, JobsTyped
<1> QED
    BY <1>1, <1>2, <1>3, <1>4, <1>5, <1>6, <1>7, <1>8, <1>9, <1>10, <1>11, <1>12, <1>13,
       <1>17, <1>18, <1>19, <1>20, <1>21, <1>22, <1>23, <1>24, <1>25, <1>26
    DEF Next, Call, JobStep

\* Type correctness: every variable keeps its type, and no caller tries an operation
\* more often than the retry budget, whatever the others do.
THEOREM TypeCorrect == Spec => []TypeOK
<1>1. Init => TypeInv
    BY TypeInvInit
<1>2. TypeInv /\ [Next]_vars => TypeInv'
    BY TypeInvNext
<1>3. TypeInv => TypeOK
    BY DEF TypeInv
<1> QED
    BY <1>1, <1>2, <1>3, PTL DEF Spec

-----------------------------------------------------------------------------
(* The inductive invariant behind the safety properties. *)

Spawning == {"start_update", "restart_update", "undo_conflict", "undo_error"}

\* A spawned pid is held only from the spawn to the record or the kill.
SpawnedHeld == \A a \in Actors : job[a].spawned # NoPid => job[a].step \in Spawning

\* Whoever is past its signal knows that the worker it found is gone, and no new
\* worker gets that pid while it remembers it.
PastSignal == {"stop_update", "restart_spawn", "restart_update"}

ExpectedGone ==
    \A a \in Actors : (job[a].step \in PastSignal /\ job[a].expected # NoPid)
                        => proc[job[a].expected] = "gone"

\* Only a running or a suspended record has a pid.
RecordPids == \A s \in Sessions : pid[s] # NoPid => status[s] \in {"running", "suspended"}

\* A start works on a session that has no record, and alone.
Starting(a) == job[a].step \in {"start_spawn", "start_update"}

StartsNew ==
    \A a \in Actors : Starting(a) =>
        /\ status[job[a].session] = "absent"
        /\ \A b \in Actors : Starting(b) /\ job[b].session = job[a].session => a = b

SafetyInv ==
    /\ TypeInv
    /\ SpawnedHeld
    /\ ExpectedGone
    /\ RecordPids
    /\ StartsNew

-----------------------------------------------------------------------------
\* No action but a spawn changes a process that is gone, and a spawn takes a pid
\* that nothing refers to.
LEMMA GoneStaysGone ==
    ASSUME TypeInv, [Next]_vars, NEW p \in Pids, proc[p] = "gone", p \notin Fresh
    PROVE  proc'[p] = "gone"
<1>1. ASSUME NEW S, NEW f \in Spawns(S), proc' = WithRunning(NewPids(f))
      PROVE  proc'[p] = "gone"
    <2>1. NewPids(f) \subseteq Fresh
        BY DEF NewPids, Spawns
    <2> QED
        BY <1>1, <2>1 DEF WithRunning
<1>2. ASSUME NEW R, ReconcileSaved(R) \/ ReconcileFails(R) PROVE proc'[p] = "gone"
    BY <1>1, <1>2 DEF ReconcileSaved, ReconcileFails, ReconcileLost
<1>3. ASSUME NEW s, LogsFound(s) \/ LogsFail(s) PROVE proc'[p] = "gone"
    BY <1>1, <1>2, <1>3 DEF LogsFound, LogsFail, ReconcileLost
<1>4. ASSUME NEW a \in Actors, NEW next, SpawnWorker(a, next) \/ SpawnFails(a)
      PROVE  proc'[p] = "gone"
    BY <1>4 DEF SpawnWorker, SpawnFails, WithRunning
<1>5. ASSUME NEW a \in Actors, NEW next, Signal(a, next) PROVE proc'[p] = "gone"
    BY <1>5 DEF Signal, WithGone, TypeInv, TypeOK
<1>6. CASE UNCHANGED vars
    BY <1>6 DEF vars
<1>7. ASSUME NEW a \in Actors, Call(a) PROVE proc'[p] = "gone"
    BY <1>7 DEF Call, BeginStart, BeginStop, BeginRestart, BeginList, BeginCleanup
<1>8. ASSUME NEW a \in Actors, JobStep(a) PROVE proc'[p] = "gone"
    <2>1. CASE StartSpawn(a) \/ RestartSpawn(a)
        BY <1>4, <2>1 DEF StartSpawn, RestartSpawn
    <2>2. CASE StopSignal(a) \/ RestartSignal(a)
        BY <1>5, <2>2 DEF StopSignal, RestartSignal
    <2>3. CASE StartUpdate(a) \/ StopLoad(a) \/ StopUpdate(a) \/ StopPost(a) \/ StopPrune(a)
               \/ RestartLoad(a) \/ RestartUpdate(a) \/ FollowEnds(a)
        BY <2>3
        DEF StartUpdate, StartSaved, StartUnsaved, StopLoad, StopUpdate, StopPost, StopPrune,
            RestartLoad,
                    RestartUpdate, FollowEnds
    <2>4. CASE RestartUndo(a)
        BY <2>4 DEF RestartUndo, WithGone, TypeInv, TypeOK
    <2>5. CASE FollowLogs(a)
        BY <1>3, <2>5 DEF FollowLogs
    <2>6. CASE FollowFinalize(a)
        BY <1>2, <2>6 DEF FollowFinalize
    <2>7. CASE ListUpdate(a)
        BY <1>2, <2>7 DEF ListUpdate
    <2>8. CASE CleanupUpdate(a)
        BY <1>1, <1>2, <2>8 DEF CleanupUpdate, CleanupSaved, CleanupUnsaved
    <2> QED
        BY <1>8, <2>1, <2>2, <2>3, <2>4, <2>5, <2>6, <2>7, <2>8 DEF JobStep
<1>9. ASSUME NEW a \in Actors, Crash(a) PROVE proc'[p] = "gone"
    BY <1>9 DEF Crash
<1>10. ASSUME NEW s \in Sessions, Suspend(s) \/ Resume(s) PROVE proc'[p] = "gone"
    BY <1>10 DEF Suspend, Resume, SignalRecorded, TypeInv, TypeOK
<1>11. ASSUME NEW s \in Sessions, GetSession(s) \/ Logs(s) PROVE proc'[p] = "gone"
    BY <1>2, <1>3, <1>11 DEF GetSession, Logs
<1>12. CASE DaemonStart \/ DaemonPass
    BY <1>2, <1>12 DEF DaemonStart, DaemonPass
<1>13. ASSUME NEW q \in Pids, Exit(q) PROVE proc'[p] = "gone"
    BY <1>13 DEF Exit, WithGone, TypeInv, TypeOK
<1> QED
    BY <1>6, <1>7, <1>8, <1>9, <1>10, <1>11, <1>12, <1>13 DEF Next

-----------------------------------------------------------------------------
\* A step of one caller moves the job of no other.
LEMMA OwnJobOnly ==
    ASSUME TypeInv, NEW a \in Actors, Call(a) \/ JobStep(a) \/ Crash(a),
           NEW b \in Actors, a # b
    PROVE  job'[b] = job[b]
<1>0. ASSUME NEW r, Become(a, r) PROVE job'[b] = job[b]
    BY <1>0 DEF Become, TypeInv, TypeOK
<1>1. ASSUME NEW step, Goto(a, step) \/ RetryFrom(a, step) \/ Finish(a) PROVE job'[b] = job[b]
    BY <1>0, <1>1 DEF Goto, RetryFrom, Again, Finish
<1>2. ASSUME NEW step, SpawnWorker(a, step) \/ SpawnFails(a) PROVE job'[b] = job[b]
    BY <1>0, <1>1, <1>2 DEF SpawnWorker, SpawnFails
<1>3. ASSUME NEW step, Signal(a, step) PROVE job'[b] = job[b]
    BY <1>1, <1>3 DEF Signal
<1>4. CASE Call(a)
    BY <1>0, <1>4 DEF Call, BeginStart, BeginStop, BeginRestart, BeginList, BeginCleanup,
                      Begin, BeginScan
<1>5. CASE StartSpawn(a) \/ RestartSpawn(a)
    BY <1>2, <1>5 DEF StartSpawn, RestartSpawn
<1>6. CASE StopSignal(a) \/ RestartSignal(a)
    BY <1>3, <1>6 DEF StopSignal, RestartSignal
<1>7. CASE StartUpdate(a) \/ StopLoad(a) \/ RestartLoad(a) \/ FollowLogs(a)
    BY <1>0, <1>1, <1>7
    DEF StartUpdate, StartSaved, StartUnsaved, StopLoad, RestartLoad, FollowLogs, GotoExpecting
<1>8. CASE StopUpdate(a) \/ StopPost(a) \/ StopPrune(a)
    BY <1>1, <1>8 DEF StopUpdate, StopPost, StopPrune, StopMissing, StopSaved, StopComesSecond,
                      StopConflicts, StopUnsaved, LeaveStop
<1>9. CASE RestartUpdate(a) \/ RestartUndo(a)
    BY <1>1, <1>9
    DEF RestartUpdate, RestartUndo, RestartSaved, RestartRecords, RestartRefused, RestartUnsaved
<1>10. CASE FollowEnds(a) \/ FollowFinalize(a) \/ ListUpdate(a) \/ CleanupUpdate(a) \/ Crash(a)
    BY <1>1, <1>10 DEF FollowEnds, FollowFinalize, ListUpdate, CleanupUpdate, Crash
<1> QED
    BY <1>4, <1>5, <1>6, <1>7, <1>8, <1>9, <1>10 DEF JobStep

LEMMA HeldPidsNext ==
    ASSUME TypeInv, SpawnedHeld, ExpectedGone, [Next]_vars
    PROVE  SpawnedHeld' /\ ExpectedGone'
<1> DEFINE Sound(b) ==
        /\ job'[b].spawned # NoPid => job'[b].step \in Spawning
        /\ (job'[b].step \in PastSignal /\ job'[b].expected # NoPid)
             => proc'[job'[b].expected] = "gone"
<1> SUFFICES ASSUME NEW b \in Actors PROVE Sound(b)
    BY DEF SpawnedHeld, ExpectedGone
<1>0. job \in [Actors -> Jobs] /\ job[b] \in Jobs
    BY DEF TypeInv, TypeOK
<1>1. job[b].expected # NoPid /\ proc[job[b].expected] = "gone" => proc'[job[b].expected] = "gone"
    <2>1. job[b].expected # NoPid => job[b].expected \in Pids \ Fresh
        BY <1>0 DEF Jobs, Fresh
    <2> QED
        BY <2>1, GoneStaysGone
<1>2. job[b].spawned # NoPid => job[b].step \in Spawning
    BY DEF SpawnedHeld
<1>3. job[b].step \in PastSignal /\ job[b].expected # NoPid => proc[job[b].expected] = "gone"
    BY DEF ExpectedGone
<1>4. CASE job'[b] = job[b]
    BY <1>1, <1>2, <1>3, <1>4
<1> USE DEF At, Spawning, PastSignal, Steps
<1>5. ASSUME NEW r, Become(b, r) PROVE job'[b] = r
    BY <1>0, <1>5 DEF Become
<1>6. CASE Finish(b)
    BY <1>5, <1>6 DEF Finish, Idle
<1>7. CASE Call(b)
    BY <1>0, <1>7, CallBegins
<1>8. ASSUME NEW step \in Steps \ PastSignal, Goto(b, step), job[b].spawned = NoPid \/ step \in Spawning
      PROVE  Sound(b)
    BY <1>0, <1>5, <1>8 DEF Goto, Jobs
<1>9. ASSUME NEW step \in Steps \ PastSignal, RetryFrom(b, step) PROVE Sound(b)
    BY <1>0, <1>5, <1>6, <1>9 DEF RetryFrom, Again, Jobs
<1>10. CASE StartSpawn(b) \/ RestartSpawn(b)
    <2>1. ASSUME NEW step \in {"start_update", "restart_update"},
                 step = "restart_update" => At(b, "restart_spawn"), SpawnWorker(b, step)
          PROVE  Sound(b)
        BY <1>0, <1>1, <1>3, <1>5, <2>1 DEF SpawnWorker, Jobs
    <2> QED
        BY <1>6, <1>10, <2>1 DEF StartSpawn, RestartSpawn, SpawnFails
<1>11. CASE StopSignal(b) \/ RestartSignal(b)
    <2>1. ASSUME NEW step, Goto(b, step), proc'[job[b].expected] = "gone" \/ job[b].expected = NoPid,
                 job[b].spawned = NoPid
          PROVE  Sound(b)
        BY <1>0, <1>5, <2>1 DEF Goto, Jobs
    <2>2. job[b].spawned = NoPid
        BY <1>2, <1>11 DEF StopSignal, RestartSignal
    <2> QED
        BY <1>0, <1>1, <1>6, <1>11, <2>1, <2>2
        DEF StopSignal, RestartSignal, Signal, Alive, WithGone, Jobs, TypeInv, TypeOK
<1>12. CASE StartUpdate(b)
    BY <1>0, <1>5, <1>6, <1>12 DEF StartUpdate, StartSaved, StartUnsaved, Jobs
<1>13. CASE StopLoad(b) \/ RestartLoad(b)
    BY <1>0, <1>2, <1>5, <1>6, <1>13 DEF StopLoad, RestartLoad, GotoExpecting, Jobs
<1>14. CASE FollowLogs(b)
    BY <1>0, <1>2, <1>5, <1>6, <1>14 DEF FollowLogs, Jobs
<1>15. CASE StopUpdate(b) \/ StopPost(b) \/ StopPrune(b)
    <2>1. job[b].spawned = NoPid
        BY <1>2, <1>15 DEF StopUpdate, StopPost, StopPrune
    <2> QED
        BY <1>6, <1>8, <1>9, <1>15, <2>1
        DEF StopUpdate, StopPost, StopPrune, StopMissing, StopSaved, StopComesSecond,
            StopConflicts, StopUnsaved, LeaveStop, AfterStop
<1>16. CASE RestartUpdate(b) \/ RestartUndo(b)
    BY <1>6, <1>8, <1>9, <1>16
    DEF RestartUpdate, RestartUndo, RestartSaved, RestartRecords, RestartRefused, RestartUnsaved
<1>17. CASE FollowEnds(b) \/ FollowFinalize(b) \/ ListUpdate(b) \/ CleanupUpdate(b) \/ Crash(b)
    BY <1>2, <1>6, <1>8, <1>17 DEF FollowEnds, FollowFinalize, ListUpdate, CleanupUpdate, Crash
<1>18. ASSUME NEW a \in Actors, Call(a) \/ JobStep(a) \/ Crash(a) PROVE Sound(b)
    <2>1. CASE a = b
        BY <1>7, <1>10, <1>11, <1>12, <1>13, <1>14, <1>15, <1>16, <1>17, <1>18, <2>1 DEF JobStep
    <2>2. CASE a # b
        BY <1>4, <1>18, <2>2, OwnJobOnly
    <2> QED
        BY <2>1, <2>2
<1>19. CASE UNCHANGED job
    BY <1>4, <1>19
<1> QED
    BY <1>18, <1>19
    DEF Next, vars, Suspend, Resume, SignalRecorded, GetSession, Logs, DaemonStart, DaemonPass,
        Exit

-----------------------------------------------------------------------------
\* What an update that reconciles does to the records, however it ends: records
\* keep their live workers, absent ones stay absent, and every new worker is
\* recorded, or lost with the update that is not saved.
SoundUpdate ==
    /\ RecordPids'
    /\ \A s \in Sessions : status[s] = "absent" => status'[s] = "absent"
    /\ \A s \in Sessions : Alive(pid[s]) => pid'[s] = pid[s]
    /\ \A p \in Pids : proc'[p] # "gone" =>
            proc[p] # "gone" \/ (\E s \in Sessions : pid'[s] = p) \/ UNCHANGED record

LEMMA SavedIsSound ==
    ASSUME TypeInv, RecordPids, NEW R, ReconcileSaved(R)
    PROVE  SoundUpdate
<1>1. PICK f \in Spawns(Respawns(R)) :
        /\ status' = StatusAfter(R)
        /\ pid' = PidAfter(R, f)
        /\ proc' = WithRunning(NewPids(f))
    BY DEF ReconcileSaved
<1>2. Respawns(R) \subseteq DeadRecords(R) /\ DeadRecords(R) \subseteq Recorded
    BY DEF Respawns, DeadRecords
<1>3. RecordPids'
    BY <1>1 DEF RecordPids, StatusAfter, PidAfter
<1>4. \A s \in Sessions : status[s] = "absent" => status'[s] = "absent"
    BY <1>1, <1>2 DEF StatusAfter, Recorded
<1>5. \A s \in Sessions : Alive(pid[s]) => pid'[s] = pid[s]
    BY <1>1, <1>2 DEF PidAfter, DeadRecords
<1>6. ASSUME NEW p \in Pids, proc'[p] # "gone", proc[p] = "gone"
      PROVE  \E s \in Sessions : pid'[s] = p
    <2>1. p \in NewPids(f)
        BY <1>1, <1>6 DEF WithRunning
    <2>2. PICK s \in Respawns(R) : p = f[s]
        BY <2>1 DEF NewPids, Spawns
    <2> QED
        BY <1>1, <2>2 DEF PidAfter, Respawns, DeadRecords, Recorded
<1> QED
    BY <1>1, <1>3, <1>4, <1>5, <1>6 DEF SoundUpdate

LEMMA LostIsSound ==
    ASSUME TypeInv, RecordPids, NEW S, NEW touched, ReconcileLost(S, touched)
    PROVE  SoundUpdate
<1>1. PICK f \in Spawns(S) :
        /\ proc' = WithRunning(NewPids(f))
        /\ UNCHANGED record
    BY DEF ReconcileLost
<1> QED
    BY <1>1 DEF SoundUpdate, RecordPids, record, WithRunning

LEMMA FailsIsSound ==
    ASSUME TypeInv, RecordPids, NEW R, ReconcileFails(R)
    PROVE  SoundUpdate
BY LostIsSound DEF ReconcileFails

LEMMA LogsIsSound ==
    ASSUME TypeInv, RecordPids, NEW s, LogsFound(s) \/ LogsFail(s)
    PROVE  SoundUpdate
<1>1. CASE UNCHANGED <<record, logFile, proc>>
    BY <1>1 DEF SoundUpdate, RecordPids, record
<1> QED
    BY <1>1, SavedIsSound, FailsIsSound, LostIsSound DEF LogsFound, LogsFail

\* A cleanup takes a session without a live worker, one that no reconcile respawns.
LEMMA RemovedIsDead ==
    ASSUME RecordPids, NEW R, NEW s \in Recorded, StatusAfter(R)[s] \in CleanupStatuses
    PROVE  s \notin Respawns(R) /\ ~Alive(pid[s])
<1>1. s \in Sessions /\ StatusAfter(R)[s] \in {"stopped", "unknown"}
    BY DEF Recorded, CleanupStatuses
<1>2. s \notin Respawns(R)
    BY <1>1 DEF StatusAfter
<1>3. CASE s \in DeadRecords(R)
    BY <1>2, <1>3 DEF DeadRecords
<1>4. CASE s \notin DeadRecords(R)
    BY <1>1, <1>2, <1>4 DEF StatusAfter, RecordPids, Alive
<1> QED
    BY <1>2, <1>3, <1>4

LEMMA CleanupUnsavedIsSound ==
    ASSUME TypeInv, RecordPids, NEW R, CleanupUnsaved(R)
    PROVE  SoundUpdate
<1>1. UNCHANGED record
    BY DEF CleanupUnsaved
<1> QED
    BY <1>1 DEF SoundUpdate, RecordPids, record

LEMMA CleanupIsSound ==
    ASSUME TypeInv, RecordPids, NEW R, CleanupSaved(R)
    PROVE  SoundUpdate
<1>1. PICK f \in Spawns(Respawns(R)),
          removed \in SUBSET {s \in Recorded : StatusAfter(R)[s] \in CleanupStatuses} :
        /\ status' = [s \in Sessions |-> IF s \in removed THEN "absent" ELSE StatusAfter(R)[s]]
        /\ pid' = [s \in Sessions |-> IF s \in removed THEN NoPid ELSE PidAfter(R, f)[s]]
        /\ proc' = WithRunning(NewPids(f))
    BY DEF CleanupSaved
<1>2. Respawns(R) \subseteq DeadRecords(R) /\ DeadRecords(R) \subseteq Recorded
    BY DEF Respawns, DeadRecords
<1>3. \A s \in removed : s \notin Respawns(R) /\ ~Alive(pid[s])
    BY RemovedIsDead
<1>4. RecordPids'
    BY <1>1 DEF RecordPids, StatusAfter, PidAfter
<1>5. \A s \in Sessions : status[s] = "absent" => status'[s] = "absent"
    BY <1>1, <1>2 DEF StatusAfter, Recorded
<1>6. \A s \in Sessions : Alive(pid[s]) => pid'[s] = pid[s]
    BY <1>1, <1>2, <1>3 DEF PidAfter, DeadRecords
<1>7. ASSUME NEW p \in Pids, proc'[p] # "gone", proc[p] = "gone"
      PROVE  \E s \in Sessions : pid'[s] = p
    <2>1. p \in NewPids(f)
        BY <1>1, <1>7 DEF WithRunning
    <2>2. PICK s \in Respawns(R) : p = f[s]
        BY <2>1 DEF NewPids, Spawns
    <2> QED
        BY <1>1, <1>3, <2>2 DEF PidAfter, Respawns, DeadRecords, Recorded
<1> QED
    BY <1>1, <1>4, <1>5, <1>6, <1>7 DEF SoundUpdate

LEMMA FinalizeIsSound ==
    ASSUME TypeInv, RecordPids, NEW a \in Actors, FollowFinalize(a)
    PROVE  SoundUpdate
<1> DEFINE s == job[a].session
<1>1. CASE UNCHANGED <<record, logFile, proc>>
    BY <1>1 DEF SoundUpdate, RecordPids, record
<1>2. CASE ReconcileSaved({s}) \/ ReconcileFails({s})
    BY <1>2, SavedIsSound, FailsIsSound
<1>3. CASE /\ status' = StatusAfter({s}) /\ pid' = PidAfter({s}, <<>>)
           /\ UNCHANGED proc
           /\ StatusAfter({s})[s] = "stopped"
    <2>1. s \in Sessions
        BY DEF FollowFinalize, At, TypeInv, JobSessions, Untargeted
    <2>2. Respawns({s}) = {}
        BY <1>3, <2>1 DEF StatusAfter, Respawns, DeadRecords
    <2>3. RecordPids'
        BY <1>3, <2>2 DEF RecordPids, StatusAfter, PidAfter
    <2>4. \A t \in Sessions : status[t] = "absent" => status'[t] = "absent"
        BY <1>3, <2>2 DEF StatusAfter, DeadRecords, Recorded
    <2>5. \A t \in Sessions : Alive(pid[t]) => pid'[t] = pid[t]
        BY <1>3, <2>2 DEF PidAfter, DeadRecords
    <2> QED
        BY <1>3, <2>3, <2>4, <2>5 DEF SoundUpdate
<1>4. CASE UNCHANGED record /\ UNCHANGED proc
    BY <1>4 DEF SoundUpdate, RecordPids, record
<1> QED
    BY <1>1, <1>2, <1>3, <1>4 DEF FollowFinalize

-----------------------------------------------------------------------------
\* The actions that reconcile: their updates are sound, and no job's spawned pid
\* or start is touched.
Reconciling ==
    \/ \E s \in Sessions : GetSession(s) \/ Logs(s)
    \/ \E a \in Actors : FollowLogs(a) \/ FollowFinalize(a) \/ ListUpdate(a) \/ CleanupUpdate(a)
    \/ DaemonPass

\* The actions that touch neither the records nor, but for a kill, a process.
Reading ==
    \/ DaemonStart
    \/ \E a \in Actors :
        \/ Call(a) \/ Crash(a)
        \/ StartSpawn(a) \/ RestartSpawn(a)
        \/ StopLoad(a) \/ StopSignal(a) \/ StopPost(a) \/ StopPrune(a)
        \/ RestartLoad(a) \/ RestartSignal(a) \/ RestartUndo(a) \/ FollowEnds(a)
    \/ \E p \in Pids : Exit(p)

Updating ==
    \/ \E a \in Actors : StartUpdate(a) \/ StopUpdate(a) \/ RestartUpdate(a)
    \/ \E s \in Sessions : Suspend(s) \/ Resume(s)

LEMMA NextCases ==
    ASSUME [Next]_vars
    PROVE  Reconciling \/ Reading \/ Updating \/ UNCHANGED vars
BY DEF Next, JobStep, Reconciling, Reading, Updating

LEMMA ReconcilingIsSound ==
    ASSUME TypeInv, RecordPids, Reconciling
    PROVE  SoundUpdate
BY SavedIsSound, FailsIsSound, LogsIsSound, CleanupIsSound, CleanupUnsavedIsSound, FinalizeIsSound
DEF Reconciling, GetSession, Logs, FollowLogs, ListUpdate, CleanupUpdate, DaemonPass

LEMMA ReadingKeepsRecords ==
    ASSUME Reading
    PROVE  UNCHANGED <<status, pid>>
BY DEF Reading, DaemonStart, Call, BeginStart, BeginStop, BeginRestart, BeginList, BeginCleanup,
       Crash, StartSpawn, RestartSpawn, SpawnWorker, SpawnFails, StopLoad, StopSignal, Signal,
       StopPost, StopPrune, RestartLoad, RestartSignal, RestartUndo, FollowEnds, Exit, record

-----------------------------------------------------------------------------
\* The heart of KeepsLiveWorker: a record that changes its pid had a dead worker.
LEMMA LivePidStays ==
    ASSUME SafetyInv, [Next]_vars, NEW s \in Sessions, Alive(pid[s])
    PROVE  pid'[s] = pid[s]
<1> USE DEF SafetyInv
<1>1. CASE Reconciling
    BY <1>1, ReconcilingIsSound DEF SoundUpdate
<1>2. CASE Reading \/ UNCHANGED vars
    BY <1>2, ReadingKeepsRecords DEF vars, record
<1>3. CASE Updating
    <2>0. pid \in [Sessions -> Pids \union {NoPid}] /\ pid[s] # NoPid /\ proc[pid[s]] # "gone"
        BY DEF TypeInv, TypeOK, Alive
    <2>1. ASSUME NEW a \in Actors, StartUpdate(a) PROVE pid'[s] = pid[s]
        <3>1. job[a].session # s
            BY <2>0, <2>1
            DEF StartUpdate, StartSaved, StartUnsaved, At, Starting, StartsNew, RecordPids
        <3> QED
            BY <2>0, <2>1, <3>1 DEF StartUpdate, StartSaved, StartUnsaved, Record, record
    <2>2. ASSUME NEW a \in Actors, StopUpdate(a) PROVE pid'[s] = pid[s]
        <3>1. job[a].expected # pid[s]
            BY <2>0, <2>2 DEF StopUpdate, At, ExpectedGone, PastSignal
        <3> QED
            BY <2>0, <2>2, <3>1
            DEF StopUpdate, StopMissing, StopSaved, StopComesSecond, StopConflicts, StopUnsaved,
                Record, record
    <2>3. ASSUME NEW a \in Actors, RestartUpdate(a) PROVE pid'[s] = pid[s]
        <3>1. job[a].expected # pid[s]
            BY <2>0, <2>3 DEF RestartUpdate, At, ExpectedGone, PastSignal
        <3> QED
            BY <2>0, <2>3, <3>1
            DEF RestartUpdate, RestartSaved, RestartRecords, RestartRefused, RestartUnsaved,
                Record, record
    <2>4. ASSUME NEW t \in Sessions, Suspend(t) \/ Resume(t) PROVE pid'[s] = pid[s]
        BY <2>0, <2>4 DEF Suspend, Resume, SignalRecorded, Record
    <2> QED
        BY <1>3, <2>1, <2>2, <2>3, <2>4 DEF Updating
<1> QED
    BY <1>1, <1>2, <1>3, NextCases

LEMMA RecordPidsNext ==
    ASSUME SafetyInv, [Next]_vars
    PROVE  RecordPids'
<1> USE DEF SafetyInv
<1>1. CASE Reconciling
    BY <1>1, ReconcilingIsSound DEF SoundUpdate
<1>2. CASE Reading \/ UNCHANGED vars
    BY <1>2, ReadingKeepsRecords DEF vars, record, RecordPids
<1>3. CASE Updating
    <2>1. ASSUME NEW s, NEW st, NEW p, Record(s, st, p), p = NoPid \/ st \in {"running", "suspended"}
          PROVE  RecordPids'
        BY <2>1 DEF Record, RecordPids, TypeInv, TypeOK
    <2>2. ASSUME UNCHANGED <<status, pid>> PROVE RecordPids'
        BY <2>2 DEF RecordPids
    <2>3. ASSUME NEW a \in Actors, StartUpdate(a) PROVE RecordPids'
        BY <2>1, <2>2, <2>3 DEF StartUpdate, StartSaved, StartUnsaved, record
    <2>4. ASSUME NEW a \in Actors, StopUpdate(a) PROVE RecordPids'
        BY <2>1, <2>2, <2>4
        DEF StopUpdate, StopMissing, StopSaved, StopComesSecond, StopConflicts, StopUnsaved,
            record
    <2>5. ASSUME NEW a \in Actors, RestartUpdate(a) PROVE RecordPids'
        BY <2>1, <2>2, <2>5
        DEF RestartUpdate, RestartSaved, RestartRecords, RestartRefused, RestartUnsaved, record
    <2>6. ASSUME NEW s \in Sessions, Suspend(s) \/ Resume(s) PROVE RecordPids'
        BY <2>1, <2>2, <2>6 DEF Suspend, Resume, SignalRecorded
    <2> QED
        BY <1>3, <2>3, <2>4, <2>5, <2>6 DEF Updating
<1> QED
    BY <1>1, <1>2, <1>3, NextCases

-----------------------------------------------------------------------------
LEMMA AbsentStays ==
    ASSUME SafetyInv, [Next]_vars, NEW s \in Sessions, status[s] = "absent"
    PROVE  status'[s] = "absent" \/ \E a \in Actors : StartUpdate(a) /\ job[a].session = s
<1> USE DEF SafetyInv
<1>1. CASE Reconciling
    BY <1>1, ReconcilingIsSound DEF SoundUpdate
<1>2. CASE Reading \/ UNCHANGED vars
    BY <1>2, ReadingKeepsRecords DEF vars, record
<1>3. CASE Updating
    BY <1>3
    DEF Updating, StartUpdate, StartSaved, StartUnsaved, StopUpdate, StopMissing, StopSaved,
        StopComesSecond, StopConflicts, StopUnsaved,
        RestartUpdate, RestartSaved, RestartRecords, RestartRefused, RestartUnsaved, Suspend,
        Resume, SignalRecorded, Record, record,
        Recorded, TypeInv, TypeOK
<1> QED
    BY <1>1, <1>2, <1>3, NextCases

\* A caller is in a start only by beginning one, or by staying in it.
LEMMA StartMoves ==
    ASSUME SafetyInv, [Next]_vars, NEW a \in Actors, Starting(a)'
    PROVE  \/ Starting(a) /\ job'[a].session = job[a].session /\ ~StartUpdate(a)
           \/ \E s \in Sessions : BeginStart(a, s) /\ job'[a].session = s
<1>0. job \in [Actors -> Jobs] /\ job[a] \in Jobs
    BY DEF SafetyInv, TypeInv, TypeOK
<1>1. ASSUME NEW r, Become(a, r) PROVE job'[a] = r
    BY <1>0, <1>1 DEF Become
<1> USE DEF Starting
<1>2. ASSUME Finish(a) PROVE FALSE
    BY <1>1, <1>2 DEF Finish, Idle
<1>3. ASSUME NEW step, Goto(a, step) PROVE step \in {"start_spawn", "start_update"}
    BY <1>0, <1>1, <1>3 DEF Goto, Jobs
<1>4. ASSUME NEW step, RetryFrom(a, step) PROVE step \in {"start_spawn", "start_update"}
    BY <1>0, <1>1, <1>2, <1>4 DEF RetryFrom, Again, Jobs
<1>5. CASE Call(a)
    <2>1. ASSUME NEW s \in Sessions, NEW force, BeginStop(a, s, force) \/ BeginRestart(a, s, force)
          PROVE  FALSE
        BY <1>1, <2>1 DEF BeginStop, BeginRestart, Begin, Idle
    <2>2. CASE BeginList(a) \/ BeginCleanup(a)
        BY <1>1, <2>2 DEF BeginList, BeginCleanup, BeginScan, Idle
    <2>3. ASSUME NEW s \in Sessions, BeginStart(a, s) PROVE job'[a].session = s
        BY <1>1, <2>3 DEF BeginStart, Begin, Idle
    <2> QED
        BY <1>5, <2>1, <2>2, <2>3 DEF Call
<1>6. CASE JobStep(a) \/ Crash(a)
    <2>1. CASE StartSpawn(a)
        BY <1>0, <1>1, <1>2, <2>1
        DEF StartSpawn, StartUpdate, StartSaved, StartUnsaved, SpawnWorker, SpawnFails, At, Jobs
    <2>2. CASE RestartSpawn(a)
        BY <1>0, <1>1, <1>2, <2>2 DEF RestartSpawn, SpawnWorker, SpawnFails, Jobs
    <2>31. ASSUME NEW step, NEW p, Become(a, [job[a] EXCEPT !.step = step, !.expected = p])
           PROVE  step \in {"start_spawn", "start_update"}
        BY <1>0, <1>1, <2>31 DEF Jobs
    <2>32. ASSUME NEW p, NEW without, NEW with, GotoExpecting(a, p, without, with)
           PROVE  without \in {"start_spawn", "start_update"} \/ with \in {"start_spawn", "start_update"}
        BY <2>31, <2>32 DEF GotoExpecting
    <2>33. ASSUME StopLoad(a) \/ RestartLoad(a) PROVE FALSE
        BY <1>2, <2>32, <2>33 DEF StopLoad, RestartLoad
    <2>34. ASSUME FollowLogs(a) PROVE FALSE
        <3> DEFINE r == [job[a] EXCEPT !.step = "follow_wait", !.expected = pid'[job[a].session]]
        <3>1. r.step = "follow_wait"
            BY <1>0 DEF Jobs
        <3> HIDE DEF r
        <3> QED
            BY <1>1, <1>2, <2>34, <3>1 DEF FollowLogs, r
    <2>35. CASE StartUpdate(a)
        <3> DEFINE r == [job[a] EXCEPT !.step = "follow_logs", !.spawned = NoPid]
        <3>1. r.step = "follow_logs"
            BY <1>0 DEF Jobs
        <3> HIDE DEF r
        <3> QED
            BY <1>1, <1>2, <2>35, <3>1 DEF StartUpdate, StartSaved, StartUnsaved, r
    <2>3. CASE StartUpdate(a) \/ StopLoad(a) \/ RestartLoad(a) \/ FollowLogs(a)
        BY <2>3, <2>33, <2>34, <2>35
    <2>4. CASE StopSignal(a) \/ RestartSignal(a)
        BY <1>2, <1>3, <2>4 DEF StopSignal, RestartSignal, Signal
    <2>5. CASE StopUpdate(a) \/ StopPost(a) \/ StopPrune(a)
        BY <1>2, <1>3, <1>4, <2>5
        DEF StopUpdate, StopPost, StopPrune, StopMissing, StopSaved, StopComesSecond,
            StopConflicts, StopUnsaved,
            LeaveStop, AfterStop
    <2>6. CASE RestartUpdate(a) \/ RestartUndo(a)
        BY <1>2, <1>3, <1>4, <2>6
        DEF RestartUpdate, RestartUndo, RestartSaved, RestartRecords, RestartRefused,
            RestartUnsaved
    <2>7. CASE FollowEnds(a) \/ FollowFinalize(a) \/ ListUpdate(a) \/ CleanupUpdate(a) \/ Crash(a)
        BY <1>2, <1>3, <2>7 DEF FollowEnds, FollowFinalize, ListUpdate, CleanupUpdate, Crash
    <2> QED
        BY <1>6, <2>1, <2>2, <2>3, <2>4, <2>5, <2>6, <2>7 DEF JobStep
<1>7. ASSUME NEW b \in Actors, b # a, Call(b) \/ JobStep(b) \/ Crash(b)
      PROVE  Starting(a) /\ job'[a].session = job[a].session /\ ~StartUpdate(a)
    <2>1. job'[a] = job[a]
        BY <1>7, OwnJobOnly DEF SafetyInv
    <2>2. ~StartUpdate(a)
        <3>1. ASSUME StartUpdate(a) PROVE FALSE
            BY <1>0, <1>1, <1>2, <2>1, <3>1 DEF StartUpdate, StartSaved, StartUnsaved, At, Jobs
        <3> QED
            BY <3>1
    <2> QED
        BY <2>1, <2>2
<1>8. CASE UNCHANGED job
    <2>1. ~StartUpdate(a)
        <3>1. ASSUME StartUpdate(a) PROVE FALSE
            BY <1>0, <1>1, <1>2, <1>8, <3>1 DEF StartUpdate, StartSaved, StartUnsaved, At, Jobs
        <3> QED
            BY <3>1
    <2> QED
        BY <1>8, <2>1
<1> QED
    BY <1>5, <1>6, <1>7, <1>8
    DEF Next, vars, Suspend, Resume, SignalRecorded, GetSession, Logs, DaemonStart, DaemonPass,
        Exit

LEMMA StartsNewNext ==
    ASSUME SafetyInv, [Next]_vars
    PROVE  StartsNew'
<1>1. ASSUME NEW a \in Actors, Starting(a)' PROVE status'[job'[a].session] = "absent"
    <2>1. CASE Starting(a) /\ job'[a].session = job[a].session /\ ~StartUpdate(a)
        <3>1. status[job[a].session] = "absent" /\ job[a].session \in Sessions
            BY <2>1 DEF SafetyInv, StartsNew, TypeInv, JobSessions, Starting, Untargeted
        <3>2. ASSUME NEW b \in Actors, StartUpdate(b), job[b].session = job[a].session PROVE FALSE
            BY <2>1, <3>2
            DEF SafetyInv, StartsNew, Starting, StartUpdate, StartSaved, StartUnsaved, At
        <3> QED
            BY <2>1, <3>1, <3>2, AbsentStays
    <2>2. ASSUME NEW s \in Sessions, BeginStart(a, s), job'[a].session = s
          PROVE  status'[job'[a].session] = "absent"
        BY <2>2 DEF BeginStart, record
    <2> QED
        BY <1>1, <2>1, <2>2, StartMoves
<1>2. ASSUME NEW a \in Actors, NEW b \in Actors, Starting(a)', Starting(b)',
             job'[b].session = job'[a].session
      PROVE  a = b
    <2>1. CASE /\ Starting(a) /\ job'[a].session = job[a].session
               /\ Starting(b) /\ job'[b].session = job[b].session
        BY <1>2, <2>1 DEF SafetyInv, StartsNew
    <2>2. ASSUME NEW c \in Actors, NEW d \in Actors, c # d, NEW s \in Sessions,
                 BeginStart(c, s), job'[c].session = s, job'[d].session = s
          PROVE  FALSE
        <3>1. job'[d] = job[d]
            BY <2>2, OwnJobOnly DEF SafetyInv, Call
        <3> QED
            BY <2>2, <3>1 DEF BeginStart
    <2> QED
        BY <1>2, <2>1, <2>2, StartMoves
<1> QED
    BY <1>1, <1>2 DEF StartsNew

-----------------------------------------------------------------------------
\* A step loses no worker it should not when whatever it starts is held, unless nothing is
\* recorded, and whatever an operation held it still does, unless it says why not.
LEMMA OthersKept ==
    ASSUME SafetyInv, [Next]_vars,
           \A p \in Pids : proc'[p] # "gone" => proc[p] # "gone" \/ Held(p)' \/ UNCHANGED record,
           \A a \in Actors, p \in Pids :
                job[a].spawned = p /\ proc'[p] # "gone" => Held(p)' \/ LostByCaller(p)
    PROVE  LosesNoOther
<1> SUFFICES ASSUME NEW p \in Pids, proc'[p] # "gone", ~Held(p)'
             PROVE  (proc[p] # "gone" /\ ~Held(p)) \/ LostInReconcile(p) \/ LostByCaller(p)
    BY DEF LosesNoOther
<1>1. CASE proc[p] = "gone"
    BY <1>1 DEF LostInReconcile
<1>2. CASE proc[p] # "gone" /\ Held(p)
    <2>1. p # NoPid
        BY ConstantsAssumption
    <2>2. ASSUME NEW s \in Sessions, pid[s] = p PROVE FALSE
        <3>1. Alive(pid[s])
            BY <1>2, <2>1, <2>2 DEF Alive
        <3>2. pid'[s] = p
            BY <2>2, <3>1, LivePidStays
        <3> QED
            BY <3>2 DEF Held
    <2> QED
        BY <1>2, <2>2 DEF Held
<1> QED
    BY <1>1, <1>2

LEMMA OnlyTheseLoseWorkers ==
    ASSUME SafetyInv, [Next]_vars
    PROVE  LosesNoOther
<1> DEFINE Started == \A p \in Pids : proc'[p] # "gone" =>
                            proc[p] # "gone" \/ Held(p)' \/ UNCHANGED record
           Kept == \A a \in Actors, p \in Pids :
                        job[a].spawned = p /\ proc'[p] # "gone" => Held(p)' \/ LostByCaller(p)
<1>0. Started /\ Kept => LosesNoOther
    BY OthersKept
<1> USE DEF SafetyInv
<1>01. /\ job \in [Actors -> Jobs] /\ proc \in [Pids -> {"gone", "running", "paused"}]
       /\ pid \in [Sessions -> Pids \union {NoPid}]
    BY DEF TypeInv, TypeOK
<1>02. ASSUME NEW a \in Actors, NEW r, Become(a, r) PROVE job'[a] = r
    BY <1>01, <1>02 DEF Become
<1>03. ASSUME NEW a \in Actors, Call(a) \/ JobStep(a) \/ Crash(a),
              \A p \in Pids : job[a].spawned = p /\ proc'[p] # "gone" => Held(p)' \/ LostByCaller(p)
       PROVE  Kept
    BY <1>03, OwnJobOnly DEF Held
<1>04. ASSUME NEW a \in Actors, Call(a) \/ JobStep(a) \/ Crash(a), job[a].step \notin Spawning
       PROVE  Kept
    BY <1>03, <1>04, ConstantsAssumption DEF SpawnedHeld
<1>05. ASSUME UNCHANGED proc PROVE Started
    BY <1>05
<1>06. ASSUME NEW a \in Actors, Finish(a) PROVE job'[a] = Idle
    BY <1>02, <1>06 DEF Finish
<1>1. CASE Reconciling
    <2>1. Started
        BY <1>1, ReconcilingIsSound DEF SoundUpdate, Held
    <2>2. Kept
        <3>1. ASSUME NEW a \in Actors,
                     FollowLogs(a) \/ FollowFinalize(a) \/ ListUpdate(a) \/ CleanupUpdate(a)
              PROVE  Kept
            BY <1>04, <3>1
            DEF JobStep, FollowLogs, FollowFinalize, ListUpdate, CleanupUpdate, At, Spawning
        <3>2. CASE UNCHANGED job
            BY <3>2 DEF Held
        <3> QED
            BY <1>1, <3>1, <3>2 DEF Reconciling, GetSession, Logs, DaemonPass
    <2> QED
        BY <1>0, <2>1, <2>2
<1>2. ASSUME NEW a \in Actors, Call(a) PROVE Started /\ Kept
    <2>1. UNCHANGED proc
        BY <1>2 DEF Call, BeginStart, BeginStop, BeginRestart, BeginList, BeginCleanup
    <2>2. job[a] = Idle
        BY <1>2 DEF Call, BeginStart, BeginStop, BeginRestart, BeginList, BeginCleanup,
                    Begin, BeginScan
    <2> QED
        BY <1>04, <1>05, <1>2, <2>1, <2>2 DEF Idle, Spawning
<1>3. ASSUME NEW a \in Actors, Crash(a) PROVE Started /\ Kept
    <2>1. "crash" \in Faults /\ job'[a] = Idle /\ UNCHANGED proc
        BY <1>3, <1>06 DEF Crash
    <2>2. Kept
        BY <1>03, <1>3, <2>1 DEF LostByCaller
    <2> QED
        BY <1>05, <2>1, <2>2
<1>4. ASSUME NEW a \in Actors, StartSpawn(a) \/ RestartSpawn(a) PROVE Started /\ Kept
    <2>1. Kept
        BY <1>04, <1>4 DEF JobStep, StartSpawn, RestartSpawn, At, Spawning
    <2>2. CASE SpawnFails(a)
        BY <1>05, <2>1, <2>2 DEF SpawnFails
    <2>3. ASSUME NEW step, SpawnWorker(a, step) PROVE Started
        <3>1. PICK p \in Fresh : /\ proc' = WithRunning({p})
                                 /\ Become(a, [job[a] EXCEPT !.step = step, !.spawned = p])
            BY <2>3 DEF SpawnWorker
        <3>2. job'[a].spawned = p
            BY <1>01, <1>02, <3>1 DEF Jobs
        <3> QED
            BY <1>01, <3>1, <3>2 DEF WithRunning, Held
    <2> QED
        BY <1>4, <2>1, <2>2, <2>3 DEF StartSpawn, RestartSpawn
<1>5. ASSUME NEW a \in Actors, StopSignal(a) \/ RestartSignal(a) PROVE Started /\ Kept
    <2>1. Kept
        BY <1>04, <1>5 DEF JobStep, StopSignal, RestartSignal, At, Spawning
    <2>2. Started
        BY <1>01, <1>5 DEF StopSignal, RestartSignal, Signal, WithGone
    <2> QED
        BY <2>1, <2>2
<1>6. ASSUME NEW a \in Actors,
             StopLoad(a) \/ StopPost(a) \/ StopPrune(a) \/ RestartLoad(a) \/ FollowEnds(a) \/ StopUpdate(a)
      PROVE  Started /\ Kept
    <2>1. Kept
        BY <1>04, <1>6
        DEF JobStep, StopLoad, StopPost, StopPrune, RestartLoad, FollowEnds, StopUpdate, At,
            Spawning
    <2>2. UNCHANGED proc
        BY <1>6 DEF StopLoad, StopPost, StopPrune, RestartLoad, FollowEnds, StopUpdate
    <2> QED
        BY <1>05, <2>1, <2>2
<1>7. ASSUME NEW a \in Actors, RestartUndo(a) PROVE Started /\ Kept
    <2>1. job[a].spawned \in Pids => proc'[job[a].spawned] = "gone"
        BY <1>01, <1>7 DEF RestartUndo, WithGone
    <2>2. Kept
        BY <1>03, <1>7, <2>1 DEF JobStep
    <2> QED
        BY <1>01, <1>7, <2>2 DEF RestartUndo, WithGone
<1>8. ASSUME NEW a \in Actors, StartUpdate(a) \/ RestartUpdate(a) PROVE Started /\ Kept
    <2>1. job[a].session \in Sessions /\ UNCHANGED proc
        BY <1>8 DEF StartUpdate, RestartUpdate, At, TypeInv, JobSessions, Untargeted
    <2>2. CASE Record(job[a].session, "running", job[a].spawned)
        BY <1>01, <1>03, <1>05, <1>8, <2>1, <2>2 DEF JobStep, Record, Held
    <2>3. CASE StartUpdate(a) /\ StartUnsaved(a)
        <3>1. At(a, "start_update") /\ StateFails /\ job'[a] = Idle
            BY <1>06, <2>3 DEF StartUpdate, StartUnsaved
        <3> QED
            BY <1>03, <1>05, <1>8, <2>1, <3>1 DEF JobStep, LostByCaller
    <2>4. ASSUME NEW step, Goto(a, step) PROVE Started /\ Kept
        <3>1. job'[a].spawned = job[a].spawned
            BY <1>01, <1>02, <2>4 DEF Goto, Jobs
        <3> QED
            BY <1>03, <1>05, <1>8, <2>1, <3>1 DEF JobStep, Held
    <2> QED
        BY <1>8, <2>2, <2>3, <2>4
        DEF StartUpdate, StartSaved, RestartUpdate, RestartSaved, RestartRecords, RestartRefused,
            RestartUnsaved
<1>9. ASSUME NEW s \in Sessions, Suspend(s) \/ Resume(s) PROVE Started /\ Kept
    <2>1. Started
        BY <1>01, <1>9 DEF Suspend, Resume, SignalRecorded
    <2>2. Kept
        BY <1>9 DEF Suspend, Resume, SignalRecorded, Held
    <2> QED
        BY <2>1, <2>2
<1>10. ASSUME NEW p \in Pids, Exit(p) PROVE Started /\ Kept
    BY <1>01, <1>10 DEF Exit, WithGone, Held
<1>11. ASSUME DaemonStart \/ UNCHANGED vars PROVE Started /\ Kept
    <2>1. UNCHANGED <<proc, job>>
        BY <1>11 DEF DaemonStart, vars
    <2>2. Kept
        BY <2>1 DEF Held
    <2> QED
        BY <1>05, <2>1, <2>2
<1> QED
    BY <1>0, <1>1, <1>2, <1>3, <1>4, <1>5, <1>6, <1>7, <1>8, <1>9, <1>10, <1>11, NextCases
    DEF Reading, Updating

-----------------------------------------------------------------------------
LEMMA SafetyInvInit ==
    ASSUME Init
    PROVE  SafetyInv
<1>1. TypeInv
    BY TypeInvInit
<1>2. SpawnedHeld /\ ExpectedGone /\ RecordPids /\ StartsNew
    BY DEF Init, Idle, SpawnedHeld, ExpectedGone, PastSignal, RecordPids, StartsNew, Starting
<1> QED
    BY <1>1, <1>2 DEF SafetyInv

LEMMA SafetyInvNext ==
    ASSUME SafetyInv, [Next]_vars
    PROVE  SafetyInv'
<1>1. TypeInv'
    BY TypeInvNext DEF SafetyInv
<1>2. SpawnedHeld' /\ ExpectedGone'
    BY HeldPidsNext DEF SafetyInv
<1> QED
    BY <1>1, <1>2, RecordPidsNext, StartsNewNext DEF SafetyInv

\* The invariant the theorems below rest on.
THEOREM SafetyInvariant == Spec => []SafetyInv
<1>1. Init => SafetyInv
    BY SafetyInvInit
<1>2. SafetyInv /\ [Next]_vars => SafetyInv'
    BY SafetyInvNext
<1> QED
    BY <1>1, <1>2, PTL DEF Spec

\* Whatever callers, daemon and workers do, a live worker stays recorded or in the hands of
\* the operation that spawned it, but for the three losses the code has: a reconcile that
\* is not saved, a start whose update fails, a caller that is killed.  A restart that loses
\* its race or whose update fails loses none.
THEOREM NoWorkerLost == Spec => NoLostWorker
<1>1. SafetyInv /\ [Next]_vars => [LosesNoOther]_vars
    BY OnlyTheseLoseWorkers
<1> QED
    BY <1>1, SafetyInvariant, PTL DEF Spec, NoLostWorker

\* The compare-and-set on the pid protects live workers: no update of any operation
\* replaces or drops the pid of a worker that is alive after it.
THEOREM LiveWorkersKept == Spec => LiveWorkerNeverForgotten
<1>1. SafetyInv /\ [Next]_vars => [KeepsLiveWorker]_vars
    BY LivePidStays DEF KeepsLiveWorker
<1> QED
    BY <1>1, SafetyInvariant, PTL DEF Spec, LiveWorkerNeverForgotten

-----------------------------------------------------------------------------
RestartedBySomebody(s) == \E a \in Actors : At(a, "restart_update") /\ job[a].session = s

\* A reconcile respawns sessions recorded running or unknown, and only those.
LEMMA ReconcileLeavesStopped ==
    ASSUME Reconciling, NEW s \in Sessions, status[s] = "stopped"
    PROVE  status'[s] # "running"
<1>1. ASSUME NEW R PROVE StatusAfter(R)[s] = "stopped"
    BY DEF StatusAfter, Respawns
<1>2. ASSUME NEW R, ReconcileSaved(R) \/ ReconcileFails(R) PROVE status'[s] # "running"
    BY <1>1, <1>2 DEF ReconcileSaved, ReconcileFails, ReconcileLost, record
<1>3. ASSUME NEW t, LogsFound(t) \/ LogsFail(t) PROVE status'[s] # "running"
    BY <1>2, <1>3 DEF LogsFound, LogsFail, ReconcileLost, record
<1>4. ASSUME NEW R, CleanupSaved(R) \/ CleanupUnsaved(R) PROVE status'[s] # "running"
    BY <1>1, <1>4 DEF CleanupSaved, CleanupUnsaved, record
<1>5. ASSUME NEW a \in Actors, FollowFinalize(a) PROVE status'[s] # "running"
    BY <1>1, <1>2, <1>5 DEF FollowFinalize, record
<1> QED
    BY <1>2, <1>3, <1>4, <1>5
    DEF Reconciling, GetSession, Logs, FollowLogs, ListUpdate, CleanupUpdate, DaemonPass

LEMMA OnlyRestartRevives ==
    ASSUME SafetyInv, [Next]_vars, NEW s \in Sessions, status[s] = "stopped", status'[s] = "running"
    PROVE  RestartedBySomebody(s)
<1>0. status \in [Sessions -> Statuses] /\ pid[s] = NoPid
    BY DEF SafetyInv, TypeInv, TypeOK, RecordPids
<1>1. ~Reconciling
    BY ReconcileLeavesStopped
<1>2. ~Reading /\ ~UNCHANGED vars
    BY ReadingKeepsRecords DEF vars
<1>3. PICK a \in Actors : StartUpdate(a) \/ StopUpdate(a) \/ RestartUpdate(a)
    <2>1. ASSUME NEW t \in Sessions, Suspend(t) \/ Resume(t) PROVE FALSE
        BY <1>0, <2>1 DEF Suspend, Resume, SignalRecorded, Record
    <2> QED
        BY <1>1, <1>2, <2>1, NextCases DEF Updating
<1>4. ~StartUpdate(a)
    <2>1. ASSUME StartUpdate(a) PROVE FALSE
        BY <1>0, <2>1
        DEF StartUpdate, StartSaved, StartUnsaved, Record, record, At, SafetyInv, StartsNew,
            Starting
    <2> QED
        BY <2>1
<1>5. ~StopUpdate(a)
    BY <1>0
    DEF StopUpdate, StopMissing, StopSaved, StopComesSecond, StopConflicts, StopUnsaved, Record,
        record
<1>6. RestartUpdate(a)
    BY <1>3, <1>4, <1>5
<1> QED
    BY <1>0, <1>6
    DEF RestartUpdate, RestartSaved, RestartRecords, RestartRefused, RestartUnsaved, Record,
        record, RestartedBySomebody

\* A stopped session is started again by a restart of that session and by nothing
\* else: no reconcile, no resume and no update that comes late revives it.
THEOREM StoppedKept == Spec => StoppedStaysStopped
<1> DEFINE Revived == \A s \in Sessions :
                (status[s] = "stopped" /\ status'[s] = "running") => RestartedBySomebody(s)
<1>1. SafetyInv /\ [Next]_vars => [Revived]_vars
    BY OnlyRestartRevives
<1>2. StoppedStaysStopped <=> [][Revived]_vars
    BY DEF StoppedStaysStopped, RestartedBySomebody
<1> QED
    BY <1>1, <1>2, SafetyInvariant, PTL DEF Spec

-----------------------------------------------------------------------------
(* Logs *)

\* A stop prunes the log of a temporary session only.
PrunesTemporary == \A a \in Actors : At(a, "stop_prune") => job[a].session \in Temporary

\* A caller gets to the tail of a stop by a step of that stop.
LEMMA StopMoves ==
    ASSUME TypeInv, [Next]_vars, NEW a \in Actors, At(a, "stop_post")' \/ At(a, "stop_prune")'
    PROVE  \/ job'[a] = job[a]
           \/ /\ StopUpdate(a) \/ StopPost(a)
              /\ job'[a] = [job[a] EXCEPT !.step = job'[a].step]
              /\ At(a, "stop_post")' => StopSaved(a) /\ HasPostStop(a)
              /\ At(a, "stop_prune")' => ShouldPruneLog(job[a].session)
<1>0. job \in [Actors -> Jobs] /\ job[a] \in Jobs
    BY DEF TypeInv, TypeOK
<1>1. ASSUME NEW r, Become(a, r) PROVE job'[a] = r
    BY <1>0, <1>1 DEF Become
<1> USE DEF At
<1>2. ASSUME Finish(a) PROVE FALSE
    BY <1>1, <1>2 DEF Finish, Idle
<1>3. ASSUME NEW step, Goto(a, step)
      PROVE  step \in {"stop_post", "stop_prune"} /\ job'[a].step = step
    BY <1>0, <1>1, <1>3 DEF Goto, Jobs
<1>4. ASSUME NEW step, RetryFrom(a, step) PROVE step \in {"stop_post", "stop_prune"}
    BY <1>0, <1>1, <1>2, <1>4 DEF RetryFrom, Again, Jobs
<1>5. ASSUME Call(a) PROVE FALSE
    BY <1>0, <1>5, CallBegins DEF Beginnings
<1>6. ASSUME StartSpawn(a) \/ RestartSpawn(a) PROVE FALSE
    BY <1>0, <1>1, <1>2, <1>6 DEF StartSpawn, RestartSpawn, SpawnWorker, SpawnFails, Jobs
<1>7. ASSUME StartUpdate(a) \/ StopLoad(a) \/ RestartLoad(a) \/ FollowLogs(a) PROVE FALSE
    BY <1>0, <1>1, <1>2, <1>7
    DEF StartUpdate, StartSaved, StartUnsaved, StopLoad, RestartLoad, FollowLogs, GotoExpecting,
        Jobs
<1>8. ASSUME StopSignal(a) \/ RestartSignal(a) PROVE FALSE
    BY <1>2, <1>3, <1>8 DEF StopSignal, RestartSignal, Signal
<1>9. ASSUME RestartUpdate(a) \/ RestartUndo(a) PROVE FALSE
    BY <1>2, <1>3, <1>4, <1>9
    DEF RestartUpdate, RestartUndo, RestartSaved, RestartRecords, RestartRefused, RestartUnsaved
<1>10. ASSUME FollowEnds(a) \/ FollowFinalize(a) \/ ListUpdate(a) \/ CleanupUpdate(a) \/ Crash(a)
                \/ StopPrune(a)
       PROVE  FALSE
    <2>1. ASSUME FollowEnds(a) PROVE FALSE
        BY <1>3, <2>1 DEF FollowEnds
    <2> QED
        BY <1>2, <1>10, <2>1 DEF FollowFinalize, ListUpdate, CleanupUpdate, Crash, StopPrune
<1> DEFINE Moved == /\ job'[a] = [job[a] EXCEPT !.step = job'[a].step]
                    /\ At(a, "stop_post")' => StopSaved(a) /\ HasPostStop(a)
                    /\ At(a, "stop_prune")' => ShouldPruneLog(job[a].session)
<1>11. ASSUME NEW next, LeaveStop(a, next)
       PROVE  /\ next \in {"stop_post", "stop_prune"} /\ job'[a].step = next
              /\ job'[a] = [job[a] EXCEPT !.step = job'[a].step]
    <2>1. Goto(a, next)
        BY <1>2, <1>11 DEF LeaveStop
    <2>2. next \in {"stop_post", "stop_prune"} /\ job'[a].step = next
        BY <1>3, <2>1
    <2>3. job'[a] = [job[a] EXCEPT !.step = next]
        BY <1>1, <2>1 DEF Goto
    <2> QED
        BY <2>2, <2>3
<1>12. ASSUME LeaveStop(a, AfterStop(job[a].session)) PROVE Moved
    <2>1. ShouldPruneLog(job[a].session) \in BOOLEAN
        BY DEF ShouldPruneLog
    <2>2. AfterStop(job[a].session) = "stop_prune" /\ ShouldPruneLog(job[a].session)
        BY <1>11, <1>12, <2>1 DEF AfterStop
    <2> QED
        BY <1>11, <1>12, <2>2
<1>13. ASSUME StopUpdate(a) PROVE Moved
    <2>1. CASE StopSaved(a)
        <3>1. HasPostStop(a) \in BOOLEAN
            BY DEF HasPostStop
        <3>2. CASE HasPostStop(a)
            <4>1. LeaveStop(a, "stop_post")
                BY <2>1, <3>2 DEF StopSaved
            <4> QED
                BY <1>11, <2>1, <3>2, <4>1
        <3>3. CASE ~HasPostStop(a)
            BY <1>12, <2>1, <3>1, <3>3 DEF StopSaved
        <3> QED
            BY <3>1, <3>2, <3>3
    <2>2. CASE StopComesSecond(a)
        BY <1>12, <2>2 DEF StopComesSecond
    <2> QED
        BY <1>2, <1>4, <1>13, <2>1, <2>2 DEF StopUpdate, StopMissing, StopConflicts, StopUnsaved
<1>14. ASSUME StopPost(a) PROVE Moved
    BY <1>2, <1>12, <1>14 DEF StopPost
<1> HIDE DEF Moved
<1>15. ASSUME NEW b \in Actors, b # a, Call(b) \/ JobStep(b) \/ Crash(b) PROVE job'[a] = job[a]
    BY <1>15, OwnJobOnly
<1>16. CASE \E b \in Actors : Call(b) \/ JobStep(b) \/ Crash(b)
    <2>1. CASE Call(a) \/ JobStep(a) \/ Crash(a)
        BY <1>5, <1>6, <1>7, <1>8, <1>9, <1>10, <1>13, <1>14, <2>1 DEF JobStep, Moved
    <2> QED
        BY <1>15, <1>16, <2>1
<1>17. CASE UNCHANGED job
    BY <1>17
<1> QED
    BY <1>16, <1>17
    DEF Next, vars, Suspend, Resume, SignalRecorded, GetSession, Logs, DaemonStart, DaemonPass,
        Exit

LEMMA PrunesTemporaryNext ==
    ASSUME TypeInv, PrunesTemporary, [Next]_vars
    PROVE  PrunesTemporary'
<1> SUFFICES ASSUME NEW a \in Actors, At(a, "stop_prune")' PROVE job'[a].session \in Temporary
    BY DEF PrunesTemporary
<1>1. CASE job'[a] = job[a]
    BY <1>1 DEF PrunesTemporary, At
<1>2. CASE /\ job'[a] = [job[a] EXCEPT !.step = job'[a].step]
           /\ ShouldPruneLog(job[a].session)
    <2>1. job[a] \in Jobs
        BY DEF TypeInv, TypeOK
    <2>2. job'[a].session = job[a].session
        BY <1>2, <2>1 DEF Jobs
    <2> QED
        BY <1>2, <2>2 DEF ShouldPruneLog
<1> QED
    BY <1>1, <1>2, StopMoves

CleanedUp == \E a \in Actors : At(a, "cleanup_update") /\ job'[a] = Idle

LEMMA PersistentLogStays ==
    ASSUME SafetyInv, PrunesTemporary, [Next]_vars, NEW s \in Sessions \ Temporary,
           s \in logFile, s \notin logFile'
    PROVE  ~Alive(pid[s]) /\ CleanedUp
<1>1. ASSUME NEW R, ReconcileSaved(R) \/ ReconcileFails(R) PROVE FALSE
    BY <1>1 DEF ReconcileSaved, ReconcileFails, ReconcileLost
<1>2. ASSUME NEW t, LogsFound(t) \/ LogsFail(t) PROVE FALSE
    BY <1>1, <1>2 DEF LogsFound, LogsFail, ReconcileLost
<1>3. ASSUME NEW R, CleanupSaved(R) \/ CleanupUnsaved(R) PROVE ~Alive(pid[s])
    <2>1. s \in Recorded /\ StatusAfter(R)[s] \in CleanupStatuses
        BY <1>3 DEF CleanupSaved, CleanupUnsaved
    <2> QED
        BY <2>1, RemovedIsDead DEF SafetyInv
<1>31. ASSUME NEW a \in Actors, CleanupUpdate(a) PROVE ~Alive(pid[s]) /\ CleanedUp
    <2>1. At(a, "cleanup_update") /\ job'[a] = Idle
        BY <1>31 DEF CleanupUpdate, Finish, Become, SafetyInv, TypeInv, TypeOK
    <2> QED
        BY <1>1, <1>3, <1>31, <2>1 DEF CleanupUpdate, CleanedUp
<1>4. ASSUME NEW a \in Actors, FollowFinalize(a) PROVE FALSE
    BY <1>1, <1>4 DEF FollowFinalize, ShouldPruneLog
<1>5. ASSUME NEW a \in Actors, StopPrune(a) PROVE FALSE
    BY <1>5 DEF StopPrune, PrunesTemporary
<1>6. CASE Reconciling
    BY <1>1, <1>2, <1>31, <1>4, <1>6
    DEF Reconciling, GetSession, Logs, FollowLogs, ListUpdate, DaemonPass
<1>7. ASSUME Reading PROVE FALSE
    BY <1>5, <1>7
    DEF Reading, DaemonStart, Call, BeginStart, BeginStop, BeginRestart, BeginList, BeginCleanup,
        Crash, StartSpawn, RestartSpawn, SpawnWorker, SpawnFails, StopLoad, StopSignal, Signal,
        StopPost, RestartLoad, RestartSignal, RestartUndo, FollowEnds, Exit
<1>8. ~Updating /\ ~UNCHANGED vars
    BY
    DEF Updating, StartUpdate, StartSaved, StartUnsaved, StopUpdate, RestartUpdate, Suspend,
        Resume, SignalRecorded, vars
<1> QED
    BY <1>6, <1>7, <1>8, NextCases

\* Logs that were asked to outlive the stop do: of all that stops, follows and cleanups
\* prune, saved or not, only a cleanup takes such a log, and that of no live worker.
THEOREM PersistentLogsKept == Spec => PersistentLogSurvives
<1> DEFINE Kept == \A s \in Sessions \ Temporary :
                        (s \in logFile /\ s \notin logFile') => ~Alive(pid[s]) /\ CleanedUp
<1>1. Init => PrunesTemporary
    BY DEF Init, Idle, PrunesTemporary, At
<1>2. SafetyInv /\ PrunesTemporary /\ [Next]_vars => PrunesTemporary'
    BY PrunesTemporaryNext DEF SafetyInv
<1>3. SafetyInv /\ PrunesTemporary /\ [Next]_vars => [Kept]_vars
    BY PersistentLogStays
<1>4. PersistentLogSurvives <=> [][Kept]_vars
    BY DEF PersistentLogSurvives, CleanedUp
<1> QED
    BY <1>1, <1>2, <1>3, <1>4, SafetyInvariant, PTL DEF Spec

-----------------------------------------------------------------------------
(* Poststop tasks *)

\* A pid belongs to one record, or to one operation that has spawned it and may still
\* record it: one that only kills its worker may find it recorded by the failed save.
PidsApart ==
    /\ \A s, t \in Sessions : pid[s] # NoPid /\ pid[s] = pid[t] => s = t
    /\ \A s \in Sessions, a \in Actors :
            pid[s] # NoPid /\ pid[s] = job[a].spawned => At(a, "undo_error")
    /\ \A a, b \in Actors : job[a].spawned # NoPid /\ job[a].spawned = job[b].spawned => a = b

Unheld(p) ==
    /\ \A s \in Sessions : pid[s] # p
    /\ \A a \in Actors : job[a].spawned = p => At(a, "undo_error")

\* Whoever runs a poststop task took the pid of its worker out of the record.
PostStopAlone ==
    \A a \in Actors : At(a, "stop_post") =>
        /\ job[a].expected # NoPid /\ Unheld(job[a].expected)
        /\ \A b \in Actors : At(b, "stop_post") /\ job[b].expected = job[a].expected => a = b

\* Records get new pids from the kernel, one each.
FreshPids ==
    /\ \A s \in Sessions : pid'[s] \in {pid[s], NoPid} \union Fresh
    /\ \A s, t \in Sessions : pid'[s] # NoPid /\ pid'[s] = pid'[t] /\ pid'[s] # pid[s] => s = t

LEMMA ReconciledPids ==
    ASSUME TypeInv, NEW R, NEW f \in Spawns(Respawns(R)),
           \A s \in Sessions : pid'[s] \in {NoPid, PidAfter(R, f)[s]}
    PROVE  FreshPids
<1> DEFINE g == PidAfter(R, f)
<1>1. Respawns(R) \subseteq Sessions
    BY DEF Respawns, DeadRecords, Recorded
<1>2. \A s \in Respawns(R) : f[s] \in Fresh
    BY DEF Spawns
<1>3. \A s, t \in Respawns(R) : f[s] = f[t] => s = t
    BY DEF Spawns
<1>4. \A s \in Sessions : \/ s \in Respawns(R) /\ g[s] = f[s]
                          \/ s \notin Respawns(R) /\ g[s] \in {pid[s], NoPid}
    BY DEF PidAfter
<1>5. \A s \in Sessions : pid[s] \notin Fresh
    BY DEF Fresh
<1>6. \A s \in Sessions : pid'[s] \in {NoPid, g[s]}
    OBVIOUS
<1> HIDE DEF g
<1> QED
    BY <1>1, <1>2, <1>3, <1>4, <1>5, <1>6 DEF FreshPids

LEMMA ReconcilingTakesFreshPids ==
    ASSUME TypeInv, Reconciling
    PROVE  FreshPids
<1>1. ASSUME UNCHANGED pid PROVE FreshPids
    BY <1>1 DEF FreshPids
<1>2. ASSUME NEW R, ReconcileSaved(R) PROVE FreshPids
    BY <1>2, ReconciledPids DEF ReconcileSaved
<1>3. ASSUME NEW R, ReconcileFails(R) PROVE FreshPids
    BY <1>1, <1>3 DEF ReconcileFails, ReconcileLost, record
<1>4. ASSUME NEW t, LogsFound(t) \/ LogsFail(t) PROVE FreshPids
    BY <1>1, <1>2, <1>3, <1>4 DEF LogsFound, LogsFail, ReconcileLost, record
<1>5. ASSUME NEW R, CleanupSaved(R) PROVE FreshPids
    <2>1. PICK f \in Spawns(Respawns(R)) :
          \E removed \in SUBSET {s \in Recorded : StatusAfter(R)[s] \in CleanupStatuses} :
            pid' = [s \in Sessions |-> IF s \in removed THEN NoPid ELSE PidAfter(R, f)[s]]
        BY <1>5 DEF CleanupSaved
    <2> QED
        BY <2>1, ReconciledPids
<1>51. ASSUME NEW R, CleanupUnsaved(R) PROVE FreshPids
    BY <1>1, <1>51 DEF CleanupUnsaved, record
<1>6. ASSUME NEW a \in Actors, FollowFinalize(a) PROVE FreshPids
    <2> DEFINE s == job[a].session
    <2>1. s \in Sessions
        BY <1>6 DEF FollowFinalize, At, TypeInv, JobSessions, Untargeted
    <2>2. CASE StatusAfter({s})[s] = "stopped" /\ pid' = PidAfter({s}, <<>>)
        <3>1. Respawns({s}) = {}
            BY <2>1, <2>2 DEF StatusAfter, Respawns, DeadRecords
        <3>2. \A t \in Sessions : pid'[t] \in {pid[t], NoPid}
            BY <2>2, <3>1 DEF PidAfter
        <3> QED
            BY <2>2, <3>1, <3>2 DEF FreshPids, PidAfter
    <2> QED
        BY <1>1, <1>2, <1>3, <1>6, <2>2 DEF FollowFinalize, record
<1> QED
    BY <1>2, <1>3, <1>4, <1>5, <1>51, <1>6
    DEF Reconciling, GetSession, Logs, FollowLogs, ListUpdate, CleanupUpdate, DaemonPass

\* Only a spawn gives an operation a pid, and the kernel a pid that nobody has.
LEMMA SpawnedMoves ==
    ASSUME SafetyInv, [Next]_vars
    PROVE  \/ \A a \in Actors : job'[a].spawned \in {job[a].spawned, NoPid}
           \/ /\ UNCHANGED pid
              /\ \E a \in Actors : /\ job'[a].spawned \in Fresh
                                   /\ \A b \in Actors : b # a => job'[b] = job[b]
<1>0. job \in [Actors -> Jobs] /\ TypeInv
    BY DEF SafetyInv, TypeInv, TypeOK
<1> DEFINE Keeps(a) == job'[a].spawned \in {job[a].spawned, NoPid}
<1>1. ASSUME NEW a \in Actors, NEW r, Become(a, r) PROVE job'[a] = r
    BY <1>0, <1>1 DEF Become
<1>2. ASSUME NEW a \in Actors, Finish(a) PROVE Keeps(a)
    BY <1>1, <1>2 DEF Finish, Idle
<1>3. ASSUME NEW a \in Actors, NEW step, Goto(a, step) \/ RetryFrom(a, step) PROVE Keeps(a)
    <2> DEFINE q == [job[a] EXCEPT !.step = step]
               r == [job[a] EXCEPT !.step = step, !.attempt = @ + 1,
                                   !.expected = NoPid, !.spawned = NoPid]
    <2>1. job[a] \in Jobs
        BY <1>0
    <2>2. q.spawned = job[a].spawned /\ r.spawned = NoPid
        BY <2>1 DEF Jobs
    <2>3. job'[a] = q \/ job'[a] = r \/ Finish(a)
        BY <1>1, <1>3 DEF Goto, RetryFrom, Again
    <2> QED
        BY <1>2, <2>2, <2>3
<1>4. ASSUME NEW a \in Actors, Call(a) PROVE Keeps(a)
    BY <1>0, <1>4, CallBegins
<1>5. ASSUME NEW a \in Actors,
             StartUpdate(a) \/ StopLoad(a) \/ RestartLoad(a) \/ FollowLogs(a)
      PROVE  Keeps(a)
    <2>1. CASE StartUpdate(a)
        BY <1>0, <1>1, <1>2, <2>1 DEF StartUpdate, StartSaved, StartUnsaved, Jobs
    <2>2. ASSUME NEW p, NEW without, NEW with, GotoExpecting(a, p, without, with) PROVE Keeps(a)
        BY <1>0, <1>1, <2>2 DEF GotoExpecting, Jobs
    <2>3. ASSUME NEW p, Become(a, [job[a] EXCEPT !.step = "follow_wait", !.expected = p]) PROVE Keeps(a)
        BY <1>0, <1>1, <2>3 DEF Jobs
    <2> QED
        BY <1>2, <1>5, <2>1, <2>2, <2>3 DEF StopLoad, RestartLoad, FollowLogs
<1>6. ASSUME NEW a \in Actors, StopSignal(a) \/ RestartSignal(a) PROVE Keeps(a)
    BY <1>2, <1>3, <1>6 DEF StopSignal, RestartSignal, Signal
<1>7. ASSUME NEW a \in Actors, StopUpdate(a) \/ StopPost(a) \/ StopPrune(a) PROVE Keeps(a)
    BY <1>2, <1>3, <1>7
    DEF StopUpdate, StopMissing, StopSaved, StopComesSecond, StopConflicts, StopUnsaved,
        StopPost, StopPrune,
        LeaveStop
<1>8. ASSUME NEW a \in Actors, RestartUpdate(a) \/ RestartUndo(a) PROVE Keeps(a)
    BY <1>2, <1>3, <1>8
    DEF RestartUpdate, RestartUndo, RestartSaved, RestartRecords, RestartRefused, RestartUnsaved
<1>9. ASSUME NEW a \in Actors,
             FollowEnds(a) \/ FollowFinalize(a) \/ ListUpdate(a) \/ CleanupUpdate(a) \/ Crash(a)
      PROVE  Keeps(a)
    BY <1>2, <1>3, <1>9 DEF FollowEnds, FollowFinalize, ListUpdate, CleanupUpdate, Crash
<1> HIDE DEF Keeps
<1>10. ASSUME NEW a \in Actors, StartSpawn(a) \/ RestartSpawn(a)
       PROVE  Keeps(a) \/ (job'[a].spawned \in Fresh /\ UNCHANGED pid)
    <2>1. ASSUME NEW step, SpawnWorker(a, step) PROVE job'[a].spawned \in Fresh /\ UNCHANGED pid
        BY <1>0, <1>1, <2>1 DEF SpawnWorker, record, Jobs
    <2> QED
        BY <1>2, <1>10, <2>1 DEF StartSpawn, RestartSpawn, SpawnFails
<1>11. ASSUME NEW a \in Actors, Call(a) \/ JobStep(a) \/ Crash(a)
       PROVE  Keeps(a) \/ (job'[a].spawned \in Fresh /\ UNCHANGED pid)
    BY <1>4, <1>5, <1>6, <1>7, <1>8, <1>9, <1>10, <1>11 DEF JobStep
<1>12. ASSUME NEW a \in Actors, Call(a) \/ JobStep(a) \/ Crash(a), NEW b \in Actors, b # a
       PROVE  job'[b] = job[b]
    BY <1>0, <1>12, OwnJobOnly
<1>13. CASE \E a \in Actors : Call(a) \/ JobStep(a) \/ Crash(a)
    <2>1. PICK a \in Actors : Call(a) \/ JobStep(a) \/ Crash(a)
        BY <1>13
    <2>2. \A b \in Actors : b # a => job'[b] = job[b]
        BY <1>12, <2>1
    <2> QED
        BY <1>11, <2>1, <2>2 DEF Keeps
<1>14. CASE UNCHANGED job
    BY <1>14
<1> QED
    BY <1>13, <1>14
    DEF Next, vars, Suspend, Resume, SignalRecorded, GetSession, Logs, DaemonStart, DaemonPass,
        Exit

\* An operation that kills the worker of its failed update does nothing else with it.
LEMMA UndoingEnds ==
    ASSUME SafetyInv, [Next]_vars, NEW a \in Actors, At(a, "undo_error")
    PROVE  job'[a] = job[a] \/ job'[a].spawned = NoPid
<1>0. job \in [Actors -> Jobs] /\ job[a].step = "undo_error"
    BY DEF SafetyInv, TypeInv, TypeOK, At
<1>1. CASE Call(a)
    BY <1>0, <1>1, CallBegins
<1>2. CASE JobStep(a) \/ Crash(a)
    <2>1. Finish(a)
        BY <1>0, <1>2
        DEF JobStep, StartSpawn, StartUpdate, StopLoad, StopSignal, StopUpdate, StopPost,
            StopPrune,
            RestartLoad, RestartSignal, RestartSpawn, RestartUpdate, RestartUndo, FollowLogs,
            FollowEnds, FollowFinalize, ListUpdate, CleanupUpdate, Crash, At
    <2> QED
        BY <1>0, <2>1 DEF Finish, Become, Idle
<1>3. ASSUME NEW b \in Actors, b # a, Call(b) \/ JobStep(b) \/ Crash(b) PROVE job'[a] = job[a]
    BY <1>3, OwnJobOnly DEF SafetyInv
<1>4. CASE UNCHANGED job
    BY <1>4
<1> QED
    BY <1>1, <1>2, <1>3, <1>4
    DEF Next, vars, Suspend, Resume, SignalRecorded, GetSession, Logs, DaemonStart, DaemonPass,
        Exit

\* How a start or a restart hands its worker's pid to record s.
HandsOver(a, s) ==
    /\ pid' = [pid EXCEPT ![s] = job[a].spawned]
    /\ ~At(a, "undo_error")
    /\ job'[a].spawned # NoPid => job'[a].spawned = job[a].spawned /\ job'[a].step = "undo_error"
    /\ \A b \in Actors : b # a => job'[b] = job[b]

\* What happens to the pids of the records: they stay, go, come from the kernel, or are those
\* that a start or a restart has spawned and hands over.
LEMMA RecordedPids ==
    ASSUME SafetyInv, [Next]_vars
    PROVE  \/ FreshPids /\ \A a \in Actors : job'[a].spawned \in {job[a].spawned, NoPid}
           \/ UNCHANGED pid
           \/ \E a \in Actors, s \in Sessions : HandsOver(a, s)
           \/ /\ \A s \in Sessions : pid'[s] \in {pid[s], NoPid}
              /\ \A a \in Actors : job'[a].spawned \in {job[a].spawned, NoPid}
<1>0. /\ job \in [Actors -> Jobs] /\ pid \in [Sessions -> Pids \union {NoPid}] /\ TypeInv
    BY DEF SafetyInv, TypeInv, TypeOK
<1>1. CASE Reconciling
    <2>1. FreshPids
        BY <1>0, <1>1, ReconcilingTakesFreshPids
    <2> QED
        BY <2>1, SpawnedMoves
<1>2. CASE Reading \/ UNCHANGED vars
    BY <1>2, ReadingKeepsRecords DEF vars, record
<1>3. ASSUME NEW a \in Actors, StartUpdate(a) \/ RestartUpdate(a)
      PROVE  UNCHANGED pid \/ \E s \in Sessions : HandsOver(a, s)
    <2>1. job[a].session \in Sessions /\ ~At(a, "undo_error")
        BY <1>3 DEF StartUpdate, RestartUpdate, At, SafetyInv, TypeInv, JobSessions, Untargeted
    <2>2. \A b \in Actors : b # a => job'[b] = job[b]
        BY <1>0, <1>3, OwnJobOnly DEF JobStep
    <2>3. UNCHANGED pid \/ pid' = [pid EXCEPT ![job[a].session] = job[a].spawned]
        BY <1>3
        DEF StartUpdate, StartSaved, StartUnsaved, RestartUpdate, RestartSaved, RestartRecords,
            RestartRefused, RestartUnsaved, Record, record
    <2> DEFINE Handed == job'[a].spawned # NoPid =>
                            job'[a].spawned = job[a].spawned /\ job'[a].step = "undo_error"
    <2>4. ASSUME Finish(a) PROVE Handed
        BY <1>0, <2>4 DEF Finish, Become, Idle
    <2>5. ASSUME Become(a, [job[a] EXCEPT !.step = "follow_logs", !.spawned = NoPid]) PROVE Handed
        BY <1>0, <2>5 DEF Become, Jobs
    <2>6. ASSUME Goto(a, "undo_error") PROVE Handed
        BY <1>0, <2>6 DEF Goto, Become, Jobs
    <2> HIDE DEF Handed
    <2>7. UNCHANGED pid \/ Handed
        BY <1>3, <2>4, <2>5, <2>6
        DEF StartUpdate, StartSaved, StartUnsaved, RestartUpdate, RestartSaved, RestartRefused,
            RestartUnsaved, record
    <2> QED
        BY <2>1, <2>2, <2>3, <2>7 DEF Handed, HandsOver
<1>4. ASSUME NEW a \in Actors, StopUpdate(a) PROVE \A s \in Sessions : pid'[s] \in {pid[s], NoPid}
    BY <1>0, <1>4
    DEF StopUpdate, StopMissing, StopSaved, StopComesSecond, StopConflicts, StopUnsaved, Record,
        record
<1>5. ASSUME NEW a \in Actors, StopUpdate(a)
      PROVE  \A b \in Actors : job'[b].spawned \in {job[b].spawned, NoPid}
    <2>1. job[a].spawned = NoPid
        BY <1>5 DEF StopUpdate, At, SafetyInv, SpawnedHeld, Spawning
    <2>2. job'[a].spawned = NoPid
        <3>1. ASSUME NEW step, Goto(a, step) \/ RetryFrom(a, step) \/ Finish(a)
              PROVE  job'[a].spawned = NoPid
            <4>1. CASE Finish(a)
                BY <1>0, <4>1 DEF Finish, Become, Idle
            <4>2. CASE Goto(a, step)
                BY <1>0, <2>1, <4>2 DEF Goto, Become, Jobs
            <4>3. CASE Again(a, step)
                BY <1>0, <4>3 DEF Again, Become, Jobs
            <4> QED
                BY <3>1, <4>1, <4>2, <4>3 DEF RetryFrom
        <3> QED
            BY <1>5, <3>1
            DEF StopUpdate, StopMissing, StopSaved, StopComesSecond, StopConflicts, StopUnsaved,
                LeaveStop
    <2>3. \A b \in Actors : b # a => job'[b] = job[b]
        BY <1>0, <1>5, OwnJobOnly DEF JobStep
    <2> QED
        BY <2>2, <2>3
<1>6. ASSUME NEW s \in Sessions, Suspend(s) \/ Resume(s) PROVE UNCHANGED pid
    BY <1>0, <1>6 DEF Suspend, Resume, SignalRecorded, Record
<1> QED
    BY <1>1, <1>2, <1>3, <1>4, <1>5, <1>6, NextCases DEF Updating

LEMMA UnheldStays ==
    ASSUME SafetyInv, [Next]_vars, NEW p \in Pids \ Fresh, Unheld(p)
    PROVE  Unheld(p)'
<1>1. p # NoPid
    BY ConstantsAssumption
<1>2. pid \in [Sessions -> Pids \union {NoPid}]
    BY DEF SafetyInv, TypeInv, TypeOK
<1>3. ASSUME NEW a \in Actors, job'[a].spawned = p PROVE job'[a].step = "undo_error"
    <2>1. job[a].spawned = p
        BY <1>1, <1>3, SpawnedMoves
    <2> QED
        BY <1>1, <1>3, <2>1, UndoingEnds DEF Unheld, At
<1>4. \A s \in Sessions : pid'[s] # p
    BY <1>1, <1>2, RecordedPids DEF Unheld, FreshPids, HandsOver
<1> QED
    BY <1>3, <1>4 DEF Unheld, At

LEMMA PidsApartNext ==
    ASSUME SafetyInv, PidsApart, [Next]_vars
    PROVE  PidsApart'
<1>0. /\ \A p \in Fresh : p # NoPid
      /\ \A s \in Sessions : pid[s] \notin Fresh
      /\ \A a \in Actors : job[a].spawned \notin Fresh
    BY ConstantsAssumption DEF Fresh
<1>1. pid \in [Sessions -> Pids \union {NoPid}]
    BY DEF SafetyInv, TypeInv, TypeOK
<1> DEFINE Lets == \A a \in Actors : job'[a].spawned \in {job[a].spawned, NoPid}
<1>2. \A a \in Actors : At(a, "undo_error") => job'[a] = job[a] \/ job'[a].spawned = NoPid
    BY UndoingEnds
<1>3. CASE FreshPids /\ Lets
    <2>1. \A s, t \in Sessions : pid'[s] # NoPid /\ pid'[s] = pid'[t] => s = t
        BY <1>3 DEF PidsApart, FreshPids
    <2> QED
        BY <1>0, <1>2, <1>3, <2>1 DEF PidsApart, FreshPids, At
<1>4. CASE Lets /\ \A s \in Sessions : pid'[s] \in {pid[s], NoPid}
    BY <1>2, <1>4 DEF PidsApart, At
<1>5. CASE UNCHANGED pid
    <2>1. ASSUME NEW a \in Actors, job'[a].spawned \in Fresh, \A b \in Actors : b # a => job'[b] = job[b]
          PROVE  PidsApart'
        BY <1>0, <1>5, <2>1 DEF PidsApart, At
    <2> QED
        BY <1>4, <1>5, <2>1, SpawnedMoves
<1>6. ASSUME NEW a \in Actors, NEW s \in Sessions, HandsOver(a, s) PROVE PidsApart'
    <2>1. /\ pid'[s] = job[a].spawned /\ \A t \in Sessions : t # s => pid'[t] = pid[t]
          /\ ~At(a, "undo_error") /\ \A b \in Actors : b # a => job'[b] = job[b]
          /\ job'[a].spawned # NoPid =>
                job'[a].spawned = job[a].spawned /\ job'[a].step = "undo_error"
        BY <1>1, <1>6 DEF HandsOver
    <2>2. \A t, u \in Sessions : pid'[t] # NoPid /\ pid'[t] = pid'[u] => t = u
        BY <2>1 DEF PidsApart
    <2>3. \A t \in Sessions, b \in Actors :
            pid'[t] # NoPid /\ pid'[t] = job'[b].spawned => job'[b].step = "undo_error"
        BY <2>1 DEF PidsApart, At
    <2>4. \A b, c \in Actors : job'[b].spawned # NoPid /\ job'[b].spawned = job'[c].spawned => b = c
        BY <2>1 DEF PidsApart
    <2> QED
        BY <2>2, <2>3, <2>4 DEF PidsApart, At
<1> QED
    BY <1>3, <1>4, <1>5, <1>6, RecordedPids

LEMMA PostStopAloneNext ==
    ASSUME SafetyInv, PidsApart, PostStopAlone, [Next]_vars
    PROVE  PostStopAlone'
<1>0. /\ job \in [Actors -> Jobs] /\ pid \in [Sessions -> Pids \union {NoPid}] /\ TypeInv
    BY DEF SafetyInv, TypeInv, TypeOK
<1> DEFINE Had(a) == At(a, "stop_post") /\ job'[a] = job[a]
           Took(a) == /\ At(a, "stop_post")' /\ StopUpdate(a) /\ StopSaved(a) /\ HasPostStop(a)
                      /\ job'[a].expected = job[a].expected /\ job'[a].spawned = job[a].spawned
<1>1. ASSUME NEW a \in Actors, At(a, "stop_post")' PROVE Had(a) \/ Took(a)
    <2>1. CASE job'[a] = job[a]
        BY <1>1, <2>1 DEF At
    <2>2. CASE /\ StopUpdate(a) \/ StopPost(a)
               /\ job'[a] = [job[a] EXCEPT !.step = job'[a].step]
               /\ StopSaved(a) /\ HasPostStop(a)
        <3>1. job'[a].expected = job[a].expected /\ job'[a].spawned = job[a].spawned
            BY <1>0, <2>2 DEF Jobs
        <3>2. ~StopPost(a)
            BY <2>2 DEF StopPost, StopSaved, Recorded, PostStopAlone, Unheld
        <3> QED
            BY <1>1, <2>2, <3>1, <3>2
    <2> QED
        BY <1>0, <1>1, <2>1, <2>2, StopMoves
<1>2. ASSUME NEW a \in Actors, Had(a) PROVE job'[a].expected # NoPid /\ Unheld(job[a].expected)'
    <2>1. job[a].expected # NoPid /\ Unheld(job[a].expected)
        BY <1>2 DEF PostStopAlone
    <2>2. job[a].expected \in Pids \ Fresh
        BY <1>0, <2>1 DEF Jobs, Fresh
    <2> QED
        BY <1>2, <2>1, <2>2, UnheldStays DEF Unheld
<1>3. ASSUME NEW a \in Actors, Took(a)
      PROVE  /\ job[a].expected # NoPid /\ job[a].session \in Sessions
             /\ pid[job[a].session] = job[a].expected
             /\ pid' = [pid EXCEPT ![job[a].session] = NoPid]
    BY <1>0, <1>3 DEF HasPostStop, StopSaved, Recorded, Record
<1>4. ASSUME NEW a \in Actors, Took(a) PROVE Unheld(job[a].expected)'
    <2>1. \A s \in Sessions : pid'[s] # job[a].expected
        BY <1>0, <1>3, <1>4 DEF PidsApart
    <2>2. \A b \in Actors : b # a => job'[b] = job[b]
        BY <1>0, <1>4, OwnJobOnly DEF JobStep
    <2>25. job[a].step = "stop_update"
        BY <1>4 DEF StopUpdate, At
    <2>3. \A b \in Actors : job'[b].spawned = job[a].expected => job'[b].step = "undo_error"
        BY <1>3, <1>4, <2>2, <2>25 DEF PidsApart, At
    <2> QED
        BY <1>4, <2>1, <2>3 DEF Unheld, At
<1>5. ASSUME NEW a \in Actors, NEW b \in Actors, Had(a), Took(b) PROVE job'[a].expected # job'[b].expected
    BY <1>3, <1>5 DEF PostStopAlone, Unheld
<1>6. ASSUME NEW a \in Actors, NEW b \in Actors, Took(a), Took(b) PROVE a = b
    <2>1. CASE a # b
        <3>1. job'[b] = job[b]
            BY <1>0, <1>6, <2>1, OwnJobOnly DEF JobStep
        <3>2. At(b, "stop_update")
            BY <1>6 DEF StopUpdate
        <3> QED
            BY <1>6, <3>1, <3>2 DEF At
    <2> QED
        BY <2>1
<1> QED
    BY <1>1, <1>2, <1>3, <1>4, <1>5, <1>6 DEF PostStopAlone

\* Two stops of one session may both find its worker and both see it end; only the one
\* that takes its pid out of the record runs the poststop task.
THEOREM PostStopsOnce == Spec => []PostStopOnce
<1>1. Init => PidsApart /\ PostStopAlone
    BY DEF Init, Idle, PidsApart, PostStopAlone, At
<1>2. SafetyInv /\ PidsApart /\ PostStopAlone /\ [Next]_vars => PidsApart' /\ PostStopAlone'
    BY PidsApartNext, PostStopAloneNext
<1>3. PostStopAlone => PostStopOnce
    BY DEF PostStopAlone, PostStopOnce
<1> QED
    BY <1>1, <1>2, <1>3, SafetyInvariant, PTL DEF Spec

-----------------------------------------------------------------------------
(* Stops without conflicts *)

Stopping(a) == job[a].step \in {"stop_load", "stop_signal", "stop_update"}

Restarting == {"restart_load", "restart_signal", "restart_spawn", "restart_update",
               "undo_conflict", "undo_error"}

\* Where nobody restarts, a stop finds the pid it has loaded, or none: the session it
\* stops is not being started, and is not respawned unless managed.
Undisturbed ==
    /\ \A a \in Actors : job[a].step \notin Restarting
    /\ \A a, b \in Actors : Stopping(a) /\ Starting(b) => job[a].session # job[b].session
    /\ \A a \in Actors : job[a].session \notin Managed =>
        /\ job[a].attempt <= 1
        /\ job[a].step \in {"stop_signal", "stop_update"} =>
            pid[job[a].session] \in {job[a].expected, NoPid}

\* How a caller gets to a step of a stop or of a restart, and into another attempt.
Onward(a) ==
    \/ job'[a] = job[a]
    \/ /\ job'[a].session = job[a].session /\ job'[a].attempt = job[a].attempt
       /\ job'[a].step \notin {"stop_load", "start_spawn"} \union Restarting
       /\ job'[a].step \in {"stop_signal", "stop_update"} =>
            \/ StopLoad(a) /\ job'[a].expected = pid[job[a].session]
            \/ StopSignal(a) /\ job'[a].expected = job[a].expected
       /\ Starting(a)' => Starting(a)
    \/ job'[a] = Idle
    \/ /\ job'[a].session = job[a].session /\ job'[a].step = "stop_load"
       /\ At(a, "stop_update") /\ StopConflicts(a)
    \/ /\ job'[a].session \in Sessions /\ job'[a].attempt = 1
       /\ \/ /\ job'[a].step = "start_spawn" /\ job'[a].session \notin Recorded
             /\ \A b \in Actors : job[b].session # job'[a].session
          \/ job'[a].step = "stop_load" /\ job'[a].session \in Recorded
    \/ job'[a].step \in Untargeted /\ job'[a].attempt = 0

LEMMA OnwardNext ==
    ASSUME TypeInv, "restart" \notin Ops, Undisturbed, [Next]_vars, NEW a \in Actors
    PROVE  Onward(a)
<1>0. job \in [Actors -> Jobs] /\ job[a] \in Jobs
    BY DEF TypeInv, TypeOK
<1>1. ASSUME NEW r, Become(a, r) PROVE job'[a] = r
    BY <1>0, <1>1 DEF Become
<1>2. ASSUME Finish(a) PROVE Onward(a)
    BY <1>1, <1>2 DEF Finish, Onward
<1>3. ASSUME job'[a] = job[a] PROVE Onward(a)
    BY <1>3 DEF Onward
<1>4. ASSUME NEW step, Goto(a, step)
      PROVE  /\ job'[a].session = job[a].session /\ job'[a].attempt = job[a].attempt
             /\ job'[a].step = step /\ job'[a].expected = job[a].expected
    BY <1>0, <1>1, <1>4 DEF Goto, Jobs
<1>5. ASSUME NEW step \in {"stop_post", "stop_prune", "follow_finalize"}, Goto(a, step)
      PROVE  Onward(a)
    BY <1>4, <1>5 DEF Onward, Restarting, Starting
<1>6. ASSUME Call(a) PROVE Onward(a)
    <2>1. ASSUME NEW step, NEW s, NEW force, Begin(a, step, s, force)
          PROVE  job'[a].step = step /\ job'[a].session = s /\ job'[a].attempt = 1
        BY <1>1, <2>1 DEF Begin, Idle
    <2>2. ASSUME NEW s \in Sessions, BeginStart(a, s) PROVE Onward(a)
        BY <2>1, <2>2 DEF BeginStart, Recorded, Onward
    <2>3. ASSUME NEW s \in Sessions, NEW force, BeginStop(a, s, force) PROVE Onward(a)
        BY <2>1, <2>3 DEF BeginStop, Onward
    <2>4. ASSUME NEW step \in Untargeted, NEW ids, BeginScan(a, step, ids) PROVE Onward(a)
        BY <1>1, <2>4 DEF BeginScan, Idle, Onward
    <2> QED
        BY <1>6, <2>2, <2>3, <2>4 DEF Call, BeginRestart, BeginList, BeginCleanup, Untargeted
<1>7. ASSUME StartSpawn(a) PROVE Onward(a)
    <2>1. ASSUME NEW p, Become(a, [job[a] EXCEPT !.step = "start_update", !.spawned = p])
          PROVE  /\ job'[a].session = job[a].session /\ job'[a].attempt = job[a].attempt
                 /\ job'[a].step = "start_update"
        BY <1>0, <1>1, <2>1 DEF Jobs
    <2>2. Starting(a)
        BY <1>7 DEF StartSpawn, At, Starting
    <2> QED
        BY <1>2, <1>7, <2>1, <2>2 DEF StartSpawn, SpawnWorker, SpawnFails, Onward, Restarting
<1>8. ASSUME StartUpdate(a) \/ FollowLogs(a) PROVE Onward(a)
    <2>1. ASSUME NEW p, Become(a, [job[a] EXCEPT !.step = "follow_wait", !.expected = p]) PROVE Onward(a)
        <3>1. /\ job'[a].session = job[a].session /\ job'[a].attempt = job[a].attempt
              /\ job'[a].step = "follow_wait"
            BY <1>0, <1>1, <2>1 DEF Jobs
        <3> QED
            BY <3>1 DEF Onward, Restarting, Starting
    <2>2. ASSUME Become(a, [job[a] EXCEPT !.step = "follow_logs", !.spawned = NoPid]) PROVE Onward(a)
        <3>1. /\ job'[a].session = job[a].session /\ job'[a].attempt = job[a].attempt
              /\ job'[a].step = "follow_logs"
            BY <1>0, <1>1, <2>2 DEF Jobs
        <3> QED
            BY <3>1 DEF Onward, Restarting, Starting
    <2> QED
        BY <1>2, <1>8, <2>1, <2>2 DEF StartUpdate, StartSaved, StartUnsaved, FollowLogs
<1>9. ASSUME StopLoad(a) PROVE Onward(a)
    <2>1. ASSUME NEW p, GotoExpecting(a, p, "stop_update", "stop_signal")
          PROVE  /\ job'[a].session = job[a].session /\ job'[a].attempt = job[a].attempt
                 /\ job'[a].step \in {"stop_signal", "stop_update"} /\ job'[a].expected = p
        BY <1>0, <1>1, <2>1 DEF GotoExpecting, Jobs
    <2> QED
        BY <1>2, <1>9, <2>1 DEF StopLoad, Onward, Restarting, Starting
<1>10. ASSUME StopSignal(a) PROVE Onward(a)
    <2>1. CASE Goto(a, "stop_update")
        BY <1>4, <1>10, <2>1 DEF Onward, Restarting, Starting
    <2> QED
        BY <1>2, <1>10, <2>1 DEF StopSignal, Signal
<1>11. ASSUME StopUpdate(a) PROVE Onward(a)
    <2>1. CASE StopConflicts(a)
        <3>1. CASE Again(a, "stop_load")
            <4>1. job'[a].session = job[a].session /\ job'[a].step = "stop_load"
                BY <1>0, <1>1, <3>1 DEF Again, Jobs
            <4> QED
                BY <1>11, <2>1, <4>1 DEF StopUpdate, Onward
        <3> QED
            BY <1>2, <2>1, <3>1 DEF StopConflicts, RetryFrom
    <2> QED
        BY <1>2, <1>5, <1>11, <2>1
        DEF StopUpdate, StopMissing, StopSaved, StopComesSecond, StopUnsaved, LeaveStop, AfterStop
<1>12. ASSUME StopPost(a) \/ StopPrune(a) PROVE Onward(a)
    BY <1>2, <1>5, <1>12 DEF StopPost, StopPrune, LeaveStop, AfterStop
<1>13. ~(RestartLoad(a) \/ RestartSignal(a) \/ RestartSpawn(a) \/ RestartUpdate(a) \/ RestartUndo(a))
    BY
    DEF RestartLoad, RestartSignal, RestartSpawn, RestartUpdate, RestartUndo, At, Undisturbed,
        Restarting
<1>14. ASSUME FollowEnds(a) \/ FollowFinalize(a) \/ ListUpdate(a) \/ CleanupUpdate(a) \/ Crash(a)
       PROVE  Onward(a)
    BY <1>2, <1>5, <1>14 DEF FollowEnds, FollowFinalize, ListUpdate, CleanupUpdate, Crash
<1>15. CASE \E b \in Actors : Call(b) \/ JobStep(b) \/ Crash(b)
    <2>1. CASE Call(a) \/ JobStep(a) \/ Crash(a)
        BY <1>6, <1>7, <1>8, <1>9, <1>10, <1>11, <1>12, <1>13, <1>14, <2>1 DEF JobStep
    <2>2. ASSUME NEW b \in Actors, b # a, Call(b) \/ JobStep(b) \/ Crash(b) PROVE job'[a] = job[a]
        BY <2>2, OwnJobOnly
    <2> QED
        BY <1>3, <1>15, <2>1, <2>2
<1>16. CASE UNCHANGED job
    BY <1>3, <1>16
<1> QED
    BY <1>15, <1>16
    DEF Next, vars, Suspend, Resume, SignalRecorded, GetSession, Logs, DaemonStart, DaemonPass,
        Exit

\* A record of an unmanaged session gets a pid from a start or a restart only.
LEMMA UnmanagedPids ==
    ASSUME TypeInv, [Next]_vars, NEW s \in Sessions \ Managed
    PROVE  \/ pid'[s] \in {pid[s], NoPid}
           \/ \E b \in Actors : (StartUpdate(b) \/ RestartUpdate(b)) /\ job[b].session = s
<1>0. pid \in [Sessions -> Pids \union {NoPid}]
    BY DEF TypeInv, TypeOK
<1>1. ASSUME NEW R, NEW f PROVE PidAfter(R, f)[s] \in {pid[s], NoPid}
    BY DEF PidAfter, Respawns
<1>2. ASSUME NEW R, ReconcileSaved(R) \/ ReconcileFails(R) PROVE pid'[s] \in {pid[s], NoPid}
    BY <1>1, <1>2 DEF ReconcileSaved, ReconcileFails, ReconcileLost, record
<1>3. ASSUME NEW t, LogsFound(t) \/ LogsFail(t) PROVE pid'[s] \in {pid[s], NoPid}
    BY <1>2, <1>3 DEF LogsFound, LogsFail, ReconcileLost, record
<1>4. ASSUME NEW R, CleanupSaved(R) \/ CleanupUnsaved(R) PROVE pid'[s] \in {pid[s], NoPid}
    BY <1>1, <1>4 DEF CleanupSaved, CleanupUnsaved, record
<1>5. ASSUME NEW a \in Actors, FollowFinalize(a) PROVE pid'[s] \in {pid[s], NoPid}
    BY <1>1, <1>2, <1>5 DEF FollowFinalize, record
<1>6. CASE Reconciling
    BY <1>2, <1>3, <1>4, <1>5, <1>6
    DEF Reconciling, GetSession, Logs, FollowLogs, ListUpdate, CleanupUpdate, DaemonPass
<1>7. CASE Reading \/ UNCHANGED vars
    BY <1>7, ReadingKeepsRecords DEF vars, record
<1>8. ASSUME NEW b \in Actors, StartUpdate(b) \/ RestartUpdate(b), job[b].session # s
      PROVE  pid'[s] = pid[s]
    BY <1>0, <1>8
    DEF StartUpdate, StartSaved, StartUnsaved, RestartUpdate, RestartSaved, RestartRecords,
        RestartRefused, RestartUnsaved, Record, record
<1>9. ASSUME NEW a \in Actors, StopUpdate(a) PROVE pid'[s] \in {pid[s], NoPid}
    BY <1>0, <1>9
    DEF StopUpdate, StopMissing, StopSaved, StopComesSecond, StopConflicts, StopUnsaved, Record,
        record
<1>10. ASSUME NEW t \in Sessions, Suspend(t) \/ Resume(t) PROVE pid'[s] = pid[s]
    BY <1>0, <1>10 DEF Suspend, Resume, SignalRecorded, Record
<1> QED
    BY <1>6, <1>7, <1>8, <1>9, <1>10, NextCases DEF Updating

LEMMA UndisturbedNext ==
    ASSUME SafetyInv, "restart" \notin Ops, Undisturbed, [Next]_vars
    PROVE  Undisturbed'
<1>0. /\ job \in [Actors -> Jobs] /\ TypeInv /\ NoSession \notin Sessions
      /\ \A a \in Actors : Stopping(a) => job[a].session \in Sessions
    BY ConstantsAssumption DEF SafetyInv, TypeInv, TypeOK, JobSessions, Stopping, Untargeted
<1>1. \A a \in Actors : Onward(a)
    BY <1>0, OnwardNext
<1>2. ASSUME NEW a \in Actors PROVE job'[a].step \notin Restarting
    BY <1>1 DEF Onward, Undisturbed, Restarting, Untargeted, Idle
<1>3. ASSUME NEW a \in Actors, Stopping(a)'
      PROVE  \/ Stopping(a) /\ job'[a].session = job[a].session
             \/ job'[a].session \in Recorded /\ job'[a].step = "stop_load"
    <2>1. ~(job'[a] = Idle) /\ job'[a].step \notin Untargeted
        BY <1>3 DEF Stopping, Idle, Untargeted
    <2>2. StopLoad(a) \/ StopSignal(a) \/ At(a, "stop_update") => Stopping(a)
        BY DEF StopLoad, StopSignal, At, Stopping
    <2> QED
        BY <1>1, <1>3, <2>1, <2>2 DEF Onward, Stopping
<1>4. ASSUME NEW b \in Actors, Starting(b)'
      PROVE  \/ Starting(b) /\ job'[b].session = job[b].session
             \/ /\ job'[b].session \notin Recorded
                /\ \A a \in Actors : job[a].session # job'[b].session
    BY <1>1, <1>4 DEF Onward, Starting, Idle, Untargeted
<1>5. ASSUME NEW a \in Actors, NEW b \in Actors, Stopping(a)', Starting(b)'
      PROVE  job'[a].session # job'[b].session
    <2>1. Starting(b) => job[b].session \notin Recorded
        BY DEF SafetyInv, StartsNew, Recorded
    <2> QED
        BY <1>3, <1>4, <1>5, <2>1 DEF Undisturbed
<1>6. ASSUME NEW a \in Actors, job'[a].session \notin Managed PROVE job'[a].attempt <= 1
    <2>1. ASSUME At(a, "stop_update"), StopConflicts(a), job[a].session \notin Managed PROVE FALSE
        BY <2>1 DEF At, StopConflicts, Undisturbed
    <2> QED
        BY <1>1, <1>6, <2>1 DEF Onward, Undisturbed, Idle
<1>7. ASSUME NEW a \in Actors, Stopping(a), job[a].session \notin Managed
      PROVE  pid'[job[a].session] \in {pid[job[a].session], NoPid}
    <2>1. ASSUME NEW b \in Actors, StartUpdate(b) PROVE job[b].session # job[a].session
        BY <1>7, <2>1 DEF StartUpdate, StartSaved, StartUnsaved, At, Starting, Undisturbed
    <2>2. ASSUME NEW b \in Actors, RestartUpdate(b) PROVE FALSE
        BY <2>2 DEF RestartUpdate, At, Undisturbed, Restarting
    <2> QED
        BY <1>0, <1>7, <2>1, <2>2, UnmanagedPids
<1>8. ASSUME NEW a \in Actors, job'[a].session \notin Managed,
             job'[a].step \in {"stop_signal", "stop_update"}
      PROVE  pid'[job'[a].session] \in {job'[a].expected, NoPid}
    <2>1. Stopping(a) /\ job'[a].session = job[a].session
        BY <1>3, <1>8 DEF Stopping
    <2>2. pid'[job[a].session] \in {pid[job[a].session], NoPid}
        BY <1>7, <1>8, <2>1
    <2>3. CASE job'[a] = job[a]
        BY <1>8, <2>2, <2>3 DEF Undisturbed
    <2>4. CASE StopLoad(a) /\ job'[a].expected = pid[job[a].session]
        BY <2>1, <2>2, <2>4
    <2>5. CASE StopSignal(a) /\ job'[a].expected = job[a].expected
        BY <1>8, <2>1, <2>2, <2>5 DEF StopSignal, At, Undisturbed
    <2> QED
        BY <1>1, <1>8, <2>3, <2>4, <2>5 DEF Onward, Idle, Untargeted
<1> QED
    BY <1>2, <1>5, <1>6, <1>8 DEF Undisturbed

\* Stops of one session never make each other try again: whichever comes second finds the
\* record without a pid, and takes that for success.
THEOREM StopsAgree == Spec => []StopsNeverConflict
<1>1. CASE "restart" \in Ops
    <2>1. StopsNeverConflict
        BY <1>1 DEF StopsNeverConflict
    <2> QED
        BY <2>1, PTL
<1>2. CASE "restart" \notin Ops
    <2>1. Init => Undisturbed
        BY DEF Init, Idle, Undisturbed, Restarting, Stopping, Starting
    <2>2. SafetyInv /\ Undisturbed /\ [Next]_vars => Undisturbed'
        BY <1>2, UndisturbedNext
    <2>3. Undisturbed => StopsNeverConflict
        BY DEF Undisturbed, StopsNeverConflict
    <2> QED
        BY <2>1, <2>2, <2>3, SafetyInvariant, PTL DEF Spec
<1> QED
    BY <1>1, <1>2
=============================================================================
