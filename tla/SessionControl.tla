--------------------------- MODULE SessionControl ---------------------------
(***************************************************************************)
(* Session control of launch-code: the session records of                  *)
(* .launch-code/state.json, the worker processes they stand for, and the   *)
(* CLI commands, HTTP workers and daemon that stop, restart, suspend,      *)
(* resume, start, list, reconcile and clean up sessions concurrently.      *)
(*                                                                         *)
(* A load or an update of the state file holds the file lock from its      *)
(* first read to its rename (module StateStore), so one load or one update *)
(* is one step here.  What an operation does between two of them, such as  *)
(* signalling a worker or spawning one, is a step of its own, and any      *)
(* other operation may come in between.                                    *)
(*                                                                         *)
(* An operation in progress is a job.  Operations that are one single      *)
(* update (suspend, resume, the daemon's pass, status) need no job.        *)
(*                                                                         *)
(* A definition whose comment starts with "Mutant" is not the code: it is  *)
(* a slip one could make there, kept to show that a property notices it.   *)
(***************************************************************************)
EXTENDS Naturals

CONSTANTS
    Sessions,     \* session ids
    Actors,       \* concurrent callers: CLI processes, HTTP workers
    Pids,         \* process ids; a bound on the processes alive at once
    NoPid,        \* pid = None
    NoSession,    \* the target of an idle actor
    Managed,      \* sessions whose spec says managed
    Temporary,    \* sessions whose log_retention is temporary
    PostStop,     \* sessions whose spec has a poststop_task
    MaxRetries,   \* SESSION_CONTROL_MAX_RETRIES
    Ops,          \* the operations the callers use
    Faults        \* subset of {"spawn", "task", "state", "crash"}: what may fail

ASSUME ConstantsAssumption ==
    /\ NoPid \notin Pids
    /\ NoSession \notin Sessions
    /\ Managed \subseteq Sessions
    /\ Temporary \subseteq Sessions
    /\ PostStop \subseteq Sessions
    /\ MaxRetries \in Nat \ {0}

VARIABLES
    status,    \* record status of a session, "absent" when it has no record
    pid,       \* record pid of a session
    logPath,   \* sessions whose record has a log_path
    logFile,   \* sessions whose log file exists on disk
    proc,      \* the process table
    job,       \* the operation each actor is in
    daemonUp   \* the daemon loop is running

record == <<status, pid, logPath>>
vars == <<status, pid, logPath, logFile, proc, job, daemonUp>>

-----------------------------------------------------------------------------
(* Jobs *)

Steps == {"idle",
          "start_spawn", "start_update",
          "stop_load", "stop_signal", "stop_update", "stop_post", "stop_prune",
          "restart_load", "restart_signal", "restart_spawn", "restart_update",
          "undo_conflict", "undo_error",
          "follow_logs", "follow_wait", "follow_finalize",
          "list_update", "cleanup_update"}

Idle == [step |-> "idle", session |-> NoSession, force |-> FALSE, attempt |-> 0,
         expected |-> NoPid, spawned |-> NoPid, ids |-> {}]

Become(a, j) == job' = [job EXCEPT ![a] = j]

Begin(a, step, s, force) ==
    /\ job[a] = Idle
    /\ Become(a, [Idle EXCEPT !.step = step, !.session = s, !.force = force, !.attempt = 1])

BeginScan(a, step, ids) ==
    /\ job[a] = Idle
    /\ Become(a, [Idle EXCEPT !.step = step, !.ids = ids])

Goto(a, step) == Become(a, [job[a] EXCEPT !.step = step])

\* The pid the load found: without one there is nothing to signal.
GotoExpecting(a, p, without, with) ==
    Become(a, [job[a] EXCEPT !.step = IF p = NoPid THEN without ELSE with, !.expected = p])

Finish(a) == Become(a, Idle)

Again(a, step) ==
    Become(a, [job[a] EXCEPT !.step = step, !.attempt = @ + 1, !.expected = NoPid, !.spawned = NoPid])

\* Mutant: the attempts are not counted.
RetryForever(a, step) ==
    Become(a, [job[a] EXCEPT !.step = step, !.expected = NoPid, !.spawned = NoPid])

\* Mutant: one attempt too many.
RetryOnceMore(a, step) == IF job[a].attempt <= MaxRetries THEN Again(a, step) ELSE Finish(a)

\* retry_session_control: run the operation again, from its load, while the
\* budget lasts; the last conflict is the caller's answer.
RetryFrom(a, step) == IF job[a].attempt < MaxRetries THEN Again(a, step) ELSE Finish(a)

At(a, step) == job[a].step = step

-----------------------------------------------------------------------------
(* Records and processes *)

Recorded == {s \in Sessions : status[s] # "absent"}

Alive(p) == p # NoPid /\ proc[p] # "gone"

\* The kernel hands out a pid that no process has.  No record and no operation
\* refers to it either: see the README on pid reuse.
Fresh == {p \in Pids :
            /\ proc[p] = "gone"
            /\ \A s \in Sessions : pid[s] # p
            /\ \A a \in Actors : job[a].expected # p /\ job[a].spawned # p}

\* One new process for each session of S.
Spawns(S) == {f \in [S -> Fresh] : \A s, t \in S : f[s] = f[t] => s = t}

NewPids(f) == {f[s] : s \in DOMAIN f}

WithRunning(P) == [p \in Pids |-> IF p \in P THEN "running" ELSE proc[p]]

WithGone(p) == [proc EXCEPT ![p] = "gone"]

\* Mutant: every log is pruned, whatever its retention.
PruneAnyLog(s) == TRUE

ShouldPruneLog(s) == s \in Temporary

Record(s, st, p) ==
    /\ status' = [status EXCEPT ![s] = st]
    /\ pid' = [pid EXCEPT ![s] = p]

Init ==
    /\ status = [s \in Sessions |-> "absent"]
    /\ pid = [s \in Sessions |-> NoPid]
    /\ logPath = {}
    /\ logFile = {}
    /\ proc = [p \in Pids |-> "gone"]
    /\ job = [a \in Actors |-> Idle]
    /\ daemonUp = FALSE

\* A load or an update of the state file ends in an error: no lock, a file that cannot be
\* read or is of a newer schema, a save that fails.  Nothing is changed then, unless the
\* new file was renamed before its directory could not be synced (module StateStore).
StateFails == "state" \in Faults

\* An update may fail, or be killed, after it did what its save does not undo: signalled
\* a worker, spawned one, removed a log file.
NotSaved == StateFails \/ "crash" \in Faults

-----------------------------------------------------------------------------
(* Spawning: prepare_debug_spec, the prelaunch task, ensure_debug_runtime_  *)
(* ready and the fork each may fail; the prelaunch task opens the log file  *)
(* before it runs, and so does the spawn.                                   *)

SpawnMayFail == "spawn" \in Faults \/ Fresh = {}

SpawnWorker(a, next) ==
    LET s == job[a].session
    IN  \E p \in Fresh :
            /\ proc' = WithRunning({p})
            /\ logFile' = logFile \union {s}
            /\ Become(a, [job[a] EXCEPT !.step = next, !.spawned = p])
            /\ UNCHANGED <<record, daemonUp>>

SpawnFails(a) ==
    /\ SpawnMayFail
    /\ logFile' \in {logFile, logFile \union {job[a].session}}
    /\ Finish(a)
    /\ UNCHANGED <<record, proc, daemonUp>>

-----------------------------------------------------------------------------
(* stop_process_with_options: SIGTERM, the grace period, then SIGKILL when  *)
(* forced.  A worker that dies of the SIGTERM is an Exit step before this.  *)

Signal(a, next) ==
    LET p == job[a].expected
    IN  /\ \/ /\ ~Alive(p)
              /\ Goto(a, next)
              /\ UNCHANGED proc
           \/ /\ Alive(p) /\ job[a].force
              /\ proc' = WithGone(p)
              /\ Goto(a, next)
           \/ /\ Alive(p) /\ ~job[a].force       \* StopTimeout
              /\ Finish(a)
              /\ UNCHANGED proc
        /\ UNCHANGED <<record, logFile, daemonUp>>

-----------------------------------------------------------------------------
(* handle_start_spec, in the background *)

BeginStart(a, s) ==
    /\ "start" \in Ops
    /\ status[s] = "absent" /\ s \notin logFile     \* a new uuid
    /\ \A b \in Actors : job[b].session # s
    /\ Begin(a, "start_spawn", s, FALSE)
    /\ UNCHANGED <<record, logFile, proc, daemonUp>>

StartSpawn(a) ==
    /\ At(a, "start_spawn")
    /\ SpawnWorker(a, "start_update") \/ SpawnFails(a)

StartSaved(a) ==
    LET s == job[a].session
    IN  /\ Record(s, "running", job[a].spawned)
        /\ logPath' = logPath \union {s}
        /\ \/ Finish(a)
           \/ /\ "tail" \in Ops                             \* start --tail
              /\ Become(a, [job[a] EXCEPT !.step = "follow_logs", !.spawned = NoPid])

\* The error returns at once: unlike a restart, a start leaves its worker running.
StartUnsaved(a) ==
    /\ StateFails
    /\ Finish(a)
    /\ UNCHANGED record

StartUpdate(a) ==
    /\ At(a, "start_update")
    /\ StartSaved(a) \/ StartUnsaved(a)
    /\ UNCHANGED <<logFile, proc, daemonUp>>

-----------------------------------------------------------------------------
(* api_stop_session_once under retry_session_control *)

BeginStop(a, s, force) ==
    /\ "stop" \in Ops
    /\ s \in Recorded                              \* resolve_session_id
    /\ Begin(a, "stop_load", s, force)
    /\ UNCHANGED <<record, logFile, proc, daemonUp>>

StopLoad(a) ==
    LET s == job[a].session
    IN  /\ At(a, "stop_load")
        /\ \/ (s \notin Recorded \/ StateFails) /\ Finish(a)         \* SessionNotFound
           \/ s \in Recorded /\ GotoExpecting(a, pid[s], "stop_update", "stop_signal")
        /\ UNCHANGED <<record, logFile, proc, daemonUp>>

StopSignal(a) == At(a, "stop_signal") /\ Signal(a, "stop_update")

\* Where a stop goes once its update is saved, and after its poststop task.
AfterStop(s) == IF ShouldPruneLog(s) THEN "stop_prune" ELSE "idle"

LeaveStop(a, next) == IF next = "idle" THEN Finish(a) ELSE Goto(a, next)

\* build_post_stop_task: only for a stop that found a pid in its load.
HasPostStop(a) ==
    LET s == job[a].session
    IN  job[a].expected # NoPid /\ s \in PostStop /\ s \in logPath

StopMissing(a) ==                                           \* SessionNotFound
    /\ job[a].session \notin Recorded
    /\ Finish(a)
    /\ UNCHANGED record

StopSaved(a) ==
    LET s == job[a].session
    IN  /\ s \in Recorded /\ pid[s] = job[a].expected
        /\ Record(s, "stopped", NoPid)
        /\ LeaveStop(a, IF HasPostStop(a) THEN "stop_post" ELSE AfterStop(s))
        /\ UNCHANGED logPath

\* Mutant: the stop that comes second runs the poststop task as well.
StopComesSecondWithTask(a) ==
    LET s == job[a].session
    IN  /\ s \in Recorded /\ pid[s] # job[a].expected /\ pid[s] = NoPid
        /\ Record(s, "stopped", NoPid)
        /\ LeaveStop(a, IF HasPostStop(a) THEN "stop_post" ELSE AfterStop(s))
        /\ UNCHANGED logPath

\* Mutant: a record without a pid is a conflict like any other.
StopComesSecondConflicts(a) ==
    LET s == job[a].session
    IN  /\ s \in Recorded /\ pid[s] # job[a].expected /\ pid[s] = NoPid
        /\ RetryFrom(a, "stop_load")
        /\ UNCHANGED record

\* Somebody else recorded the end of the worker: the stop succeeds, without the
\* poststop task.
StopComesSecond(a) ==
    LET s == job[a].session
    IN  /\ s \in Recorded /\ pid[s] # job[a].expected /\ pid[s] = NoPid
        /\ Record(s, "stopped", NoPid)
        /\ LeaveStop(a, AfterStop(s))
        /\ UNCHANGED logPath

StopConflicts(a) ==                                         \* SessionStateChanged
    LET s == job[a].session
    IN  /\ s \in Recorded /\ pid[s] # job[a].expected /\ pid[s] # NoPid
        /\ RetryFrom(a, "stop_load")
        /\ UNCHANGED record

\* The stop ends with its worker gone and no poststop task, whatever the file says.
StopUnsaved(a) ==
    LET s == job[a].session
    IN  /\ StateFails
        /\ \/ UNCHANGED record
           \/ /\ s \in Recorded /\ pid[s] \in {job[a].expected, NoPid}
              /\ Record(s, "stopped", NoPid)
              /\ UNCHANGED logPath
        /\ Finish(a)

StopUpdate(a) ==
    /\ At(a, "stop_update")
    /\ \/ StopMissing(a) \/ StopSaved(a) \/ StopComesSecond(a) \/ StopConflicts(a)
       \/ StopUnsaved(a)
    /\ UNCHANGED <<logFile, proc, daemonUp>>

\* The poststop task runs unlocked and appends to the log file; when it fails
\* the operation returns at once and leaves a temporary log behind.
StopPost(a) ==
    LET s == job[a].session
    IN  /\ At(a, "stop_post")
        /\ logFile' = logFile \union {s}
        /\ \/ LeaveStop(a, AfterStop(s))
           \/ "task" \in Faults /\ Finish(a)
        /\ UNCHANGED <<record, proc, daemonUp>>

StopPrune(a) ==
    LET s == job[a].session
    IN  /\ At(a, "stop_prune")
        /\ \/ /\ s \in Recorded
              /\ logFile' = IF s \in logPath THEN logFile \ {s} ELSE logFile
              /\ \/ logPath' = logPath \ {s}
                 \/ NotSaved /\ UNCHANGED logPath         \* the file goes before the save
           \/ /\ s \notin Recorded \/ StateFails            \* SessionNotFound
              /\ UNCHANGED <<logFile, logPath>>
        /\ Finish(a)
        /\ UNCHANGED <<status, pid, proc, daemonUp>>

-----------------------------------------------------------------------------
(* api_restart_session_once under retry_session_control *)

BeginRestart(a, s, force) ==
    /\ "restart" \in Ops
    /\ s \in Recorded
    /\ Begin(a, "restart_load", s, force)
    /\ UNCHANGED <<record, logFile, proc, daemonUp>>

RestartLoad(a) ==
    LET s == job[a].session
    IN  /\ At(a, "restart_load")
        /\ \/ (s \notin Recorded \/ StateFails) /\ Finish(a)
           \/ s \in Recorded /\ GotoExpecting(a, pid[s], "restart_spawn", "restart_signal")
        /\ UNCHANGED <<record, logFile, proc, daemonUp>>

RestartSignal(a) == At(a, "restart_signal") /\ Signal(a, "restart_spawn")

RestartSpawn(a) ==
    /\ At(a, "restart_spawn")
    /\ SpawnWorker(a, "restart_update") \/ SpawnFails(a)

\* Mutant: the update does not compare the pid with the one it read.
RestartRecordsUnchecked(a) ==
    LET s == job[a].session
    IN  /\ s \in Recorded
        /\ Record(s, "running", job[a].spawned)
        /\ logPath' = logPath \union {s}

RestartRecords(a) ==
    LET s == job[a].session
    IN  /\ s \in Recorded /\ pid[s] = job[a].expected
        /\ Record(s, "running", job[a].spawned)
        /\ logPath' = logPath \union {s}

RestartSaved(a) == RestartRecords(a) /\ Finish(a)

\* On any error the worker just spawned is killed before the error returns.
RestartRefused(a) ==
    LET s == job[a].session
    IN  /\ \/ s \notin Recorded /\ Goto(a, "undo_error")
           \/ s \in Recorded /\ pid[s] # job[a].expected /\ Goto(a, "undo_conflict")
        /\ UNCHANGED record

\* A record that was renamed into place all the same keeps the pid of a killed worker.
RestartUnsaved(a) ==
    /\ StateFails
    /\ UNCHANGED record \/ RestartRecords(a)
    /\ Goto(a, "undo_error")

RestartUpdate(a) ==
    /\ At(a, "restart_update")
    /\ RestartSaved(a) \/ RestartRefused(a) \/ RestartUnsaved(a)
    /\ UNCHANGED <<logFile, proc, daemonUp>>

\* Mutant: the refused restart returns without killing its worker.
RestartUndoKeepsWorker(a) ==
    /\ \/ At(a, "undo_conflict") /\ RetryFrom(a, "restart_load")
       \/ At(a, "undo_error") /\ Finish(a)
    /\ UNCHANGED <<record, proc, logFile, daemonUp>>

\* stop_process_with_options(pid, true, 150ms) on the worker just spawned.
RestartUndo(a) ==
    /\ \/ At(a, "undo_conflict") /\ RetryFrom(a, "restart_load")
       \/ At(a, "undo_error") /\ Finish(a)
    /\ proc' = WithGone(job[a].spawned)
    /\ UNCHANGED <<record, logFile, daemonUp>>

-----------------------------------------------------------------------------
(* api_suspend_session, api_resume_session: one update each, which signals  *)
(* the recorded process group while it holds the lock.  A dead process      *)
(* answers ESRCH, which send_signal_group takes for success.                *)

SignalRecorded(s, from, to, st) ==
    /\ s \in Recorded
    /\ pid[s] # NoPid                                     \* else SessionMissingPid
    /\ proc' = [proc EXCEPT ![pid[s]] = IF @ = from THEN to ELSE @]
    /\ Record(s, st, pid[s]) \/ (NotSaved /\ UNCHANGED <<status, pid>>)
    /\ UNCHANGED <<logPath, logFile, job, daemonUp>>

Suspend(s) == "suspend" \in Ops /\ SignalRecorded(s, "running", "paused", "suspended")

Resume(s) == "suspend" \in Ops /\ SignalRecorded(s, "paused", "running", "running")

-----------------------------------------------------------------------------
(* reconcile_session on the sessions R, inside one update.  A managed        *)
(* session whose worker died is respawned there and then; any other session  *)
(* with a dead worker is settled as stopped.                                 *)

DeadRecords(R) == {s \in R \intersect Recorded : ~Alive(pid[s])}

\* Mutant: any dead managed session is respawned, a stopped one too.
RespawnsAnyStatus(R) == {s \in DeadRecords(R) : s \in Managed}

\* Mutant: only sessions of unknown status are respawned.
RespawnsUnknown(R) == {s \in DeadRecords(R) : s \in Managed /\ status[s] = "unknown"}

Respawns(R) == {s \in DeadRecords(R) : s \in Managed /\ status[s] \in {"running", "unknown"}}

StatusAfter(R) ==
    [s \in Sessions |-> IF s \in Respawns(R) THEN "running"
                        ELSE IF s \in DeadRecords(R) THEN "stopped" ELSE status[s]]

PidAfter(R, f) ==
    [s \in Sessions |-> IF s \in Respawns(R) THEN f[s]
                        ELSE IF s \in DeadRecords(R) THEN NoPid ELSE pid[s]]

\* The update is saved with every session of R reconciled.
ReconcileSaved(R) ==
    \E f \in Spawns(Respawns(R)) :
        /\ status' = StatusAfter(R)
        /\ pid' = PidAfter(R, f)
        /\ proc' = WithRunning(NewPids(f))
        /\ logFile' = logFile \union Respawns(R)
        /\ UNCHANGED <<logPath>>

\* The update ends in an error, or its process is killed, after some sessions
\* were respawned: nothing is saved, and their new workers are on their own.
ReconcileLost(S, touched) ==
    \E f \in Spawns(S) :
        /\ proc' = WithRunning(NewPids(f))
        /\ logFile' = logFile \union touched
        /\ UNCHANGED record

\* Sessions come in key order and the first that cannot be respawned ends the
\* loop; the failing one may already have opened its log for the prelaunch task.
ReconcileFails(R) ==
    \/ /\ "spawn" \in Faults \/ Spawns(Respawns(R)) = {}
       /\ \E s \in Respawns(R) : \E S \in SUBSET (Respawns(R) \ {s}) :
            ReconcileLost(S, S) \/ ReconcileLost(S, S \union {s})
    \/ "crash" \in Faults /\ \E S \in SUBSET Respawns(R) : S # {} /\ ReconcileLost(S, S)
    \/ StateFails /\ \E S \in {{}, Respawns(R)} : ReconcileLost(S, S)

\* api_get_session, api_inspect_session: status, attach, inspect, doctor, dap.
GetSession(s) ==
    /\ "get" \in Ops
    /\ s \in Recorded
    /\ ReconcileSaved({s}) \/ ReconcileFails({s})
    /\ UNCHANGED <<job, daemonUp>>

-----------------------------------------------------------------------------
(* handle_logs, and what start --tail adds to it: follow until the worker    *)
(* exits, then finalize_temporary_log_after_follow.                          *)

LogsFound(s) == s \in Recorded /\ s \in logPath /\ ReconcileSaved({s})

\* The log path is looked up after the reconcile, in the same update, and its
\* absence is an error: the worker respawned a moment ago is then not saved.
LogsFail(s) ==
    \/ s \notin Recorded /\ UNCHANGED <<record, logFile, proc>>
    \/ s \in Recorded /\ s \notin logPath /\ ReconcileLost(Respawns({s}), Respawns({s}))
    \/ s \in Recorded /\ ReconcileFails({s})

Logs(s) ==
    /\ "get" \in Ops
    /\ LogsFound(s) \/ LogsFail(s)
    /\ UNCHANGED <<job, daemonUp>>

FollowLogs(a) ==
    LET s == job[a].session
    IN  /\ At(a, "follow_logs")
        /\ \/ /\ LogsFound(s)
              /\ Become(a, [job[a] EXCEPT !.step = "follow_wait", !.expected = pid'[s]])
           \/ LogsFail(s) /\ Finish(a)
           \/ StateFails /\ LogsFound(s) /\ Finish(a)
        /\ UNCHANGED daemonUp

\* The loop ends when neither the recorded nor the first worker is alive.
FollowEnds(a) ==
    LET s == job[a].session
        p == IF s \in Recorded /\ pid[s] # NoPid THEN pid[s] ELSE job[a].expected
    IN  /\ At(a, "follow_wait")
        /\ ~Alive(p)
        /\ Goto(a, "follow_finalize")
        /\ UNCHANGED <<record, logFile, proc, daemonUp>>

FollowFinalize(a) ==
    LET s == job[a].session
        prunes == ShouldPruneLog(s) /\ StatusAfter({s})[s] = "stopped"
    IN  /\ At(a, "follow_finalize")
        /\ \/ s \notin Recorded /\ UNCHANGED <<record, logFile, proc>>
           \/ /\ s \in Recorded /\ ~prunes
              /\ ReconcileSaved({s})
           \/ /\ s \in Recorded /\ prunes
              /\ logFile' = IF s \in logPath THEN logFile \ {s} ELSE logFile
              /\ \/ /\ status' = StatusAfter({s})
                    /\ pid' = PidAfter({s}, <<>>)
                    /\ logPath' = logPath \ {s}
                 \/ NotSaved /\ UNCHANGED record
              /\ UNCHANGED proc
           \/ s \in Recorded /\ ReconcileFails({s})
        /\ Finish(a)
        /\ UNCHANGED daemonUp

-----------------------------------------------------------------------------
(* api_list_sessions and api_cleanup_sessions_with_options: a load picks the *)
(* records to reconcile, an update reconciles those that still exist.        *)

\* collect_reconcile_candidate_ids
ReconcileCandidates == {s \in Recorded : pid[s] # NoPid \/ status[s] # "stopped"}

BeginList(a) ==
    /\ "list" \in Ops
    /\ ReconcileCandidates # {}                    \* else the load is the answer
    /\ BeginScan(a, "list_update", ReconcileCandidates)
    /\ UNCHANGED <<record, logFile, proc, daemonUp>>

ListUpdate(a) ==
    /\ At(a, "list_update")
    /\ ReconcileSaved(job[a].ids) \/ ReconcileFails(job[a].ids)
    /\ Finish(a)
    /\ UNCHANGED daemonUp

BeginCleanup(a) ==
    /\ "cleanup" \in Ops
    /\ BeginScan(a, "cleanup_update", ReconcileCandidates)
    /\ UNCHANGED <<record, logFile, proc, daemonUp>>

\* Mutant: cleanup takes running sessions too.
CleanupStatusesRunning == {"stopped", "unknown", "running"}

\* resolve_cleanup_statuses and the HTTP payload know these two only.
CleanupStatuses == {"stopped", "unknown"}

\* The records removed are those with a chosen status and old enough; none in a
\* dry run.  Their log files go with them, whatever their retention.
CleanupSaved(R) ==
    \E f \in Spawns(Respawns(R)) :
    \E removed \in SUBSET {s \in Recorded : StatusAfter(R)[s] \in CleanupStatuses} :
        /\ status' = [s \in Sessions |-> IF s \in removed THEN "absent" ELSE StatusAfter(R)[s]]
        /\ pid' = [s \in Sessions |-> IF s \in removed THEN NoPid ELSE PidAfter(R, f)[s]]
        /\ proc' = WithRunning(NewPids(f))
        /\ logFile' = (logFile \union Respawns(R)) \ (removed \intersect logPath)
        /\ logPath' = logPath \ removed

\* The log files go before the save, and the records stay.
CleanupUnsaved(R) ==
    /\ NotSaved
    /\ \E f \in Spawns(Respawns(R)) :
       \E removed \in SUBSET {s \in Recorded : StatusAfter(R)[s] \in CleanupStatuses} :
            /\ proc' = WithRunning(NewPids(f))
            /\ logFile' = (logFile \union Respawns(R)) \ (removed \intersect logPath)
    /\ UNCHANGED record

CleanupUpdate(a) ==
    /\ At(a, "cleanup_update")
    /\ CleanupSaved(job[a].ids) \/ CleanupUnsaved(job[a].ids) \/ ReconcileFails(job[a].ids)
    /\ Finish(a)
    /\ UNCHANGED daemonUp

-----------------------------------------------------------------------------
(* handle_daemon: one pass over all records in one update; the loop ends     *)
(* with the first pass that fails.                                           *)

DaemonStart ==
    /\ "daemon" \in Ops
    /\ ~daemonUp
    /\ daemonUp' = TRUE
    /\ UNCHANGED <<record, logFile, proc, job>>

DaemonPass ==
    /\ daemonUp
    /\ \/ ReconcileSaved(Sessions) /\ UNCHANGED daemonUp
       \/ (ReconcileFails(Sessions) \/ (StateFails /\ ReconcileSaved(Sessions))) /\ daemonUp' = FALSE
    /\ UNCHANGED job

-----------------------------------------------------------------------------
(* The environment *)

\* A worker exits, by itself or of a signal it got earlier.
Exit(p) ==
    /\ proc[p] # "gone"
    /\ proc' = WithGone(p)
    /\ UNCHANGED <<record, logFile, job, daemonUp>>

\* A caller is killed; a worker it has spawned and not recorded lives on.
Crash(a) ==
    /\ "crash" \in Faults
    /\ job[a] # Idle
    /\ Finish(a)
    /\ UNCHANGED <<record, logFile, proc, daemonUp>>

-----------------------------------------------------------------------------
JobStep(a) ==
    \/ StartSpawn(a) \/ StartUpdate(a)
    \/ StopLoad(a) \/ StopSignal(a) \/ StopUpdate(a) \/ StopPost(a) \/ StopPrune(a)
    \/ RestartLoad(a) \/ RestartSignal(a) \/ RestartSpawn(a)
    \/ RestartUpdate(a) \/ RestartUndo(a)
    \/ FollowLogs(a) \/ FollowEnds(a) \/ FollowFinalize(a)
    \/ ListUpdate(a) \/ CleanupUpdate(a)

Call(a) ==
    \/ \E s \in Sessions : BeginStart(a, s)
    \/ \E s \in Sessions, force \in BOOLEAN : BeginStop(a, s, force) \/ BeginRestart(a, s, force)
    \/ BeginList(a) \/ BeginCleanup(a)

Next ==
    \/ \E a \in Actors : Call(a) \/ JobStep(a) \/ Crash(a)
    \/ \E s \in Sessions : Suspend(s) \/ Resume(s) \/ GetSession(s) \/ Logs(s)
    \/ DaemonStart \/ DaemonPass
    \/ \E p \in Pids : Exit(p)

Spec == Init /\ [][Next]_vars

\* A caller keeps executing; the daemon, while up, keeps making passes.  A
\* worker owes nothing: a caller's signal does not make it exit.
FairSpec == Spec /\ WF_vars(DaemonPass) /\ \A a \in Actors : WF_vars(JobStep(a))

-----------------------------------------------------------------------------
(* Properties *)

Statuses == {"absent", "running", "stopped", "suspended", "unknown"}

Jobs == [step : Steps, session : Sessions \union {NoSession}, force : BOOLEAN,
         attempt : 0..MaxRetries, expected : Pids \union {NoPid},
         spawned : Pids \union {NoPid}, ids : SUBSET Sessions]

\* Every variable keeps its type; a job's attempt never exceeds the retry budget.
TypeOK ==
    /\ status \in [Sessions -> Statuses]
    /\ pid \in [Sessions -> Pids \union {NoPid}]
    /\ logPath \subseteq Sessions
    /\ logFile \subseteq Sessions
    /\ proc \in [Pids -> {"gone", "running", "paused"}]
    /\ job \in [Actors -> Jobs]
    /\ daemonUp \in BOOLEAN

\* A worker is held while a record names it or the operation that spawned it has yet to
\* record or to kill it.  A live one that nobody holds runs on, and no command finds it.
Held(p) == (\E s \in Sessions : pid[s] = p) \/ (\E a \in Actors : job[a].spawned = p)

\* The losses the code has: a worker respawned in an update that then fails, and one
\* whose start ends in an error, or whose caller is killed, before it is recorded.
LostInReconcile(p) == proc[p] = "gone" /\ UNCHANGED record

LostByCaller(p) ==
    \E a \in Actors : /\ job[a].spawned = p /\ job'[a] = Idle
                      /\ \/ At(a, "start_update") /\ StateFails
                         \/ "crash" \in Faults

\* Workers are lost in these ways and in no other: a restart whose update is refused or
\* fails, a stop, a cleanup and an update that is saved leave every live worker held.
LosesNoOther ==
    \A p \in Pids : (proc'[p] # "gone" /\ ~Held(p)') =>
        (proc[p] # "gone" /\ ~Held(p)) \/ LostInReconcile(p) \/ LostByCaller(p)

NoLostWorker == [][LosesNoOther]_vars

\* No step makes a record drop the pid of a worker that stays alive: a stop, a
\* restart, a reconcile or a cleanup that lost a race leaves the record alone.
KeepsLiveWorker ==
    \A s \in Sessions :
        (Alive(pid[s]) /\ proc'[pid[s]] # "gone") => pid'[s] = pid[s]

LiveWorkerNeverForgotten == [][KeepsLiveWorker]_vars

\* The poststop task runs once for a stopped worker: two stops of one session
\* that race never both run it for the same pid.
PostStopOnce ==
    \A a, b \in Actors :
        (At(a, "stop_post") /\ At(b, "stop_post") /\ job[a].expected = job[b].expected) => a = b

\* A stopped session stays stopped until somebody restarts it: no daemon pass,
\* list or status call brings it back, whatever they had read before the stop.
StoppedStaysStopped ==
    [][\A s \in Sessions : (status[s] = "stopped" /\ status'[s] = "running") =>
            \E a \in Actors : At(a, "restart_update") /\ job[a].session = s]_vars

\* "Use --log-retention persistent when logs must survive stop" (README.md): the log file
\* of such a session goes only with a cleanup, which takes none of a live worker.
PersistentLogSurvives ==
    [][\A s \in Sessions \ Temporary : (s \in logFile /\ s \notin logFile') =>
            ~Alive(pid[s]) /\ \E a \in Actors : At(a, "cleanup_update") /\ job'[a] = Idle]_vars

\* A managed session whose worker died comes back, unless the daemon is down or a
\* stop of that session gets in.
NeedsRespawn(s) == s \in Managed /\ status[s] = "running" /\ ~Alive(pid[s])

BeingStopped(s) == \E a \in Actors : job[a].session = s /\ At(a, "stop_update")

ManagedComesBack ==
    \A s \in Sessions : NeedsRespawn(s) ~> (Alive(pid[s]) \/ ~daemonUp \/ BeingStopped(s))

\* Every stop, restart, list or cleanup answers: the retries on a concurrent
\* change end, even when the daemon respawns the worker under every attempt.
Answers ==
    \A a \in Actors :
        (~At(a, "idle") /\ ~At(a, "follow_wait")) ~> (At(a, "idle") \/ At(a, "follow_wait"))

\* Concurrent stops of one session never conflict (the HTTP concurrency test
\* expects 200 from each): where nothing respawns the worker, neither a restart nor
\* the daemon, no stop needs a second attempt, whatever cleanup and list do.
StopsNeverConflict ==
    "restart" \notin Ops =>
        \A a \in Actors : job[a].session \notin Managed => job[a].attempt <= 1

\* Session logs "are removed after stop" (operational reference), not before: a
\* session that is recorded running keeps its log path and its log file.
RunningKeepsLog ==
    \A s \in Sessions : status[s] = "running" => s \in logPath /\ s \in logFile

\* "Enable managed restart on unexpected exit" (--managed): a managed session whose
\* worker exited gets a new worker, unless a stop came first.
ManagedExitIsRestarted ==
    [][\A s \in Managed : (NeedsRespawn(s) /\ ~NeedsRespawn(s)') =>
            \/ status'[s] = "running"
            \/ BeingStopped(s)]_vars
=============================================================================
