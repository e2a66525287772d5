# launch-code in TLA+

launch-code (`lcode`) starts, stops, restarts, suspends and debugs the processes
of development projects. It has no server that owns its state: every command, every
HTTP worker and the daemon reads and rewrites one JSON file per workspace,
`.launch-code/state.json`, under a file lock, and signals the workers by pid. What
is hard about it is what happens between two of those rewrites. This directory
models that part of the program, checks it with TLC on small instances and proves
the main safety properties with TLAPS for every instance.

## The system

| Component (source) | State | Operations | What must hold |
| --- | --- | --- | --- |
| State store (`state.rs`, `model.rs`) | `state.json`, `state.lock`, `state.json.tmp` | `load`, `update`, `save` | an update is atomic, also across a crash; no update is lost |
| Session control (`app/session_api.rs`) | the session records | stop, restart, suspend, resume, get, inspect, list, cleanup | a restart, a stop or a cleanup loses no live worker and forgets none, a stopped session stays stopped, the poststop task runs once |
| Start, daemon, reconcile (`app.rs`) | the same records, log files | `handle_start_spec`, `handle_daemon`, `reconcile_session`, log retention | a managed session comes back, nothing else does |
| Worker processes (`process.rs`) | the kernel's process table | spawn, signal, wait, liveness | a stop returns with the worker dead or says it is not |
| Logs (`app/log_ops.rs`) | log files | tail, follow | a follow ends with its worker; a running session has a log |
| List cache, scan index (`app/session_cli/list_cache.rs`, `global_scan_index.rs`) | cache file, index file | list, list across links | a list from the cache is a list of the file |
| Batch control (`app/session_cli/batch*.rs`) | counters of one command | stop/restart/suspend/resume of many sessions, across links, in parallel | fail-fast stops at the first failure; every selected session is answered once |
| DAP connections (`dap/tcp_proxy.rs`, `python_adapter_proxy.rs`) | waiters, event queue of one connection | request, batch, events | an answer reaches the request it belongs to, and no other |
| DAP registry (`dap.rs`, `dap/subprocess.rs`, `debug.rs`) | a proxy per session, who is bootstrapped | find a proxy, retry, bootstrap, adopt a subprocess | a call whose adapter behaves succeeds, once, on the right adapter |
| HTTP server (`app/serve_ops.rs`, `http_api.rs`, routes) | bounded queue of requests, metrics | accept, work, overload answer | every request gets one answer; a route does what the command of the same name does |
| Link registry, session lookup (`link_registry.rs`, `session_lookup.rs`) | two JSON files in the home directory | link, prune, list and clean up everywhere, resolve | a link that is in use is not pruned; a lookup finds the session's workspace and no other |
| Project information (`app/project_*.rs`) | a record in each state file | set, unset, in one or all links | the last write to a field stands |
| Profiles, launch.json, env files (`config.rs`, `envfile.rs`, `app/config_ops.rs`, `spec_ops.rs`) | saved profiles, the specification in a session | save, import, validate, run, launch, start | the last layer that mentions a variable wins, for good |
| Command line (`main.rs`, `cli/*`, `app/dap_cli*`), errors | none | check, default, dispatch, exit code | as the server, request by request |
| Interactive list (`app/session_cli.rs`, `view.rs`) | rows, cursor | draw, keys, refresh, act | a key acts on the row that is marked |
| Build, doctor, output | none | run, probe, print | |

How they interact: the CLI commands and the HTTP routes call session control; session
control and the daemon meet in the state store and in the process table, and nowhere
else. Logs, inspect, status, doctor and the DAP routes reach the records through
`api_get_session`, which reconciles: reading a session may respawn its worker. The
list cache and the scan index sit between `list` and the state store. Batch control
calls session control once per session. The DAP proxies are shared between the HTTP
workers of one server process.

What is hard: two operations between whose load and update a third one comes; a
process killed between a spawn and the record of it; a pass over several sessions
that fails half-way; retries that race the daemon, a reconnect that races another;
caches, links and indexes that were right when they were read.

## Modules

| Module | Models | State of work |
| --- | --- | --- |
| `SessionControl` | session control, start, daemon, reconcile, logs and the workers | modelled, checked |
| `SessionControlProofs` | the theorems about it | proved |
| `StateStore` | load, update and save of `state.json`: lock, temporary file, rename, sync | modelled, checked |
| `AtomicStore` | what that store promises | implemented by `StateStore` |
| `StateStoreProofs` | its theorems, the refinement among them | proved |
| `ListCache` | the list cache and the scan index of global listings | modelled, checked |
| `ListCacheProofs` | its theorems | proved |
| `BatchControl` | one batch command over the linked workspaces | modelled, checked |
| `BatchControlProofs` | its theorems | proved |
| `DapChannel` | one connection to a debug adapter: requests, batches, events, its end | modelled, checked |
| `DapChannelProofs` | its theorems | proved |
| `HttpServer` | the acceptor, the bounded queue, the workers and their metrics | modelled, checked; implemented by `DebugServer` |
| `DapRegistry` | the proxies of all sessions: lookup, connect, retry, bootstrap, adoption; the adapters | modelled |
| `DebugServer` | both: the workers of the server are the callers of the registry | checked |
| `DebugServerProofs` | the theorems about `HttpServer`, that `DebugServer` takes its steps, and what follows | proved |
| `Workspaces` | link registry, session index, and the commands that look beyond their workspace | modelled, checked |
| `WorkspacesProofs` | its theorems | proved |
| `FrontEnds` | the routes of the server and the commands of the command line, side by side | modelled, checked |
| `Projects` | project information in one workspace or all | modelled, checked |
| `Profiles` | profiles, environment files, launch.json, start options: the environment of a worker | modelled, checked |
| `Browser` | the interactive list | modelled, checked |
| `CommandLine` | those four, which share no state, as one specification | checked |
| `CommandLineProofs` | its theorems | proved |
| `Maps` | one function put over another | |
| `MCSessionControl`, `MCStateStore`, `MCListCache`, `MCBatchControl`, `MCDapChannel`, `MCDebugServer`, `MCWorkspaces`, `MCCommandLine` | the instances for TLC | |

`AtomicStore` is the contract between the modules: `SessionControl` and `ListCache` take one
load or update of the state file as one step, and `StateStore` implements it step by step.
`BatchControl` takes one operation of `SessionControl` as an action that begins and then
succeeds or fails; `Answers` in `SessionControl` says that it ends. `DapRegistry` takes a request
on a connection of `DapChannel` as one step with its outcome: an answer, a timeout, or the end of
the connection. `HttpServer` is both a part of `DebugServer` and its specification: it promises that
a request that was taken is answered, which depends on calls of the registry coming to an end.
`Workspaces` takes an update of a registry, an index or a state file as one step, for the reason
`AtomicStore` gives: `link_registry.rs` and `session_lookup.rs` lock and rename as `state.rs` does. They
do not sync, so that a power failure may lose what they have written; it is not modelled there.

### SessionControl

`status`, `pid` and `logPath` are the session records (`SessionRecord` in `model.rs`:
status, pid, whether `log_path` is set); `logFile` is the set of log files on disk,
`proc` the process table. A load or an update of the state file holds the file lock from
its read to its rename, so it is one step. What an operation does between two of them is a step
of its own: `job[a]` says which operation caller `a` is in, at which step, which pid it
read (`expected`) and which worker it spawned and has not yet recorded (`spawned`).
So a stop is `StopLoad`, `StopSignal`, `StopUpdate`, then `StopPost` (the poststop task)
and `StopPrune` (the third update, which removes a temporary log); a restart is
`RestartLoad`, `RestartSignal`, `RestartSpawn`, `RestartUpdate` and, when the update is
refused or fails, `RestartUndo`, which kills the worker just spawned. A background start is `StartSpawn`
and `StartUpdate`, and undoes nothing. `Suspend`, `Resume`, `GetSession`, `Logs` and `DaemonPass` are one
update each. `ListUpdate` and `CleanupUpdate` reconcile the records an earlier load chose.

Every load and update of the state file may fail (`StateFails`: the lock, a file that cannot be read or is of a
newer schema, the save). The load or update then has no effect, but what was done inside or before it stays:
the worker of a start (`StartUnsaved`), a signal sent (`SignalRecorded`), a log file removed (`StopPrune`,
`CleanupUnsaved`), workers respawned (`ReconcileLost`). Where the new file is renamed into place and only
the sync of its directory fails, the update takes effect and its caller gets the error all the same
(`StopUnsaved`, `RestartUnsaved`; for the others that is the outcome of a saved update, or the end of the daemon).

Reconciling is not abstracted: `ReconcileSaved(R)` respawns or settles every session
of `R` and saves; `ReconcileFails(R)` is a pass that respawns some sessions, meets one it
cannot respawn, or fails to save, and drops the update (`ReconcileLost`).

In `SessionControl` the environment may let any worker exit at any time (`Exit`), kill any caller (`Crash`),
let any spawn fail, let a poststop task fail and let any operation on the state file fail. No variable
remembers the workers that are lost: `NoLostWorker` says of each step which live workers nobody holds any more
(`Held`), and by which of the losses that the code has (`LostInReconcile`, `LostByCaller`).

### StateStore

`file` is `state.json` as everybody sees it, `tmp` the temporary file, `onDisk` what
`state.json` may be after a power failure, `shared` and `exclusive` the holders of the
lock. A state is the set of updates that made it and the schema version that wrote it, so
"no update lost" is a statement about sets. `update` is `BeginUpdate`, `LockExclusive`,
`UpdateLoad`, `SaveCreate`, `SaveWrite`, `SaveSync`, `SaveRename`, `SaveSyncDir`,
`UpdateUnlock`; each file operation may fail, a caller may be killed at each of them
(`Crash`; the kernel releases its lock) and the machine may lose power (`PowerLoss`). A
rename is on the disk for certain only when the directory is synced, and the renamed
contents only if they were. The callers may be programs of different schema versions
(`Supported`).

### ListCache

`file[l]` is the state file of workspace `l` with its signature (length and modification
time; here the number of the save), `cache[l]` its `list-cache.json`, `index` the global
scan index. A listing is `ReadSignature`, `ReadCache`, `Load`, `Reconcile`, `Refresh` (the
second look at the signature), `TruncateCache`, `WriteCache`, `Answer`; a global listing
wraps it in `BeginScan`, `SkipLink` or `ScanLink` per link, `TruncateIndex` and
`PersistIndex`. `fs::write` is two steps, because it truncates first. Two variables are not in
the code: `held`, what the file was since a listing began, and `raced`, the links whose last
save fell between a listing's load and its second look at the signature.

### BatchControl

`plan` is the command's options, `links[l]` the progress of one workspace: how many
sessions were selected, which are in hand and which have a row. Threads are not
variables: the code deals items to `jobs` threads in turn (`index % workers`), so item `i`
may begin when the items before it in the same thread are finished (`SameThread`). With one
job that is the sequential loop, which may break off (`ActionFails`), and `CloseLink` then
computes `stopped_early` as the code does, from the rows that are missing. Sorting is left
out: a session is its place in the sorted list.

### DapChannel

The threads of the HTTP server share one `TcpDapProxy` (or `StdioAdapterDapProxy`, whose code
is the same but for the child it kills at the end) per session. `waiters`, `closed`,
`queue` and `nextSeq` are its fields; `answers` is what lies in the mpsc channels of pending
requests and `delivering` the response whose sending end the reader has taken out of
`waiters` and not yet used. `call[c]` is the call a thread is in: the requests it has still to
send (`todo`), those whose receiver it holds (`pending`), the one it writes or waits for
(`current`). A request is `Register`, `Write` and then, for a batch, `CheckDeadline` and the wait
for each in the order they were sent: `Receive`, `ReceiveDisconnected` or `ReceiveTimeout` and
`RemoveWaiter`. The numbering and the insertion of the waiter are one step: a number nobody
else has seen can be the reason for nothing. A poll is `PopEvents`, or `PopEventsWait` and
`PopEventsWake`. The reader thread is `ReadResponse` and `Deliver`, `ReadEvent`, `ReadRequest`
and `Close`. The adapter answers requests in any order or not at all, and may end at any
time. `arrived`, `handed` and `orphans` are not in the code: the events so far, those the polls
answered, and the requests registered after the close, which only time out.

### HttpServer, DapRegistry and DebugServer

`Accept` is `try_send`: with a place in the channel, or a worker that waits when it has none. The
mutex around the receiver is `receiver`, the worker that holds it; the guard goes with the block,
so a request is handled without it. `CountRefused` and `Handled` are where the metrics count: a
refusal after its answer is sent, an answer before.

An adapter process is an entry of `lives`; `adapter[p]` says which one listens on port `p`,
`endpoint[s]` the port in the record of session `s`. An open connection is the port, the
process and how often that process had hung up when it was made, so that `Up` is a
comparison. `call[c]` is where a thread is in `send_request_with_retry`: `level` which of its
attempts, `boot` whether a bootstrap is under way (`eager` before a request, `late` after an error
or a response, `child` for an adoption), `try` which of the two tries of
`send_request_transport_with_retry`. The record is read (`Lookup`), the connection
made (`Connect`) and put into the registry (`Insert`) in steps of their own, because the code does
not hold the registry's lock in between. `AfterAnswer` and `AfterError` are the rules for what
comes next. Adapters exit, hang up, listen again, on a port of their own or, when that is taken, on
another (`ResolvesPort`, then `Listens`: the code binds a port, drops it and hands the number to the
worker), and lose their port to another program (`Occupied`).

A bootstrap may be refused (`SendRefused`). `validate_bootstrap_responses` makes that the end of the
call, with the message of the adapter, but for an attach to what is "already being debugged", which
counts as answered. The batch of an adoption, and one that a client sends, is not validated, so a
refusal there is `ok` (`AfterRefusal`). An adapter that has been bootstrapped may refuse by right, and is
asked again whenever the mark in `bootstrapped` is missing: two threads that begin with an unmarked
session both bootstrap it, and each proxy of a Go session that is dropped takes the mark along. One that has
not been bootstrapped and refuses is trouble, and a fault of the call.

`fault` and `ran` are not in the code: whether the adapter was absent, died, hung up or was late
since the call began, and how often one has carried out the request. A thread that is about to register a
connection that was closed since it was made counts as a fault of the calls that begin then, and of the
child of an adoption that is registered then (`StaleInsert`): two such threads can cost a call both of its
tries. It takes three threads; the run has two, and the proof, which is for any number, needs it. `again` is
not in the code either: the calls that may bootstrap an adapter once more, because it had been when
they began and was not marked, or because another call has bootstrapped it or dropped the mark since.

### Workspaces

A command is a process: it links its workspace (`EnsureLink`), prunes, and then starts a
session, searches for one or visits all workspaces. `control` is any command that names a session:
`ActLocally`, then the index (`LookUp`, `CheckCached`, `Forget`), then the links in their order
(`Scan`), then the command again in the workspace that was found (`ActThere`). Workspaces are renamed
and deleted under them. Which names `ensure_link_for_workspace` picks is abstracted to a set
`OwnNames` per path, of which one is free. `homes` and `raced`, `unlinked` and `lost` are
not in the code: they remember what a command might rely on since it began.

### FrontEnds

A request gives each field a value, of which only the class matters: `good`, `absent`, `blank`,
`zero`, `wrong`, ... A kind of field says which classes can be written, which are refused and with
which status or exit code, and what is put in place of some: once for JSON bodies (`BodyKinds`), once
for queries (`QueryKinds`) and once for clap and the handlers behind it (`OptionKinds`). The
tables of routes and options are the code's, field by field with their defaults. Both front ends
then make the same calls, which return the same (`Ask`), and turn that into a status or an exit code.
What an argument of a request to an adapter looks like beyond its fields, such as the conditions of
breakpoints, is left out.

### Projects, Profiles, Browser

`Projects`: `info[w]` is the record in the state of workspace `w`; a write with `--all-links` is one
step per workspace. The three text fields are one, and so are the four lists. `stands` is not in the
code: what the last write to each field has asked for.

`Profiles`: a specification is what a `LaunchSpec` is, with the environment it sets (`env`) and removes
(`removes`) and the files to be read at the start (`files`). `RunSpec`, `LaunchSpec` and `StartSpec`
put it together as `handle_config_run`, `load_launch_spec` and `build_launch_spec` do; `Valid` is
`validate_profile_spec`, `Starts` what is checked before a worker is spawned. A session keeps its
specification, and `Restart` uses it again. `LastWord` is the reference definition: the layers in their
order, the last that mentions a key wins.

`Browser`: `Draw` computes the window of rows around the cursor as `render_interactive_frame` does; a
key moves the cursor or acts on the row at its position; then rows are collected again.

## Runs

| Run | Instance | Shows |
| --- | --- | --- |
| `control` | 1 managed session, 2 callers, reconciling calls, cleanup, 4 pids, all faults | the proofs' invariant; workers are lost in the ways named and in no other; no live worker forgotten, poststop once, stopped stays stopped |
| `housekeeping` | 2 sessions, one managed, 2 callers, daemon; list, cleanup, logs, tail; spawns and saves fail | persistent logs survive all but a cleanup of a dead session; concurrent stops do not conflict |
| `liveness` | 1 session, 2 callers, daemon, 3 pids, fair | every operation answers, a managed session comes back |
| `store` | 2 callers of two schema versions, 3 updates, all faults | the invariant (nothing torn among it), nothing acknowledged is lost, no newer state is replaced, implements `AtomicStore` |
| `list` | 1 plain and 1 global listing, 1 workspace, 1 session, 3 saves | only a race poisons cache or index; no phantom workers |
| `batch` | 3 workspaces of up to 3 sessions, every plan with 1 or 2 jobs | honest answers; policy and jobs hold within a workspace |
| `dap_channel` | 2 callers, batches of up to 2, a queue of 2, 3 events | answers reach their own requests, the close ends every wait, no event comes twice or out of order |
| `server` | 2 workers, a queue of 1, 2 requests out of 6 calls on a session and its child, 2 ports, 3 adapter processes, 1 trouble | every request once, a steady call succeeds, once, on its own adapter, unless that refuses a second bootstrap; a failed adoption leaves no child |
| `server_drains` | 2 workers, no queue, 2 requests, 2 adapter processes, fair | implements `HttpServer` with its fairness: every call ends |
| `workspaces` | 2 processes, 3 commands, 3 workspaces (one temporary, two of one name), 2 sessions, 2 renames or deletes | a session is found from everywhere, and no other; a prune takes no link in use |
| `link_prune` | 1 process, 4 commands, 1 delete | **violation**: a link to a deleted workspace that no prune takes |
| `command_line` | each of four modules on its own: all requests with up to 2 unusual fields; 2 writers, 2 workspaces, 2 requests; 2 files, 1 key, 2 changes; 3 sessions, 3 keys or changes | the front ends agree; writes stand; the last layer wins and what validate approves runs; a key acts on the marked row |

`CommandLine` puts four modules that share no state into one specification: `part` says which of them
a behaviour is of, and each invariant names the part it is about.

What the violation shows: every load creates the directory of the store, also below a path that is
gone. After a workspace was deleted, the next global list (or cleanup, or search) makes an empty
directory of it, and `collect_link_prune_candidates` looks for the path only.

Other places where the code does less than its texts say, met while modelling; the properties are
in the modules, no run checks them, and TLC refutes each when it is named in the cfg of the run in
brackets:

* `RunningKeepsLog` (`control`): a stop prunes the temporary log in an update of its own
  (`session_api.rs`, `session.log_path = None`) without a look at the status, and a restart in between
  loses the log of its running session.
* `ManagedExitIsRestarted` (`control`): `--managed` promises a "managed restart on unexpected exit"; a
  suspend of a worker that has already exited records the session as suspended, and reconcile then
  settles it as stopped.
* `AnswerHeld` (`list`): the signature of the list cache is read after the list, so a save in between
  is paired with the older sessions, and later lists answer them until the next save
  (`OnlyRacesPoison` says that nothing else does). By the same race the scan index can skip a
  workspace that has a running session; `StoppedNeverSkipped` says which scans are safe from it.
* `NothingAfterBudget` (`batch`): a fail-fast batch goes on with the next workspace when the failure was
  at the last selected session of one, because `stopped_early` counts rows.
* `AtMostJobs` (`batch`): `--jobs` threads for the workspaces each start as many for the sessions.

`FrontEndsAgree` leaves out what `Differences` lists, which the code does on each side on purpose or
not: the server takes any word for the context of an evaluation and any number of events for an
adoption; it refuses a tail of more than 5000 lines and blank arguments, which the command line caps
and takes for none; the command line does not cap the grace timeout and takes a blank id of a
child as it is. Two errors of a call are the fault of the user on one side only (`BlamedDifferently`):
a process that does not stop in time is 409 and exit code 1, and an id that more than one session
begins with is exit code 3 and, since `http_status_for_error` has no arm for it, 500. The clause
about whose fault an error is does not speak of what the front ends refuse themselves: a field
that is refused is 400 and exit code 2, or 5 or 1 where a handler of the command line refuses
it, and a process without a thread to act on is 409 and exit code 5. They agree there on
whether the request succeeds, which is the other clauses.

Smaller ones, without a property: a configuration in `.launch-code/launch.json` resolves its
paths relative to `.launch-code`; a worker that moved to a free debug port asks for that one when it is
restarted, not for the one it was configured with; `config export` writes in place.

Bounds. `MaxRetries` is the code's own 3. `Pids` bounds the workers alive at once; when
all are taken a spawn fails, which the code may do anyway. Two callers and a call that reconciles
are enough for every pair of operations and the reconcile between their steps; on the one session of
`control` a pass of the daemon is that call. Two sessions let a multi-session update
fail after it respawned one of them. The operations are split over the runs (`Ops`) so
that each run takes a minute or two; the union fires every action. Two callers are enough
for the store, whose lock lets one of them do anything at a time; three updates let one
be lost between two others. Three saves are enough for the list cache: one before a listing,
one that races it, one that heals. Two workspaces and two sessions are the least on which
batch policies differ between and within workspaces; the third of each lets a thread have
two items. Two callers of a connection are one whose response another could get; a batch of two
is one that fails with a request pending; three events overflow a queue of two.
Two requests and two workers are the least that get into each other's way at a
registry; three adapter processes are the first, one that takes its place or its port, and the
child; one trouble at a time is what a retry is for. `server_drains` has fewer processes and
calls, because TLC checks it with fairness. Three workspaces are the one a command is in, one that it looks
for and one of the same name; the thresholds of the automatic prune (`MinLinks` and so on) are
smaller than the code's 256 and 64 so that three links reach them. `MaxUnusual` lets two
fields be out of order at a time, which shows which is refused first. Two environment files and one
variable are enough for an order of layers. `MaxSeq` stops new requests, never one that has begun (`Room`). `KillsAdapter` is FALSE in the
run: the adapter may end at any time anyway, right after the close too.

Fairness. `FairSpec` says that a caller in an operation keeps executing and that a running
daemon keeps making passes. Nothing else is fair: a worker need not exit, nobody need
call anything. A stop's wait is bounded by its grace period, so `StopSignal` is always
enabled. `BatchControl` is fair as a whole: threads run, and the operations they call end. In
`HttpServer` a worker keeps working and what handles a request ends; in `DebugServer` it is only that
threads run (`WF` of `Serve`), and the run shows that the handling ends by itself: an adapter need do
nothing, because a request on it times out. Nothing
is fair in the store, the list cache, the connection, the workspaces and the command line, whose
properties are safety properties.

## What is proved

`SessionControlProofs` proves for every set of sessions, callers and pids, every choice
of managed and temporary sessions and every set of faults:

* `TypeCorrect`: `TypeOK`, and `SafetyInvariant`: `SafetyInv`, in particular that no caller exceeds the retry budget;
* `NoWorkerLost`: `NoLostWorker`: a live worker goes out of everybody's hands in a reconcile that is not
  saved, in a start whose update fails or whose caller is killed, in a restart whose caller is killed, and
  in no other step;
* `LiveWorkersKept`: `LiveWorkerNeverForgotten`;
* `StoppedKept`: `StoppedStaysStopped`;
* `PersistentLogsKept`: `PersistentLogSurvives`;
* `PostStopsOnce`: `PostStopOnce`;
* `StopsAgree`: `StopsNeverConflict`.

The only assumption is `ConstantsAssumption`. None of these is inductive by itself. The
argument is that a compare-and-set on a pid protects a live worker, because *whoever
compares has seen the worker he compares with die*. `SafetyInv` says so: past its signal, a
caller's `expected` pid is gone and stays gone (`ExpectedGone`, with `GoneStaysGone`: a
spawn takes a pid nobody refers to); a spawned pid is held until it is recorded or killed
(`SpawnedHeld`); only running and suspended records have a pid (`RecordPids`); a
start has its new session to itself (`StartsNew`). From that, `LivePidStays`: an action
that changes a record's pid finds its worker dead. `SoundUpdate` says once, for all the
updates that reconcile, what they may do to the records; each of them is shown to be
sound, also when it is not saved, and the actions then fall into three classes (`Reconciling`, `Reading`, `Updating`).
`NoWorkerLost` needs no history: `LivePidStays` says that a record lets go of no live worker, `SpawnedHeld`
who else can, and `OthersKept` is what is left to show of each action. The last three add an invariant each. A caller that will prune a log is stopping a temporary session
(`PrunesTemporary`). A pid belongs to one record, or to the one operation that spawned it
(`PidsApart`), or to both while a restart kills the worker that its failed save has recorded; whoever runs a poststop task took its worker's pid out of the record, and nobody gets
that pid while he remembers it (`PostStopAlone`), so no two remember the same. Where nobody restarts, a
stop of a session that is not managed finds the pid it loaded or none (`Undisturbed`): a start has a new
session to itself, and a reconcile respawns managed sessions only.

`StateStoreProofs` proves, for every set of callers, updates and schema versions,
`StoreInvariant`, `NeverTornAlways`, `AckedSurvivesAlways`, `NewerStateKeptAlways` and
`Refinement`: `Spec => Atomic!Spec`. The invariant says that an updater between lock and
unlock is alone, that the document it carries is the file with its own update on top,
that the temporary file is that document once written and synced once synced. So the
rename is `Apply`, the unlock after success `Acknowledge`, a power failure `Undo` of the
update that was renamed and not yet synced, and every other step a stutter.

`ListCacheProofs` proves, for every number of listings, workspaces and sessions,
`ListInvariant`, `OnlyRacesPoisonAlways`, `NoPhantomsAlways`, `StoppedNeverSkippedAlways` and `FreshAnswerAlways`. The
invariant says that what a listing carries, the cache holds or an index (on disk or in a scan) has
is older than the file, or right, or concerns a raced link. The last needs one more (`SkipInv`):
the cache holds nothing but lists with sessions that are all stopped, so an entry that is believed has
the statuses of the file, or names the stopped ones, and the scan goes on to look. `FreshAnswer` is not a
property of a run: a listing whose last signature is still that of the file, and that was not raced,
answers what is in the file. Its invariant (`FreshInv`) says so of every list in hand: a save gives the
file a signature that nobody has read, so a list that is behind has one that no longer matches, and the second
look, which takes the new one, can mislead only across a race.

`BatchControlProofs` proves, for every number of workspaces, sessions and jobs,
`BatchInvariant`, `HonestAnswerAlways`, `JobsPerLinkAlways` and `BudgetPerLinkAlways`. The
bound on jobs is a counting argument: a thread has finished what comes before the session
it is at, so the sessions in hand map one to one to threads.

`DapChannelProofs` proves, for every number of callers, requests and events,
`ChannelInvariant`, `OwnAnswerAlways`, `AnswerNotLostAlways`, `ClosedAnswersAllAlways`,
`OnlyFailedBatchLeavesAlways` and `EventsInOrderAlways`. The invariant says that a sequence number is used once
(`Fresh`, `Apart`), that the response to it is in one place at a time, with the adapter, in the
reader's hand or in the channel (`Once`, `Own`), and that a caller that waits on an open
connection has one of waiter, delivery and response (`Waiting`). So a response cannot meet
somebody else's waiter, and a waiter that is missing means a response that is there. For the events
(`OrderInv`), what polls have answered is older than what is queued, and that than what will come.

`DebugServerProofs` proves of `HttpServer`, for every number of workers and requests and every capacity,
`HttpInvariant`, and from it `RequestsOnce`, `MetricsAlwaysAddUp` and `DrainedAlways`. The
invariant adds to the properties that a worker has a request exactly while it handles or answers it
(`Holds`), that the one that waits has none (`Waits`), that workers leave an empty, closed channel
(`LeaveLast`) and that a refusal is counted after it was sent (`RefusedLast`). The metrics are a
counting argument: a step adds one to the count and one to one of two sets, or moves one
element from the one to the other.

It then proves that `DebugServer` takes the steps of `HttpServer` and no
others (`ServerTakesHttpSteps`: what `HttpSpec` says but for fairness), which carries those three
over (`ServerStaysSound`), and `RequestsReachTheirSession`, `RequestsRunOnce`,
`FailedAdoptionsCleanUp` and `SteadyCallsSucceed`, for every number of threads, sessions, ports, adapters and troubles. The
invariant says that no adapter listens on two ports (`World`); that only a request bootstraps and only
an adoption has a child to take back (`Shape`); and that a call without a fault has its adapter
where its record says and is on its way to that port (`Steady`). What a step makes of a call is stated
once (`Follows`: it has ended, or goes on with neither port nor connection) and shown of each of the
operators that `AfterError`, `AfterAnswer` and `FailedSend` are built from; what a step does to the
others is stated once, too (`KeepsAlive`: whoever reaches an adapter still does; `KeepsOthersAlive`:
whoever does not has a fault).

`SteadyCallsSucceed` needs more of the invariant (`Healthy`): as long as a call has no fault, every
connection to its adapter that is about to be registered is open (`Guarded`), the proxy it would find at its
second try is open, its last attempt is made on an adapter that has been bootstrapped, and it has come to
none of the places that only an error leads to (`Fine`). Other threads and other adapters leave that
as it is (`Undisturbed`), since the only connections that may replace the proxy are guarded ones. That such a call is
refused only where `again` says so is a layer of its own (`FirstBoot`): a call without a fault that
is not in `again` comes to a bootstrap only of an adapter that has not been bootstrapped, and one of those
that refuses is a fault.

`WorkspacesProofs` proves, for every number of workspaces, sessions, names and processes,
`FindInvariant`, and from it `WorkspaceInvariant`, `FoundAnywhereAlways` and `PrunesOnlyStale`. The
invariant says where the session a command means can still be, step by step (`AtHome`, `Found`): in a
workspace that has yet to be searched, among the matches found, or in the one workspace the command
will go to. That a linked workspace stays linked rests on a free name for every new link
(`FreeName`), which is a counting argument over `OwnLinks`: each name that a workspace could have and that is
taken is a user's, or leads to another workspace with a name in common, a different one each. `Carry` says
once what the commands under way must be told of a step for what is known of them to stay true; each
action is then shown to tell them.

`CommandLineProofs` proves `ProjectsAlwaysStand`, `LayersAlwaysInOrder`, `ValidatedAlwaysRuns`,
`MarkedRowAlwaysActed`, `RowsAlwaysInOrder`, `FirstAlwaysShown` and `FrontEndsAlwaysSame`, from one inductive invariant for each part, which
`CommandLineInvHolds` puts together:

* `ProjectInv`, for every number of writers, links and texts: what a writer has written and what
  it still has to write are together what its request named, and a workspace has no project exactly when
  all that is asked for is nothing. The first is about the writer and the second about the file, and
  neither would do alone: a write takes the head of the one list and changes one record of the other.
* `ProfilesInv`, for files of any number and length: a session has a specification of the right
  type, has been given what that says, and was due the same. The work is in `RunAgrees`, `StartAgrees` and
  `LaunchAgrees`: the three ways in which the code puts an environment together agree with `LastWord`, the
  reference definition, although each merges the files at a different place. They rest on
  `LayeredTold`: what a fold over the layers makes of a key is what the last layer that mentions it says.
* `BrowserInv`, for every number of sessions, any order, limit and height: while the browser waits for a
  key, the screen shows the row under the cursor and marks it (`WindowHoldsCursor` is the arithmetic of the window), and the rows are a
  list, which `CollectedIsList` shows of `apply_list_order`.
* `OrderInv`, for the same: the rows are sessions that pass the filters, each once, in the order asked for, and no
  more than the limit. `FirstOf` is the reference definition of `apply_list_order`, which determines its result, and
  `CollectedIsFirst` shows that `CollectRows` meets it. The keys of two rows are compared at the first place where
  they differ, and the last key is the id, so one row comes first and never both (`KeysAreOrdered`,
  `RowsAreOrdered`). `RankedInOrder` then counts: the number of rows that come before a row is a different one for each
  and less than that of all, so every place has a row. The keys of a row are numbers only while the
  sessions have their type, which is why that is part of the invariant. Neither is a property of a run.
* `FrontInv`, for any number of unusual fields and any threads an adapter may report: where a front end is
  follows from the request and the answers given so far (`FrontAt`), whatever the order in which the two
  come to each. So when both are done they can be compared as functions of the request. What remains are
  the tables: `KindsAlike` goes through the kinds of fields and says which values both sides take, and for the
  same; `CommandsSame` goes through the commands and says that the fields of both have like kinds and the same
  defaults; `SameRequest` concludes that a request that neither refuses has the same arguments, but
  for `Differences`, and `RepliesSame` that the same answers lead to like codes (`SameFault`: all errors but
  `BlamedDifferently` are the fault of the user for both or for neither).

The layers are folded by a recursive function. No installed prover can use the induction theorems of the
library, which have an operator as a parameter; the lemmas about the fold take the least index where the fact would
fail (`LeastOf`, from the well-foundedness of the natural numbers), which is induction written as a set.

The models were changed for these proofs where they could not be reasoned about, and mean
the same: `@@` and `FoldLeft` became `++` (`Maps`) and `Layered`, which have definitions to expand;
`ApplyListOrder` puts each row at the number of rows before it in place of sorting; `DeleteRequests` and
the values of fields are written as sets.

The assumptions are those named in the modules (`ServerAssumption`, `RegistryAssumption`,
`DebugAssumption`, ...), which TLC evaluates in every run. Those of the command line are about types:
`FrontAssumption` says that a list of threads is a sequence of ids that are not negative and that its name is
no error; `ProjectAssumption` that there is a link, that of the server's workspace, and that no record is
taken for none; `ProfileAssumption` that contents, profiles and configurations are what the parsers let
through; `BrowserAssumption` that ids are finitely many numbers, that names have ranks and that an order is one of `Sorts`.

## What is only model-checked

Liveness is out of the prover's reach: `Answers`, `ManagedComesBack`, `EventuallyAnswers` and the fairness
half of `ImplementsHttpServer`, whose safety half is `ServerTakesHttpSteps`. `MissingLinksGo`, which is
violated, is a finding. Every other property of a run is a theorem. What a recursive
definition makes of every input would need induction over data and is only proved where the least
counterexample can be taken (`LeastOf`).

## Not modelled

* `start --foreground`: it inserts a stopped record after its process is over.
* A restart whose kill of its own worker fails as well, of which the code takes no notice.
* A worker that outlives SIGKILL by two seconds.
* Pid reuse: a pid that a record or a running operation refers to is not handed out
  again (`Fresh`). With it, `is_process_alive` takes a stranger for the worker.
* A prelaunch task that calls `lcode` on its own workspace while a reconcile runs it: it
  waits for the lock its parent holds.
* `restart_count`, debug metadata, timestamps: no decision of these operations reads
  them, but for the age filter of cleanup, which is any subset of the records.

* A full disk that cuts the index file short while a listing is not killed: it is the same
  as a kill during the write.
* Batch: several ids on one command line, which is a loop without an early end; two link
  names for one path, of which the code takes the first; threads that panic.
* Connections: the retry of a connect that is refused, the framing of a message
  (`codec.rs`; one that cannot be read is `Close`), a write that blocks because the peer does
  not read, which would also hold up the reader when it refuses a request of the adapter.
* The registry: a refusal whose message reads like a transport error or a timeout ("connection
  refused"), which `is_retryable_transport_error` goes by and which would be tried again; a
  `debugpyAttach` event without a port that can be read, which is passed over; the
  child of an adapter on stdio, which `DapChannel` ends with its connection.
* The server: which tokens it accepts, and what its answers look like.
* Workspaces: which of the free names a new link gets.
* The command line: what `build` and `doctor` run and print, formats of output, filters of logs,
  quoting and templates in configurations (`envfile.rs` reads a value, `config.rs` replaces variables),
  `config export`; the conditions of breakpoints; `list --sort runtime`, which differs from the other orders by its first key;
  the interactive list in watch mode, which
  draws and refreshes without keys.

## Plan

What is left, in this order:

1. `start --foreground`; the batch over several ids.
2. Log filters and windows, and the variables of configurations, against reference definitions.
