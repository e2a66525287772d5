------------------------------ MODULE Profiles -------------------------------
(***************************************************************************)
(* What a worker is started with.  A session comes from a saved profile,    *)
(* from a configuration of launch.json or from the options of a command;    *)
(* each puts its environment together from layers of its own: files, which  *)
(* are read when the session is started, settings, and keys to remove.      *)
(* Profiles are saved, deleted and imported, and files edited, while        *)
(* sessions live on and are started again with what they were given.        *)
(***************************************************************************)
EXTENDS Naturals, SequencesExt, FiniteSetsExt, Maps

CONSTANTS
    Keys, PythonBin,    \* names of variables, and the one that names the interpreter
    Settings,           \* the values a variable can be given
    EnvFiles,           \* paths of environment files
    FileLists,          \* sequences of files that a profile or a command names
    Contents,           \* contents of a file: sequences of lines
    SavedProfiles,      \* what config save, or a bundle written by hand, can hold
    LaunchConfigs,      \* configurations of launch.json
    StartOptions,       \* options of start and debug
    ToolStates,         \* what may be installed: sets of interpreters and "dlv"
    MaxChanges          \* bound on the changes of profile, files, configuration and tools

VARIABLES
    profile,    \* the saved profile, or Nothing
    text,       \* the lines of each environment file
    launchFile, \* the configuration in launch.json, or Nothing
    tools,      \* what is installed
    there,      \* the working directory holds what the runtime starts from
    session,    \* the session, or Nothing
    changes     \* changes so far

profileVars == <<profile, text, launchFile, tools, there, session, changes>>

Nothing == [is |-> "nothing"]
NoKeys == [k \in {} |-> "null"]
Failed == [is |-> "failed"]
Garbled == [is |-> "garbled"]

\* The settings that the arguments of --env can give, one at most of each key.
EnvMaps == UNION {[ks -> Settings] : ks \in SUBSET Keys}

LaunchSpecs ==
    [runtime : STRING, entry : STRING, args : BOOLEAN, env : EnvMaps, removes : SUBSET Keys,
     files : Seq(EnvFiles), mode : STRING, debug : BOOLEAN]

ASSUME ProfileAssumption ==
    /\ PythonBin \in Keys /\ Settings \cap {"null", "unset", "inherited"} = {}
    /\ Failed \notin EnvMaps
    /\ Contents \subseteq Seq(EnvMaps \union {Garbled})
    /\ FileLists \subseteq Seq(EnvFiles)
    /\ SavedProfiles \subseteq LaunchSpecs
    /\ \A c \in LaunchConfigs :
         /\ c.env \in UNION {[ks -> Settings \union {"null"}] : ks \in SUBSET Keys}
         /\ c.envFile \in EnvFiles \union {Nothing} /\ c.python \in Settings \union {Nothing}
    /\ \A o \in StartOptions : o.files \in Seq(EnvFiles) /\ o.env \in EnvMaps

-----------------------------------------------------------------------------
(* Environment files.  A line sets a key, or none (a comment, a blank key), *)
(* or is garbled: it has no "=", or a quote is not closed.  A file that is  *)
(* missing fails to be read as one with a garbled line does.                *)

\* The layers one over the other, the last on top.
Layered(layers, env) ==
    LET over[n \in 0..Len(layers)] == IF n = 0 THEN env ELSE layers[n] ++ over[n - 1]
    IN over[Len(layers)]

ParseFile(lines) == IF Garbled \in Range(lines) THEN Failed ELSE Layered(lines, NoKeys)

ReadFile(f) == ParseFile(text[f])

FileLayers(fs) == [i \in DOMAIN fs |-> ReadFile(fs[i])]

\* The files one after the other, as far as they can be read.
ReadFiles(fs, env) ==
    IF Failed \in Range(FileLayers(fs)) THEN Failed ELSE Layered(FileLayers(fs), env)

-----------------------------------------------------------------------------
(* How each command puts a specification together.                          *)

RemoveEnvRemoveKeys(removes, env) == removes \ DOMAIN env

\* Mutant: what the files say beats what has been saved.
FilesLast(spec) ==
    LET env == ReadFiles(spec.files, spec.env)
    IN IF env = Failed THEN Failed
       ELSE [spec EXCEPT !.env = env, !.removes = RemoveEnvRemoveKeys(@, env), !.files = <<>>]

\* materialize_profile_env_files
Materialized(spec) ==
    LET fromFiles == ReadFiles(spec.files, NoKeys)
    IN IF spec.files = <<>> THEN spec
       ELSE IF fromFiles = Failed THEN Failed
       ELSE LET env == spec.env ++ fromFiles
            IN [spec EXCEPT !.env = env, !.removes = RemoveEnvRemoveKeys(@, env), !.files = <<>>]

InMode(spec, mode) ==
    IF mode = "as saved" THEN spec
    ELSE [spec EXCEPT !.mode = mode, !.debug = mode = "debug"]

\* handle_config_run: the options of the command on top of the profile.
RunSpec(spec, o) ==
    LET base == InMode(spec, o.mode)
        start == IF o.clear_env THEN [base EXCEPT !.env = NoKeys, !.files = <<>>, !.removes = {}]
                 ELSE Materialized(base)
        env == IF start = Failed THEN Failed ELSE ReadFiles(o.files, start.env)
    IN IF env = Failed THEN Failed
       ELSE [start EXCEPT !.env = o.env ++ env, !.removes = RemoveEnvRemoveKeys(@, o.env ++ env)]

\* load_launch_spec: null removes a key, and an interpreter is set in any case.
LaunchSpec(c, mode) ==
    LET fromFile == IF c.envFile = Nothing THEN NoKeys ELSE ReadFile(c.envFile)
        nulls == {k \in DOMAIN c.env : c.env[k] = "null"}
        named == [k \in DOMAIN c.env \ nulls |-> c.env[k]]
        python == IF c.python = Nothing THEN NoKeys ELSE [k \in {PythonBin} |-> c.python]
        kept == [k \in DOMAIN fromFile \ nulls |-> fromFile[k]]
    IN IF fromFile = Failed THEN Failed
       ELSE InMode([runtime |-> c.type, entry |-> c.program, args |-> FALSE,
                    env |-> python ++ named ++ kept, removes |-> nulls \ DOMAIN python,
                    files |-> <<>>, mode |-> mode, debug |-> FALSE],
                   IF c.request = "debug" THEN "debug" ELSE mode)

\* validate_start_options
ValidOptions(o) ==
    /\ ~(o.foreground /\ o.tail)
    /\ o.foreground \/ o.log_mode = "file"

\* apply_go_debug_mode: the entry of the specification, or nothing when the options clash.
GoEntry(o) ==
    IF o.runtime # "go" THEN IF o.go_mode = "debug" /\ ~o.pid THEN {o.entry} ELSE {}
    ELSE CASE o.go_mode = "debug" -> {o.entry}
           [] o.go_mode = "test" -> {"test:"}
           [] o.go_mode = "attach" -> {"attach:" : a \in {FALSE} \cap {o.args},
                                                   p \in {TRUE} \cap {o.pid, o.entry = "number"}}

\* build_launch_spec
StartSpec(o) ==
    LET env == ReadFiles(o.files, NoKeys)
        entry == IF o.mode = "debug" THEN GoEntry(o) ELSE {o.entry}
    IN IF ~ValidOptions(o) \/ env = Failed \/ entry = {} THEN Failed
       ELSE [runtime |-> o.runtime, entry |-> CHOOSE e \in entry : TRUE, args |-> o.args,
             env |-> o.env ++ env, removes |-> {}, files |-> <<>>,
             mode |-> o.mode, debug |-> o.mode = "debug"]

-----------------------------------------------------------------------------
(* What is checked before a worker is spawned, and by config validate.      *)

PythonExecutable(spec) == IF PythonBin \in DOMAIN spec.env THEN spec.env[PythonBin] ELSE "python"

Buildable(spec) ==
    /\ spec.entry # "blank"
    /\ spec.runtime = "go" /\ spec.mode = "debug" => spec.entry # "attach:0"

\* for_runtime: there is no backend for rust.
HasBackend(spec) == spec.runtime # "rust"

DebugRuntimeReady(spec) ==
    spec.mode = "debug" =>
        /\ spec.runtime = "python" => PythonExecutable(spec) \in tools
        /\ spec.runtime = "go" => "dlv" \in tools

\* prepare_debug_spec and spawn_session_worker
Starts(spec) ==
    /\ spec.mode = "debug" => HasBackend(spec)
    /\ DebugRuntimeReady(spec)
    /\ Buildable(spec)

\* A debugger is told to listen on the port of the configuration, the default one if there is none.
Prepared(spec) == [spec EXCEPT !.debug = @ \/ spec.mode = "debug"]

\* Mutant: the files are not read for the checks.
ValidAsSaved(spec) ==
    /\ there /\ spec.entry = "path"
    /\ Buildable(spec)
    /\ spec.mode = "debug" => HasBackend(spec) /\ spec.debug /\ DebugRuntimeReady(spec)

\* validate_profile_spec
Valid(spec) ==
    LET effective == Materialized(spec)
    IN /\ effective # Failed
       /\ there
       /\ spec.runtime # "rust" => spec.entry = "path"
       /\ Buildable(effective)
       /\ spec.mode = "debug" => HasBackend(spec) /\ spec.debug /\ DebugRuntimeReady(effective)

-----------------------------------------------------------------------------

\* What a worker finds: an environment is inherited, keys are removed, then others set.
Given(spec) ==
    [k \in Keys |-> IF k \in DOMAIN spec.env THEN spec.env[k]
                    ELSE IF k \in spec.removes THEN "unset"
                    ELSE "inherited"]

\* The layers, the strongest last: each sets or removes some keys.
Removing(ks) == [k \in ks |-> "unset"]
RunLayers(spec, o) ==
    (IF o.clear_env THEN <<>> ELSE <<Removing(spec.removes)>> \o FileLayers(spec.files) \o <<spec.env>>)
    \o FileLayers(o.files) \o <<o.env>>
StartLayers(o) == FileLayers(o.files) \o <<o.env>>
LaunchLayers(c) ==
    (IF c.envFile = Nothing THEN <<>> ELSE <<ReadFile(c.envFile)>>)
    \o <<[k \in DOMAIN c.env |-> IF c.env[k] = "null" THEN "unset" ELSE c.env[k]]>>
    \o (IF c.python = Nothing THEN <<>> ELSE <<[k \in {PythonBin} |-> c.python]>>)

LastWord(layers, k) ==
    LET said == {i \in DOMAIN layers : k \in DOMAIN layers[i]}
    IN IF said = {} THEN "inherited" ELSE layers[Max(said)][k]

\* handle_start_spec.  No worker is spawned where a check fails or there is no directory.
Start(spec, layers) ==
    /\ spec # Failed
    /\ Starts(spec) /\ there
    /\ session' = [is |-> "session", spec |-> Prepared(spec), given |-> Given(spec),
                   due |-> [k \in Keys |-> LastWord(layers, k)]]
    /\ UNCHANGED <<profile, text, launchFile, tools, there, changes>>

Change == changes < MaxChanges /\ changes' = changes + 1

Save ==
    /\ Change
    /\ \E spec \in SavedProfiles : spec.removes = {} /\ profile' = spec
    /\ UNCHANGED <<text, launchFile, tools, there, session>>

Delete ==
    /\ Change
    /\ profile # Nothing
    /\ profile' = Nothing
    /\ UNCHANGED <<text, launchFile, tools, there, session>>

\* A bundle has the profile or has not; one that is broken, or of another version, changes nothing.
Import(replace) ==
    /\ Change
    /\ \/ \E spec \in SavedProfiles : profile' = spec
       \/ replace /\ profile' = Nothing
    /\ UNCHANGED <<text, launchFile, tools, there, session>>

RunOptions ==
    [mode : {"as saved", "run", "debug"}, clear_env : BOOLEAN, files : FileLists, env : EnvMaps]

ConfigRun ==
    /\ profile # Nothing
    /\ \E o \in RunOptions : Start(RunSpec(profile, o), RunLayers(profile, o))

Launch ==
    /\ launchFile # Nothing
    /\ \E mode \in {"run", "debug"} :
         Start(LaunchSpec(launchFile, mode), LaunchLayers(launchFile))

StartCommand ==
    \E o \in StartOptions : Start(StartSpec(o), StartLayers(o))

\* A restart, or the daemon, starts the worker again.
Restart ==
    /\ session # Nothing
    /\ Starts(session.spec) /\ there
    /\ session' = [session EXCEPT !.spec = Prepared(@), !.given = Given(session.spec)]
    /\ UNCHANGED <<profile, text, launchFile, tools, there, changes>>

EditFile ==
    /\ Change
    /\ \E f \in EnvFiles, t \in Contents : text' = [text EXCEPT ![f] = t]
    /\ UNCHANGED <<profile, launchFile, tools, there, session>>

EditLaunchFile ==
    /\ Change
    /\ \E c \in LaunchConfigs : launchFile' = c
    /\ UNCHANGED <<profile, text, tools, there, session>>

Install ==
    /\ Change
    /\ tools' \in ToolStates /\ there' \in BOOLEAN
    /\ UNCHANGED <<profile, text, launchFile, session>>

ProfilesInit ==
    /\ profile = Nothing /\ launchFile = Nothing /\ session = Nothing
    /\ text \in [EnvFiles -> Contents]
    /\ tools \in ToolStates /\ there = TRUE
    /\ changes = 0

ProfilesNext ==
    \/ Save \/ Delete \/ \E replace \in BOOLEAN : Import(replace)
    \/ ConfigRun \/ Launch \/ StartCommand \/ Restart
    \/ EditFile \/ EditLaunchFile \/ Install

-----------------------------------------------------------------------------

\* A worker finds in its environment what the last layer that mentions a key has said of it
\* when the session was created, however often it is started again and whatever becomes of
\* the profile, the files and launch.json in the meantime.
LastLayerWins == session # Nothing => session.given = session.due

\* A profile that config validate approves of is not refused by config run, as long as
\* nothing is changed in between.
ValidatedStarts ==
    profile # Nothing /\ Valid(profile) =>
        LET plain == [mode |-> "as saved", clear_env |-> FALSE, files |-> <<>>, env |-> NoKeys]
        IN RunSpec(profile, plain) # Failed /\ Starts(RunSpec(profile, plain))
=============================================================================
