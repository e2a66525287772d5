---------------------------- MODULE MCCommandLine ----------------------------
\* An instance of CommandLine for TLC.
EXTENDS CommandLine, TLC

CONSTANTS env1, env2, va, vb, w1, w2

MCThreadLists == [none |-> <<>>, zero |-> <<0>>, late |-> <<0, 2>>, some |-> <<1, 2>>]

MCLinks == <<w1, w2>>

MCLists == {<<>>, <<env2>>}
MCContents == {<<>>, <<Garbled>>, <<PythonBin :> va, NoKeys, PythonBin :> vb>>, <<PythonBin :> va>>}
MCTools == {{}, {va, "python"}, {vb, "dlv"}}

Saved(runtime, mode, debug, env, files, removes) ==
    [runtime |-> runtime, entry |-> "path", args |-> FALSE, env |-> env, removes |-> removes,
     files |-> files, mode |-> mode, debug |-> debug]
MCSavedProfiles ==
    {Saved("python", "debug", TRUE, env, files, removes) :
        env \in {NoKeys, PythonBin :> va}, files \in {<<>>, <<env1>>, <<env1, env2>>},
        removes \in {{}, {PythonBin}}}
    \union {Saved(runtime, mode, mode = "debug", NoKeys, <<>>, {}) :
              runtime \in {"rust", "go"}, mode \in {"run", "debug"}}
    \union {Saved("python", "debug", FALSE, NoKeys, <<>>, {PythonBin})}

MCLaunchConfigs ==
    {[type |-> "python", program |-> "path", request |-> how, env |-> env, envFile |-> env1,
      python |-> python] :
        how \in {"launch", "debug"}, python \in {Nothing, va},
        env \in {NoKeys, PythonBin :> "null", PythonBin :> vb}}
    \union {[type |-> "rust", program |-> "path", request |-> "launch",
             env |-> PythonBin :> "null", envFile |-> Nothing, python |-> Nothing]}

Plain ==
    [runtime |-> "python", mode |-> "run", entry |-> "path", args |-> FALSE, go_mode |-> "debug",
     pid |-> FALSE, foreground |-> FALSE, tail |-> FALSE, log_mode |-> "file",
     files |-> <<env1, env2>>, env |-> NoKeys]
GoDebug == [Plain EXCEPT !.runtime = "go", !.mode = "debug", !.files = <<>>]
MCStartOptions ==
    {Plain, [Plain EXCEPT !.env = PythonBin :> va], [Plain EXCEPT !.mode = "debug"],
     [Plain EXCEPT !.foreground = TRUE, !.tail = TRUE], [Plain EXCEPT !.log_mode = "tee"],
     [Plain EXCEPT !.mode = "debug", !.go_mode = "test"], GoDebug, [GoDebug EXCEPT !.go_mode = "test"]}
    \union {[GoDebug EXCEPT !.go_mode = "attach", !.pid = pid, !.args = args] :
              pid \in BOOLEAN, args \in BOOLEAN}

MCNamed(id) == 4 - id
MCOrders ==
    {[sort |-> "id", limit |-> 9, status |-> {"running"}],
     [sort |-> "status", limit |-> 2, status |-> Statuses]}
    \union {[sort |-> sort, limit |-> 9, status |-> Statuses] : sort \in {"name", "updated", "restarts"}}
=============================================================================
