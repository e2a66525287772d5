---- MODULE MCWorkspaces ----
\* Three workspaces, two of them with the same last component, one of those temporary.
EXTENDS Workspaces, TLC

CONSTANTS home, work, tmp, app, app2, app3, lib

MCOwnNames == home :> {lib} @@ work :> {app, app2, app3} @@ tmp :> {app, app2, app3}

MCSymmetry == Permutations(Procs) \union Permutations(Ids)
====
