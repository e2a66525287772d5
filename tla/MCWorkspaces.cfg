SPECIFICATION Spec
CONSTANTS
    Procs = {c1, c2}
    home = home
    work = work
    tmp = tmp
    Paths = {home, work, tmp}
    NoPath = NoPath
    TempPaths = {tmp}
    Ids = {s1, s2}
    Prefix = Prefix
    app = app
    app2 = app2
    app3 = app3
    lib = lib
    Names = {app, app2, app3, lib}
    UserNames = {app}
    OwnNames <- MCOwnNames
    MinLinks = 2
    MinMatched = 2
    RatioPercent = 50
    Ops = {"start", "control", "list", "cleanup", "prune", "add", "remove"}
    MaxCommands = 3
    MaxChanges = 2
SYMMETRY MCSymmetry
INVARIANTS WorkspaceInv FoundAnywhere
PROPERTIES PruneOnlyStale
CHECK_DEADLOCK FALSE
