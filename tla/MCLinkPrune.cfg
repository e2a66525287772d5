SPECIFICATION Spec
CONSTANTS
    Procs = {c1}
    home = home
    work = work
    tmp = tmp
    Paths = {home, work, tmp}
    NoPath = NoPath
    TempPaths = {tmp}
    Ids = {s1, s2}
    Prefix = Prefix
    app = app
    app2 = app2
    app3 = app3
    lib = lib
    Names = {app, app2, app3, lib}
    UserNames = {app}
    OwnNames <- MCOwnNames
    MinLinks = 2
    MinMatched = 2
    RatioPercent = 50
    Ops = {"start", "control", "list", "cleanup", "prune", "add", "remove"}
    MaxCommands = 4
    MaxChanges = 1
SYMMETRY MCSymmetry
PROPERTIES MissingLinksGo
CHECK_DEADLOCK FALSE
