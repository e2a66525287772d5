SPECIFICATION Spec
CONSTANTS
    ThreadLists <- MCThreadLists
    MaxUnusual = 2
    Writers = {p1, p2}
    w1 = w1
    w2 = w2
    Links <- MCLinks
    Texts = {t1}
    Blank = blank
    None = none
    MaxWrites = 2
    Keys = {"PYTHON_BIN"}
    PythonBin = "PYTHON_BIN"
    va = va
    vb = vb
    Settings = {va, vb}
    env1 = env1
    env2 = env2
    EnvFiles = {env1, env2}
    FileLists <- MCLists
    Contents <- MCContents
    SavedProfiles <- MCSavedProfiles
    LaunchConfigs <- MCLaunchConfigs
    StartOptions <- MCStartOptions
    ToolStates <- MCTools
    MaxChanges = 2
    Ids = {1, 2, 3}
    Named <- MCNamed
    Orders <- MCOrders
    Heights = {7}
    MaxEvents = 3
INVARIANTS FrontEndsSame ProjectsStand LayersInOrder ValidatedRuns MarkedRowActed
CHECK_DEADLOCK FALSE
