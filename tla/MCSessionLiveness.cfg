\* Two callers and the daemon on one managed session: everything answers.
CONSTANTS
    NoPid = NoPid
    NoSession = NoSession
    Sessions = {s1}
    Actors = {a1, a2}
    Pids = {p1, p2, p3}
    Managed = {s1}
    Temporary = {}
    PostStop = {}
    MaxRetries = 3
    Ops = {"start", "stop", "restart", "daemon"}
    Faults = {}
SPECIFICATION FairSpec
PROPERTIES Answers ManagedComesBack
