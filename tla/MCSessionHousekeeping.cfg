\* A managed session with a temporary log and an unmanaged one with a persistent log: list, cleanup, logs, tail and the daemon around two callers.
CONSTANTS
    NoPid = NoPid
    NoSession = NoSession
    Sessions = {s1, s2}
    Actors = {a1, a2}
    Pids = {p1, p2, p3, p4}
    Managed = {s1}
    Temporary = {s1}
    PostStop = {}
    MaxRetries = 3
    Ops = {"start", "stop", "list", "cleanup", "get", "tail", "daemon"}
    Faults = {"spawn", "state"}
SPECIFICATION Spec
SYMMETRY CallerSymmetry
INVARIANTS StopsNeverConflict
PROPERTIES PersistentLogSurvives
