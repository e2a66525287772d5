\* Two callers on one managed session with a temporary log and a poststop task; every
\* failure may happen; any call may find the worker dead and respawn it.
CONSTANTS
    NoPid = NoPid
    NoSession = NoSession
    Sessions = {s1}
    Actors = {a1, a2}
    Pids = {p1, p2, p3, p4}
    Managed = {s1}
    Temporary = {s1}
    PostStop = {s1}
    MaxRetries = 3
    Ops = {"start", "stop", "restart", "suspend", "cleanup", "get"}
    Faults = {"spawn", "task", "state", "crash"}
SPECIFICATION Spec
SYMMETRY CallerSymmetry
INVARIANTS SafetyInv PostStopOnce
PROPERTIES NoLostWorker LiveWorkerNeverForgotten StoppedStaysStopped
