SPECIFICATION Spec
CONSTANTS
    Workers = {w1, w2}
    Callers = {w1, w2}
    NoWorker = NoWorker
    Capacity = 1
    MaxRequests = 2
    parent = parent
    child = child
    Sessions = {parent}
    Children = {child}
    Ports = {1, 2}
    NoPort = 0
    StartPort <- MCStartPort
    Routes <- MCRoutes
    MaxLives = 3
    MaxTroubles = 1
INVARIANTS ServerInv SteadyCallSucceeds NeverMisdirected RanOnceWithoutFault
PROPERTIES FailedAdoptionLeavesNoChild
CHECK_DEADLOCK FALSE
