SPECIFICATION Spec
CONSTANTS
    Workers = {w1, w2}
    Callers = {w1, w2}
    NoWorker = NoWorker
    Capacity = 0
    MaxRequests = 2
    parent = parent
    child = child
    Sessions = {parent}
    Children = {child}
    Ports = {1, 2}
    NoPort = 0
    StartPort <- MCStartPort
    Routes <- MCFewRoutes
    MaxLives = 2
    MaxTroubles = 1
PROPERTIES ImplementsHttpServer
CHECK_DEADLOCK FALSE
