\* A plain and a global listing of one workspace, and other commands that save.
CONSTANTS
    Listers = {p1}
    Scanners = {p2}
    Links = {w}
    NoLink = NoLink
    Sessions = {s}
    Live = {"running", "suspended"}
    MaxSaves = 3
SPECIFICATION Spec
INVARIANTS OnlyRacesPoison NoPhantoms StoppedNeverSkipped
