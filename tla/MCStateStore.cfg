\* Two programs of different schema versions make three updates.
CONSTANTS
    older = older
    newer = newer
    Procs = {older, newer}
    Updates = {u1, u2, u3}
    NoUpdate = NoUpdate
    Oldest = 1
    Supported <- MCSupported
SPECIFICATION Spec
SYMMETRY UpdateSymmetry
INVARIANTS StoreInv AckedSurvives
PROPERTIES NewerStateKept ImplementsAtomicStore
