---------------------------- MODULE AtomicStore ----------------------------
(***************************************************************************)
(* What the state store promises its callers: updates take effect one at a *)
(* time, each on the outcome of the ones before; what was answered with    *)
(* success is there for good; a power failure may undo an update that was  *)
(* not answered yet, whole, and nothing else.                              *)
(***************************************************************************)
CONSTANT Updates      \* the updates callers make, each with its own identity

VARIABLES
    applied,          \* the updates that made the present state
    acked             \* the updates answered with success

Init == applied = {} /\ acked = {}

Apply(u) ==
    /\ u \notin applied
    /\ applied' = applied \union {u}
    /\ UNCHANGED acked

Acknowledge(u) ==
    /\ u \in applied
    /\ acked' = acked \union {u}
    /\ UNCHANGED applied

Undo(lost) ==
    /\ lost \intersect acked = {}
    /\ applied' = applied \ lost
    /\ UNCHANGED acked

Next ==
    \/ \E u \in Updates : Apply(u) \/ Acknowledge(u)
    \/ \E lost \in SUBSET applied : Undo(lost)

Spec == Init /\ [][Next]_<<applied, acked>>
=============================================================================
