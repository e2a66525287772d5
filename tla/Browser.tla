------------------------------- MODULE Browser -------------------------------
(***************************************************************************)
(* The interactive list of sessions.  It draws the rows it has, waits for a *)
(* key or for the time of the next refresh, and acts on the row under the   *)
(* cursor.  The cursor is a position: meanwhile sessions come, go and       *)
(* change, and a refresh may put another row there, or none.                *)
(***************************************************************************)
EXTENDS Naturals, FiniteSets, SequencesExt

CONSTANTS
    Ids,            \* ids of sessions, as numbers, in their order
    Named(_),       \* the rank of the name of a session
    Orders,         \* what --sort, --limit and --status can ask for
    Heights,        \* lines of the terminal
    MaxEvents       \* bound on the keys and on what others do to the sessions

\* What the list can be sorted by.
Sorts == {"id", "name", "status", "updated", "restarts"}

ASSUME BrowserAssumption ==
    /\ IsFiniteSet(Ids) /\ Ids \subseteq Nat /\ Heights \subseteq Nat /\ MaxEvents \in Nat
    /\ \A id \in Ids : Named(id) \in Nat
    /\ \A o \in Orders : o.limit \in Nat /\ o.sort \in Sorts

VARIABLES
    sessions,   \* the status, update time and restarts of each session there is
    order,      \* the options of the list
    rows,       \* the rows of the browser
    selected,   \* the position of the cursor, from 0
    details,    \* the details of the selected row are shown
    frame,      \* what is on the screen: the rows of the window, and the one marked
    browser,    \* "draw", "wait", "check" or "left"
    acted,      \* the row acted on and the row that was marked then, or nothing
    events      \* keys and changes so far

browserVars == <<sessions, order, rows, selected, details, frame, browser, acted, events>>

Statuses == {"running", "suspended", "stopped", "unknown"}
StatusRank(s) ==
    CASE s = "running" -> 0 [] s = "suspended" -> 1 [] s = "stopped" -> 2 [] s = "unknown" -> 3

\* What comes first in the list, by the first key that differs.
SortKeys(sort, r) ==
    CASE sort = "id" -> <<r.id>>
      [] sort = "name" -> <<Named(r.id), r.id>>
      [] sort = "status" -> <<StatusRank(r.status), Named(r.id), r.id>>
      [] sort = "updated" -> <<MaxEvents - r.updated, r.id>>
      [] sort = "restarts" -> <<MaxEvents - r.restarts, Named(r.id), r.id>>

Precedes(k, l) ==
    \E i \in DOMAIN k : k[i] < l[i] /\ \A j \in 1..(i - 1) : k[j] = l[j]

\* apply_list_order on the rows that pass the filters: each comes after those that precede it.
ApplyListOrder(all) ==
    LET before(r) == {q \in all : Precedes(SortKeys(order.sort, q), SortKeys(order.sort, r))}
        sorted == [n \in 1..Cardinality(all) |-> CHOOSE r \in all : Cardinality(before(r)) = n - 1]
    IN SubSeq(sorted, 1, Min({order.limit, Len(sorted)}))

Row(id) ==
    [id |-> id, status |-> sessions[id].status, updated |-> sessions[id].updated,
     restarts |-> sessions[id].restarts]

CollectRows == ApplyListOrder({Row(id) : id \in {i \in DOMAIN sessions : sessions[i].status \in order.status}})

Minus(a, b) == IF a < b THEN 0 ELSE a - b

\* Mutant: the cursor stays where it is.
Unclamped(position, list) == position

Clamped(position, list) ==
    IF position >= Len(list) /\ list # <<>> THEN Len(list) - 1 ELSE position

\* Mutant: the window starts with half of it above the cursor, or at the top.
Centred(height, position) ==
    LET capacity == Minus(height, 5 + IF details THEN 11 ELSE 0)
        window == IF capacity < Len(rows) THEN capacity ELSE Len(rows)
        start == Minus(position, window \div 2)
    IN [top |-> start, lines |-> window]

\* The rows from top on that fit on the screen, with the cursor in the middle where possible.
Window(height, position) ==
    LET capacity == Minus(height, 5 + IF details THEN 11 ELSE 0)
        window == Min({Len(rows), IF capacity = 0 THEN 1 ELSE capacity})
        start == Min({Minus(position, window \div 2), Len(rows) - window})
    IN [top |-> start, lines |-> window]

\* The top of the loop, and render_interactive_frame
Draw ==
    /\ browser = "draw"
    /\ browser' = "wait"
    /\ LET position == Clamped(selected, rows)
       IN /\ selected' = position
          /\ \E height \in Heights :
               LET w == Window(height, position)
               IN frame' = [rows |-> SubSeq(rows, w.top + 1, w.top + w.lines), marked |-> position + 1 - w.top]
    /\ UNCHANGED <<sessions, order, rows, details, acted, events>>

\* The loop goes on to the check of the time for a refresh.
Pressed == browser = "wait" /\ events < MaxEvents /\ events' = events + 1

Move(position) ==
    /\ Pressed /\ browser' = "check"
    /\ selected' = position
    /\ UNCHANGED <<sessions, order, rows, details, frame, acted>>

Down == Move(IF rows = <<>> THEN selected ELSE Min({selected + 1, Len(rows) - 1}))
Up == Move(Minus(selected, 1))
Top == Move(0)
Bottom == Move(IF rows = <<>> THEN selected ELSE Len(rows) - 1)

Toggle ==
    /\ Pressed /\ browser' = "check"
    /\ details' = ~details
    /\ UNCHANGED <<sessions, order, rows, selected, frame, acted>>

Quit ==
    /\ Pressed /\ browser' = "left"
    /\ UNCHANGED <<sessions, order, rows, selected, details, frame, acted>>

\* The rows cannot always be collected, and are kept then.
Refreshed(success) == rows' = IF success THEN CollectRows ELSE rows

Refresh ==
    /\ Pressed /\ browser' = "check"
    /\ \E success \in BOOLEAN : Refreshed(success)
    /\ UNCHANGED <<sessions, order, selected, details, frame, acted>>

\* What a key does to a session, if that succeeds.
Outcome(key) ==
    CASE key = "x" -> "stopped" [] key = "R" -> "running" [] key = "s" -> "suspended" [] key = "u" -> "running"

\* A key without a row to act on goes straight back to the top of the loop.
Ignored ==
    /\ Pressed /\ rows = <<>>
    /\ browser' = "draw"
    /\ UNCHANGED <<sessions, order, rows, selected, details, frame, acted>>

ActsOn(target) == acted' = <<target.id, frame.rows[frame.marked].id>>

Changed(id, status, restarts) ==
    sessions' = [sessions EXCEPT ![id].status = status, ![id].updated = events + 1,
                                 ![id].restarts = @ + restarts]

\* The rows are collected after the session has changed.
Act(key) ==
    /\ Pressed /\ rows # <<>>
    /\ LET target == rows[selected + 1]
       IN /\ ActsOn(target)
          /\ target.id \in DOMAIN sessions
          /\ Changed(target.id, Outcome(key), IF key = "R" THEN 1 ELSE 0)
    /\ browser' = "act"
    /\ UNCHANGED <<order, rows, selected, details, frame>>

ActionFails ==
    /\ Pressed /\ rows # <<>>
    /\ ActsOn(rows[selected + 1])
    /\ browser' = "check"
    /\ UNCHANGED <<sessions, order, rows, selected, details, frame>>

ActionRefresh ==
    /\ browser = "act" /\ browser' = "check"
    /\ \E success \in BOOLEAN : Refreshed(success)
    /\ selected' = Clamped(selected, rows')
    /\ UNCHANGED <<sessions, order, details, frame, acted, events>>

\* No key is pressed until the time of the refresh, or it has passed when the key is dealt with.
Elapses ==
    /\ browser = "wait" /\ browser' = "check"
    /\ UNCHANGED <<sessions, order, rows, selected, details, frame, acted, events>>

AutoRefresh ==
    /\ browser = "check" /\ browser' = "draw"
    /\ \E success \in BOOLEAN : Refreshed(success)
    /\ UNCHANGED <<sessions, order, selected, details, frame, acted, events>>

NotYet ==
    /\ browser = "check" /\ browser' = "draw"
    /\ UNCHANGED <<sessions, order, rows, selected, details, frame, acted, events>>

\* Another command, or a process that ends, changes the sessions at any time.
Others ==
    /\ events < MaxEvents /\ events' = events + 1
    /\ \E id \in Ids :
         \/ /\ id \in DOMAIN sessions
            /\ sessions' = [i \in DOMAIN sessions \ {id} |-> sessions[i]]
         \/ /\ id \in DOMAIN sessions
            /\ \E status \in Statuses : Changed(id, status, 0)
         \/ /\ id \notin DOMAIN sessions
            /\ sessions' = [i \in DOMAIN sessions \union {id} |->
                 IF i = id THEN [status |-> "running", updated |-> events + 1, restarts |-> 0]
                 ELSE sessions[i]]
    /\ UNCHANGED <<order, rows, selected, details, frame, browser, acted>>

BrowserInit ==
    /\ \E there \in SUBSET Ids :
         sessions = [i \in there |-> [status |-> "running", updated |-> 0, restarts |-> 0]]
    /\ order \in Orders
    /\ rows = CollectRows
    /\ selected = 0 /\ details = FALSE
    /\ frame = [rows |-> <<>>, marked |-> 1]
    /\ browser = "draw" /\ acted = <<>> /\ events = 0

BrowserNext ==
    \/ Draw \/ Down \/ Up \/ Top \/ Bottom \/ Toggle \/ Quit \/ Refresh \/ Ignored
    \/ \E key \in {"x", "R", "s", "u"} : Act(key)
    \/ ActionFails \/ ActionRefresh \/ Elapses \/ AutoRefresh \/ NotYet \/ Others

-----------------------------------------------------------------------------

\* Whatever becomes of the sessions, the sizes of the list and of the terminal, the row under
\* the cursor is on the screen whenever a key is waited for, and a key that acts on a session
\* acts on the one that is marked there.
ActsOnMarked ==
    /\ browser = "wait" /\ rows # <<>> =>
         /\ frame.marked \in DOMAIN frame.rows
         /\ frame.rows[frame.marked] = rows[selected + 1]
    /\ acted # <<>> => acted[1] = acted[2]
=============================================================================
