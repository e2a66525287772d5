------------------------------ MODULE Projects -------------------------------
(***************************************************************************)
(* The information about a project that the state of a workspace holds.     *)
(* The server sets and unsets the fields of its own workspace; a command    *)
(* does so in one workspace or, with --all-links, in every linked one, in   *)
(* the order of the links and as far as it gets.                            *)
(*                                                                          *)
(* A name stands for the three fields that are texts, tags for the four     *)
(* that are lists.  The value of either is the set of its entries, which is *)
(* empty when the field is not there.                                       *)
(***************************************************************************)
EXTENDS Naturals, FiniteSets, SequencesExt

CONSTANTS
    Writers,         \* commands and worker threads of the server
    Links,           \* the linked workspaces, in the order of their links
    Texts, Blank,    \* what a text, or an entry of a list, can be
    None,
    MaxWrites        \* bound on the requests

VARIABLES
    info,       \* the project of each workspace, or None
    readable,   \* the workspaces whose state can be loaded
    writer,     \* the request each writer works on
    writes,     \* requests so far
    stands      \* what the last write to each field has asked for

projectVars == <<info, readable, writer, writes, stands>>

Workspaces == Range(Links)
ProjectFields == {"name", "tags"}

\* The server and a command have a workspace of their own, which is linked; None is no project.
ASSUME ProjectAssumption ==
    /\ Blank \notin Texts /\ MaxWrites \in Nat
    /\ Links \in Seq(Workspaces) /\ Links # <<>>
    /\ None \notin [ProjectFields -> SUBSET Texts]

EmptyProject == [f \in ProjectFields |-> {}]

\* normalize_optional_string, normalize_string_list: what is blank goes, and nothing is none.
Normalized(value) == value \ {Blank}

\* Mutant: a field is set in a project of its own.
UpdatedAlone(project, update) ==
    LET after == [f \in ProjectFields |->
                    IF f \in DOMAIN update THEN Normalized(update[f]) ELSE {}]
    IN IF after = EmptyProject THEN None ELSE after

\* api_update_project_info in the critical section of the store
Updated(project, update) ==
    LET before == IF project = None THEN EmptyProject ELSE project
        after == [f \in ProjectFields |->
                    IF f \in DOMAIN update THEN Normalized(update[f]) ELSE before[f]]
    IN IF after = EmptyProject THEN None ELSE after

\* api_unset_project_info_fields
Unset(project, fields) ==
    IF "all" \in fields \/ project = None THEN None
    ELSE LET after == [f \in ProjectFields |-> IF f \in fields THEN {} ELSE project[f]]
         IN IF after = EmptyProject THEN None ELSE after

Applied(project, request) ==
    IF request.op = "set" THEN Updated(project, request.update) ELSE Unset(project, request.fields)

\* What is asked for in the end, field by field.
Wanted(request) ==
    IF request.op = "set" THEN [f \in DOMAIN request.update |-> Normalized(request.update[f])]
    ELSE [f \in IF "all" \in request.fields THEN ProjectFields ELSE request.fields |-> {}]

FieldValues(f) ==
    LET entries == SUBSET (Texts \union {Blank})
    IN IF f = "name" THEN {v \in entries : Cardinality(v) <= 1} ELSE entries

Set(update) == [op |-> "set", update |-> update]
UnsetRequest(fields) == [op |-> "unset", fields |-> fields]

Updates ==
    UNION {{u \in [fs -> UNION {FieldValues(f) : f \in fs}] : \A f \in fs : u[f] \in FieldValues(f)} :
             fs \in SUBSET ProjectFields \ {{}}}

\* parse_project_update_payload: null is no entry, and an update without fields is refused.
PutRequests == {Set(u) : u \in Updates}

\* parse_project_delete_fields: nothing, an empty list, or all along with fields, is all.
DeleteRequests ==
    {UnsetRequest(fields) : fields \in SUBSET ProjectFields \ {{}}}
    \union {UnsetRequest(fields \union {"all"}) : fields \in SUBSET ProjectFields}

\* The options of project set, unset and clear.
CommandRequests ==
    {Set(u) : u \in {v \in Updates : \A f \in DOMAIN v : v[f] # {}}}
    \union {UnsetRequest(fields) : fields \in SUBSET (ProjectFields \union {"all"}) \ {{}}}

Idle == [step |-> "idle"]
Work(r, todo) == [step |-> "write", request |-> r, todo |-> todo, written |-> <<>>]

Receive(p, r, todo) ==
    /\ writer[p].step \in {"idle", "ended", "failed"} /\ writes < MaxWrites
    /\ writes' = writes + 1
    /\ writer' = [writer EXCEPT ![p] = Work(r, todo)]
    /\ UNCHANGED <<info, readable, stands>>

\* The server is that of the first workspace.
HttpPut(p) == \E r \in PutRequests : Receive(p, r, <<Head(Links)>>)
HttpDelete(p) == \E r \in DeleteRequests : Receive(p, r, <<Head(Links)>>)
CommandHere(p) == \E r \in CommandRequests, w \in Workspaces : Receive(p, r, <<w>>)
CommandEverywhere(p) == \E r \in CommandRequests : Receive(p, r, Links)

\* The next workspace is written, unless its state cannot be loaded, which ends the command.
Write(p) ==
    /\ writer[p].step = "write" /\ writer[p].todo # <<>>
    /\ LET w == Head(writer[p].todo)
           r == writer[p].request
           wanted == Wanted(r)
       IN IF w \in readable
          THEN /\ info' = [info EXCEPT ![w] = Applied(@, r)]
               /\ stands' = [stands EXCEPT ![w] =
                    [f \in ProjectFields |-> IF f \in DOMAIN wanted THEN wanted[f] ELSE @[f]]]
               /\ writer' = [writer EXCEPT ![p].todo = Tail(@), ![p].written = Append(@, w)]
          ELSE /\ writer' = [writer EXCEPT ![p].step = "failed"]
               /\ UNCHANGED <<info, stands>>
    /\ UNCHANGED <<readable, writes>>

Ended(p) ==
    /\ writer[p].step = "write" /\ writer[p].todo = <<>>
    /\ writer' = [writer EXCEPT ![p].step = "ended"]
    /\ UNCHANGED <<info, readable, writes, stands>>

\* Somebody breaks the file of a workspace, or repairs it.
Breaks ==
    /\ \E w \in Workspaces : readable' = IF w \in readable THEN readable \ {w} ELSE readable \union {w}
    /\ UNCHANGED <<info, writer, writes, stands>>

ProjectInit ==
    /\ info = [w \in Workspaces |-> None]
    /\ readable = Workspaces
    /\ writer = [p \in Writers |-> Idle]
    /\ writes = 0
    /\ stands = [w \in Workspaces |-> EmptyProject]

ProjectNext ==
    \/ Breaks
    \/ \E p \in Writers :
         HttpPut(p) \/ HttpDelete(p) \/ CommandHere(p) \/ CommandEverywhere(p) \/ Write(p) \/ Ended(p)

-----------------------------------------------------------------------------

\* Whatever is written at the same time and wherever it fails, each field of each workspace
\* has the value the last write to it has asked for, and a project is only recorded when it
\* has a field.
\* A command that fails has written the workspaces before the one that failed, and
\* one that succeeds all of them.
WritesStand ==
    /\ \A w \in Workspaces :
         IF info[w] = None THEN stands[w] = EmptyProject
         ELSE info[w] = stands[w] /\ info[w] # EmptyProject
    /\ \A p \in Writers :
         writer[p].step \in {"ended", "failed"} =>
           /\ writer[p].step = "ended" <=> writer[p].todo = <<>>
           /\ \E r \in {Links} \union {<<w>> : w \in Workspaces} : r = writer[p].written \o writer[p].todo
=============================================================================
