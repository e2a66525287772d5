----------------------------- MODULE Workspaces ------------------------------
(***************************************************************************)
(* Many workspaces, each with a state file of its own: the registry of      *)
(* links that names them, the index that remembers where a session lives,   *)
(* and the commands that look beyond their own workspace.  Commands run in  *)
(* processes that may be killed at any step; workspaces come and go under   *)
(* them.                                                                    *)
(*                                                                          *)
(* An update of the registry, of the index or of a state file holds the     *)
(* lock of that file and is one step (see StateStore); the files of the     *)
(* registry and of the index are replaced by a rename, like the state file. *)
(***************************************************************************)
EXTENDS Naturals, FiniteSets

CONSTANTS
    Procs,        \* processes of the command line
    Paths, NoPath,
    TempPaths,    \* the paths below a temporary directory
    Ids,          \* session ids
    Prefix,       \* a query that all ids begin with
    Names,
    OwnNames,     \* the names ensure_link_for_workspace may give each path: its
                  \* last component and that with a number
    UserNames,    \* names that users give
    MinLinks, MinMatched, RatioPercent,    \* the thresholds of the automatic prune
    Ops,          \* the commands that are run
    MaxCommands, MaxChanges    \* bounds on the commands, and on the workspaces that go

ASSUME WorkspaceAssumption ==
    /\ NoPath \notin Paths /\ Prefix \notin Ids
    /\ TempPaths \subseteq Paths
    /\ IsFiniteSet(Ids) /\ IsFiniteSet(Paths) /\ IsFiniteSet(Names)
    /\ UserNames \subseteq Names /\ OwnNames \in [Paths -> (SUBSET Names) \ {{}}]
    /\ \A p \in Paths :
         Cardinality({q \in Paths : OwnNames[p] \intersect OwnNames[q] # {}})
           + Cardinality(UserNames \intersect OwnNames[p]) <= Cardinality(OwnNames[p])
    /\ MinLinks \in Nat /\ MinMatched \in Nat /\ RatioPercent \in Nat
    /\ MaxCommands \in Nat /\ MaxChanges \in Nat

VARIABLES
    registry,    \* [Names -> path or NoPath]: links.json
    index,       \* [Ids -> path or NoPath]: session-index.json
    there,       \* the directories that exist
    has,         \* [Paths -> the sessions in the state file]
    proc,        \* what each process is doing
    commands,    \* how many have been run
    changes,     \* how many workspaces have been renamed or deleted
    unlinked,    \* not in the code: paths no command has linked since the link was removed,
                 \* replaced or pruned, or since the directory came from elsewhere
    lost         \* not in the code: paths whose workspaces were deleted or renamed, where
                 \* nobody has worked since

vars == <<registry, index, there, has, proc, commands, changes, unlinked, lost>>

LinkedPaths == {registry[n] : n \in Names} \ {NoPath}

Match(q) == IF q = Prefix THEN Ids ELSE {q}

\* Mutant: an id is new when the index does not have it.
UsedByIndex == {s \in Ids : index[s] # NoPath}

\* Sessions that have been started at some time; ids are never used again.
Used == (UNION {has[p] : p \in Paths}) \union {s \in Ids : index[s] # NoPath}

-----------------------------------------------------------------------------
(* Processes *)

\* `homes', `raced' and `deleted' are not in the code.  homes: the sessions the query means,
\* with their workspaces, that have been where they are since the command began.  raced: names
\* of links that were set, or whose workspaces were worked in, since the prune read them.
Idle == [op |-> "none", at |-> NoPath, step |-> "idle", query |-> Prefix, kinds |-> {},
         todo |-> {}, found |-> {}, path |-> NoPath, id |-> Prefix, stale |-> {}, result |-> "none",
         homes |-> {}, raced |-> {}]

At(c, step) == proc[c].step = step

NamesOf(p) == {n \in Names : registry[n] = p}

\* The commands under way when sessions have left, links to paths are gone, and names set or
\* their workspaces worked in.
Disturb(procs, left, gone, names) ==
    [c \in Procs |->
      [procs[c] EXCEPT !.homes = {h \in @ : h \notin left /\ (h.path = procs[c].at \/ h.path \notin gone)},
                       !.raced = IF procs[c].step = "apply" THEN @ \union names ELSE {}]]

Become(c, r) == proc' = [proc EXCEPT ![c] = r]

\* A load of a state creates the directory where it is missing.
Opens(c, p, r) ==
    /\ there' = there \union {p}
    /\ proc' = Disturb([proc EXCEPT ![c] = r], {}, {}, IF p \in there THEN {} ELSE NamesOf(p))

\* The paths whose links are gone with an update of the registry
Gone(new) == LinkedPaths \ {new[n] : n \in Names}

\* An update of the registry; `linked' are paths that have a link now, `gone' those that
\* somebody has taken the last link of.
Relinks(c, new, linked, gone, r) ==
    /\ registry' = new
    /\ unlinked' = (unlinked \ linked) \union gone
    /\ proc' = Disturb([proc EXCEPT ![c] = r], {}, gone, {n \in Names : new[n] # registry[n]})
    /\ UNCHANGED <<index, there, has, commands, changes, lost>>

Done(r, result) == [r EXCEPT !.step = "done", !.result = result, !.todo = {}, !.found = {}, !.stale = {}]

\* A command with global scope links its workspace first.
FirstStep(op) == IF op \in {"add", "remove", "prune"} THEN op ELSE "link"

AfterLink(op) ==
    CASE op = "start" -> "insert"
      [] op = "control" -> "local"
      [] OTHER -> "prune"

Homes(w, q) ==
    {h \in [id : Match(q), path : Paths] : h.id \in has[h.path] /\ (h.path = w \/ h.path \notin unlinked)}

\* The kinds of stale links a prune is asked for; a command with global scope prunes both.
Kinds(op) == IF op = "prune" THEN {{"missing", "temp"}, {"missing"}, {"temp"}} 
             ELSE {{"missing", "temp"}}

Begin(c, op, w) ==
    /\ At(c, "idle") /\ commands < MaxCommands
    /\ commands' = commands + 1
    /\ \E q \in IF op = "control" THEN Ids \union {Prefix} ELSE {Prefix}, kinds \in Kinds(op) :
         proc' = [proc EXCEPT ![c] =
           [Idle EXCEPT !.op = op, !.at = w, !.step = FirstStep(op), !.query = q, !.kinds = kinds,
                        !.homes = IF op = "control" THEN Homes(w, q) ELSE {}]]
    /\ w \in there /\ lost' = lost \ {w}
    /\ UNCHANGED <<registry, index, there, has, changes, unlinked>>

\* The command has answered.
Answered(c) ==
    /\ At(c, "done")
    /\ proc' = [proc EXCEPT ![c] = Idle]
    /\ UNCHANGED <<registry, index, there, has, commands, changes, unlinked, lost>>

Killed(c) ==
    /\ proc[c].step \notin {"idle", "done"}
    /\ proc' = [proc EXCEPT ![c] = Idle]
    /\ UNCHANGED <<registry, index, there, has, commands, changes, unlinked, lost>>

-----------------------------------------------------------------------------
(* Links *)

\* Mutant: the last component of the path is the name, whoever has it.
FreshNameTaken(w) == CHOOSE n \in OwnNames[w] : \A m \in OwnNames[w] : m = n \/ registry[m] = NoPath

\* One of the names that is free.
FreshName(w) == CHOOSE n \in OwnNames[w] : registry[n] = NoPath

\* Mutant: a workspace whose name is taken counts as linked.
NeedsLinkByName(w) == \A n \in OwnNames[w] : registry[n] = NoPath

NeedsLink(w) == w \notin LinkedPaths

EnsureLink(c) ==
    /\ At(c, "link")
    /\ LET w == proc[c].at IN
         Relinks(c, IF NeedsLink(w) THEN [registry EXCEPT ![FreshName(w)] = w] ELSE registry, {w}, {},
                 [proc[c] EXCEPT !.step = AfterLink(proc[c].op)])

AddLink(c) ==
    /\ At(c, "add")
    /\ \E n \in UserNames, p \in there :
         LET new == [registry EXCEPT ![n] = p] IN Relinks(c, new, {p}, Gone(new), Done(proc[c], "ok"))

RemoveLink(c) ==
    /\ At(c, "remove")
    /\ \E n \in Names :
         LET new == [registry EXCEPT ![n] = NoPath] IN
         Relinks(c, new, {}, Gone(new), Done(proc[c], IF registry[n] = NoPath THEN "no link" ELSE "ok"))

Missing(p) == p \notin there

\* Mutant: what is in a temporary directory is stale.
TemporaryAnyway(p) == p \in TempPaths /\ p \in there

TemporaryEmpty(p) == p \in TempPaths /\ p \in there /\ has[p] = {}

Stale(kinds) ==
    {n \in Names :
      /\ registry[n] # NoPath
      /\ \/ "missing" \in kinds /\ Missing(registry[n])
         \/ "temp" \in kinds /\ TemporaryEmpty(registry[n])}

\* auto_prune_stale_links_for_global_scan leaves a short list, or one with few stale links.
Worthwhile(op, stale) ==
    LET total == Cardinality({n \in Names : registry[n] # NoPath}) IN
    op = "prune" \/ (/\ total >= MinLinks /\ stale # {}
                     /\ \/ Cardinality(stale) * 100 >= total * RatioPercent
                        \/ Cardinality(stale) >= MinMatched)

\* The registry is read, and the directories and state files it leads to.
CollectStale(c) ==
    /\ At(c, "prune")
    /\ LET stale == Stale(proc[c].kinds) IN
       Become(c, IF Worthwhile(proc[c].op, stale) THEN [proc[c] EXCEPT !.step = "apply", !.stale = stale]
                 ELSE [proc[c] EXCEPT !.step = "registry"])
    /\ UNCHANGED <<registry, index, there, has, commands, changes, unlinked, lost>>

\* The links are removed by name, under a lock of its own.
ApplyPrune(c) ==
    /\ At(c, "apply")
    /\ LET new == [n \in Names |-> IF n \in proc[c].stale THEN NoPath ELSE registry[n]] IN
       Relinks(c, new, {}, Gone(new), IF proc[c].op = "prune" THEN Done(proc[c], "ok")
                                      ELSE [proc[c] EXCEPT !.step = "registry", !.stale = {}])

-----------------------------------------------------------------------------
(* Start, and the commands that name a session *)

\* The session is in the state file ...
InsertSession(c) ==
    /\ At(c, "insert")
    /\ \E s \in Ids \ Used :
         /\ has' = [has EXCEPT ![proc[c].at] = @ \union {s}]
         /\ proc' = Disturb([proc EXCEPT ![c].step = "remember", ![c].id = s, ![c].path = proc[c].at],
                            {}, {}, NamesOf(proc[c].at))
    /\ UNCHANGED <<registry, index, there, commands, changes, unlinked, lost>>

\* ... and, if the process gets there, in the index.
Remember(c) ==
    /\ At(c, "remember")
    /\ index' = [index EXCEPT ![proc[c].id] = proc[c].path]
    /\ UNCHANGED <<registry, there, has, commands, changes, unlinked, lost>>
    /\ Become(c, IF proc[c].op = "start" THEN Done(proc[c], "ok") ELSE [proc[c] EXCEPT !.step = "act"])

\* resolve_session_id in the state of p, which the load of a state creates where it is missing
Resolved(c, p, otherwise) ==
    LET ids == has[p] \intersect Match(proc[c].query) IN
    CASE ids = {} -> otherwise
      [] Cardinality(ids) = 1 -> [Done(proc[c], "acted") EXCEPT !.id = CHOOSE s \in ids : TRUE, !.path = p]
      [] OTHER -> Done(proc[c], "ambiguous")

ActLocally(c) ==
    /\ At(c, "local")
    /\ UNCHANGED <<registry, index, there, has, commands, changes, unlinked, lost>>
    /\ Become(c, Resolved(c, proc[c].at, [proc[c] EXCEPT !.step = "lookup"]))

LookUp(c) ==
    /\ At(c, "lookup")
    /\ LET q == proc[c].query IN
         Become(c, IF q \in Ids /\ index[q] # NoPath
                   THEN [proc[c] EXCEPT !.step = "cached", !.path = index[q]]
                   ELSE [proc[c] EXCEPT !.step = "registry"])
    /\ UNCHANGED <<registry, index, there, has, commands, changes, unlinked, lost>>

\* Mutant: the index is believed.
StillThereAnyway(c) == proc[c].path # proc[c].at

StillThere(c) == proc[c].path # proc[c].at /\ proc[c].query \in has[proc[c].path]

\* A workspace the session has left is forgotten, and all are searched.
CheckCached(c) ==
    /\ At(c, "cached")
    /\ Opens(c, proc[c].path, IF StillThere(c) THEN [proc[c] EXCEPT !.step = "act"]
                              ELSE [proc[c] EXCEPT !.step = "forget", !.path = NoPath])
    /\ UNCHANGED <<registry, index, has, commands, changes, unlinked, lost>>

Forget(c) ==
    /\ At(c, "forget")
    /\ index' = [index EXCEPT ![proc[c].query] = NoPath]
    /\ UNCHANGED <<registry, there, has, commands, changes, unlinked, lost>>
    /\ Become(c, [proc[c] EXCEPT !.step = "registry"])

\* A control searches the workspaces but its own; list and cleanup visit all.
ReadRegistry(c) ==
    /\ At(c, "registry")
    /\ Become(c, IF proc[c].op = "control"
                 THEN [proc[c] EXCEPT !.step = "scan", !.todo = LinkedPaths \ {proc[c].at}]
                 ELSE [proc[c] EXCEPT !.step = "visit", !.todo = LinkedPaths])
    /\ UNCHANGED <<registry, index, there, has, commands, changes, unlinked, lost>>

\* Mutant: the first workspace with a match will do.
ChosenFirst(c) == proc[c].found # {}

Chosen(c) == proc[c].todo = {} /\ Cardinality(proc[c].found) = 1

Scan(c) ==
    /\ At(c, "scan") /\ ~Chosen(c)
    /\ \E p \in proc[c].todo :
         LET ids == has[p] \intersect Match(proc[c].query) IN
         Opens(c, p,
              CASE Cardinality(ids) > 1 -> Done(proc[c], "ambiguous")
                [] proc[c].query \in ids -> [proc[c] EXCEPT !.step = "remember", !.id = proc[c].query,
                                                            !.path = p, !.todo = {}]
                [] OTHER -> [proc[c] EXCEPT !.todo = @ \ {p},
                                            !.found = @ \union {[id |-> s, path |-> p] : s \in ids}])
    /\ UNCHANGED <<registry, index, has, commands, changes, unlinked, lost>>

\* Of the workspaces with a match there must be one.
ScanEnds(c) ==
    /\ At(c, "scan")
    /\ Chosen(c) \/ proc[c].todo = {}
    /\ UNCHANGED <<registry, index, there, has, commands, changes, unlinked, lost>>
    /\ Become(c, CASE proc[c].found = {} -> Done(proc[c], "not found")
                   [] Chosen(c) -> LET f == CHOOSE f \in proc[c].found : TRUE IN
                                   [proc[c] EXCEPT !.step = "remember", !.id = f.id, !.path = f.path,
                                                   !.todo = {}, !.found = {}]
                   [] OTHER -> Done(proc[c], "ambiguous"))

\* The command is run again, in the workspace that was found.
ActThere(c) ==
    /\ At(c, "act")
    /\ Opens(c, proc[c].path, Resolved(c, proc[c].path, Done(proc[c], "not found")))
    /\ UNCHANGED <<registry, index, has, commands, changes, unlinked, lost>>

-----------------------------------------------------------------------------
(* List and cleanup of all workspaces *)

Rows(p, ids) == {[id |-> s, path |-> p] : s \in ids}

Collect(c) ==
    /\ At(c, "visit") /\ proc[c].op = "list"
    /\ \E p \in proc[c].todo :
         Opens(c, p, [proc[c] EXCEPT !.todo = @ \ {p}, !.found = @ \union Rows(p, has[p])])
    /\ UNCHANGED <<registry, index, has, commands, changes, unlinked, lost>>

\* Sessions that do not run are removed, unless the cleanup is dry.
Clean(c) ==
    /\ At(c, "visit") /\ proc[c].op = "cleanup"
    /\ \E p \in proc[c].todo : \E ended \in SUBSET has[p] :
         /\ there' = there \union {p}
         /\ has' = [has EXCEPT ![p] = @ \ ended]
         /\ LET r == [proc[c] EXCEPT !.todo = @ \ {p}, !.found = Rows(p, ended),
                                     !.step = IF ended = {} THEN @ ELSE "unmap"] IN
            proc' = Disturb([proc EXCEPT ![c] = r], Rows(p, ended), {},
                            IF p \in there /\ ended = {} THEN {} ELSE NamesOf(p))
    /\ UNCHANGED <<registry, index, commands, changes, unlinked, lost>>

\* remove_session_mappings, whatever workspace the index has for them
Unmap(c) ==
    /\ At(c, "unmap")
    /\ index' = [s \in Ids |-> IF \E f \in proc[c].found : f.id = s THEN NoPath ELSE index[s]]
    /\ UNCHANGED <<registry, there, has, commands, changes, unlinked, lost>>
    /\ Become(c, [proc[c] EXCEPT !.step = "visit", !.found = {}])

\* cache_global_rows_session_routes: one update for each workspace with rows
PublishRows(c) ==
    /\ At(c, "visit") /\ proc[c].op = "list" /\ proc[c].todo = {} /\ proc[c].found # {}
    /\ \E p \in {f.path : f \in proc[c].found} :
         /\ index' = [s \in Ids |-> IF [id |-> s, path |-> p] \in proc[c].found THEN p ELSE index[s]]
         /\ UNCHANGED <<registry, there, has, commands, changes, unlinked, lost>>
         /\ Become(c, [proc[c] EXCEPT !.found = {f \in @ : f.path # p}])

VisitEnds(c) ==
    /\ At(c, "visit") /\ proc[c].todo = {} /\ proc[c].found = {}
    /\ UNCHANGED <<registry, index, there, has, commands, changes, unlinked, lost>>
    /\ Become(c, Done(proc[c], "ok"))

-----------------------------------------------------------------------------
(* Workspaces *)

WorkedIn == {proc[c].at : c \in Procs}

\* A workspace is renamed; its links lead nowhere.
Moves(p, q) ==
    /\ changes < MaxChanges /\ changes' = changes + 1
    /\ p \in there \ WorkedIn /\ q \notin there /\ has[p] # {}
    /\ there' = (there \ {p}) \union {q}
    /\ has' = [has EXCEPT ![p] = {}, ![q] = has[p]]
    /\ unlinked' = unlinked \union {p, q} /\ lost' = (lost \ {q}) \union {p}
    /\ proc' = Disturb(proc, Rows(p, has[p]), {p, q}, NamesOf(q))
    /\ UNCHANGED <<registry, index, commands>>

\* A workspace is deleted.
Deleted(p) ==
    /\ changes < MaxChanges /\ changes' = changes + 1
    /\ p \in there \ WorkedIn
    /\ there' = there \ {p}
    /\ has' = [has EXCEPT ![p] = {}]
    /\ unlinked' = unlinked \union {p} /\ lost' = lost \union {p}
    /\ proc' = Disturb(proc, Rows(p, has[p]), {p}, {})
    /\ UNCHANGED <<registry, index, commands>>

-----------------------------------------------------------------------------

Init ==
    /\ registry = [n \in Names |-> NoPath]
    /\ index = [s \in Ids |-> NoPath]
    /\ there = Paths
    /\ has = [p \in Paths |-> {}]
    /\ proc = [c \in Procs |-> Idle]
    /\ commands = 0 /\ changes = 0
    /\ unlinked = Paths /\ lost = {}

Step(c) ==
    \/ EnsureLink(c) \/ AddLink(c) \/ RemoveLink(c) \/ CollectStale(c) \/ ApplyPrune(c)
    \/ InsertSession(c) \/ Remember(c) \/ ActLocally(c) \/ LookUp(c) \/ CheckCached(c)
    \/ Forget(c) \/ ReadRegistry(c) \/ Scan(c) \/ ScanEnds(c) \/ ActThere(c)
    \/ Collect(c) \/ Clean(c) \/ Unmap(c) \/ PublishRows(c) \/ VisitEnds(c) \/ Answered(c) \/ Killed(c)

Next ==
    \/ \E c \in Procs : Step(c) \/ \E op \in Ops, w \in Paths : Begin(c, op, w)
    \/ \E p, q \in Paths : Moves(p, q)
    \/ \E p \in Paths : Deleted(p)

Spec == Init /\ [][Next]_vars

-----------------------------------------------------------------------------

WorkspaceTypeOK ==
    /\ registry \in [Names -> Paths \union {NoPath}]
    /\ index \in [Ids -> Paths \union {NoPath}]
    /\ there \subseteq Paths /\ has \in [Paths -> SUBSET Ids]
    /\ \A p, q \in Paths : p # q => has[p] \intersect has[q] = {}
    /\ \A p \in Paths \ there : has[p] = {}

\* A session can be named from every workspace: a command does not answer that there is none
\* while a session that fits stays where it is, unless the link to its workspace is taken
\* away; whatever the index says, and whatever the other commands do to it.
FoundAnywhere ==
    \A c \in Procs : At(c, "done") /\ proc[c].result = "not found" => proc[c].homes = {}

\* Beyond its own workspace a command acts on the one session that fits, and on none when
\* sessions of two other workspaces do.
OneTarget ==
    \A c \in Procs :
      At(c, "done") /\ proc[c].result = "acted" /\ proc[c].path # proc[c].at
        => \A h \in proc[c].homes : h = [id |-> proc[c].id, path |-> proc[c].path]

\* Sessions live in one workspace each, and a command finds the one it means.
WorkspaceInv == WorkspaceTypeOK /\ OneTarget

\* A prune only takes links whose workspaces are missing, or temporary and empty, or whose
\* names were set again, or workspaces used, since it looked.
PruneOnlyStale ==
    [][\A c \in Procs : ApplyPrune(c) =>
         \A n \in proc[c].stale \ proc[c].raced :
           registry[n] # NoPath => registry[n] \notin there \/ (registry[n] \in TempPaths /\ has[registry[n]] = {})]_vars

\* A prune that looks for missing workspaces takes the links to those that were deleted, where
\* nobody has worked since.
MissingLinksGo ==
    [][\A c \in Procs :
         CollectStale(c) /\ proc[c].op = "prune" /\ "missing" \in proc[c].kinds
           => {n \in Names : registry[n] \in lost} \subseteq proc'[c].stale]_vars
=============================================================================
