--------------------------- MODULE WorkspacesProofs ---------------------------
(***************************************************************************)
(* Proofs about Workspaces, for any number of workspaces, sessions, names   *)
(* and processes: a session is found from everywhere, commands act on the   *)
(* one that was meant, and a prune takes stale links only.                  *)
(***************************************************************************)
EXTENDS Workspaces, FiniteSetTheorems, TLAPS

-----------------------------------------------------------------------------
(* The inductive invariant *)

Places == [id : Ids, path : Paths]

Steps == {"idle", "link", "add", "remove", "prune", "apply", "insert", "remember", "local", "lookup",
          "cached", "forget", "registry", "scan", "act", "visit", "unmap", "done"}

Results == {"none", "ok", "no link", "not found", "ambiguous", "acted"}

Tasks ==
    [op : Ops \union {"none"}, at : Paths \union {NoPath}, step : Steps, query : Ids \union {Prefix},
     kinds : SUBSET {"missing", "temp"}, todo : SUBSET Paths, found : SUBSET Places,
     path : Paths \union {NoPath}, id : Ids \union {Prefix}, stale : SUBSET Names, result : Results,
     homes : SUBSET Places, raced : SUBSET Names]

\* A name that users do not give belongs to a path that it is made from, which has no other.
OwnLinks ==
    /\ \A n \in Names \ UserNames : registry[n] # NoPath => n \in OwnNames[registry[n]]
    /\ \A m, n \in Names \ UserNames : registry[m] # NoPath /\ registry[m] = registry[n] => m = n

Linked == \A p \in Paths \ unlinked : p \in LinkedPaths

\* The sessions that a control means are in their workspaces, which are linked, or its own.
AtHome(r) ==
    /\ r.op # "control" => r.homes = {}
    /\ \A h \in r.homes :
         /\ h.id \in Match(r.query) /\ h.id \in has[h.path]
         /\ h.path = r.at \/ h.path \in LinkedPaths

\* Steps that a control does not take
Elsewhere == {"prune", "apply", "visit", "unmap", "insert", "add", "remove"}

\* What is known at each step: once its own workspace has been left, and the others are
\* scanned, what the control means is in the rest of them or has been found.
Found(r) ==
    /\ r.step \in Elsewhere => r.op # "control"
    /\ r.step \in {"lookup", "cached", "forget", "registry"} => \A h \in r.homes : h.path # r.at
    /\ r.step = "scan" => \A h \in r.homes : h.path \in r.todo \/ h \in r.found
    /\ r.step \in {"remember", "act"} => \A h \in r.homes : h.path = r.path
    /\ r.step = "done" /\ r.result = "not found" => r.homes = {}
    /\ r.step = "done" /\ r.result = "acted" /\ r.path # r.at
         => \A h \in r.homes : h = [id |-> r.id, path |-> r.path]

\* A link is stale.
IsStale(n) == registry[n] \notin there \/ (registry[n] \in TempPaths /\ has[registry[n]] = {})

StillStale(r) == r.step = "apply" => \A n \in r.stale \ r.raced : registry[n] # NoPath => IsStale(n)

Sound(r) ==
    /\ r \in Tasks
    /\ r.step # "idle" => r.at \in there
    /\ r.step \in {"cached", "remember", "act"} => r.path \in Paths
    /\ AtHome(r) /\ Found(r) /\ StillStale(r)

AllSound == \A c \in Procs : Sound(proc[c])

ProcInv == proc \in [Procs -> Tasks] /\ AllSound

FindInv == WorkspaceTypeOK /\ OwnLinks /\ Linked /\ ProcInv

-----------------------------------------------------------------------------
(* Names *)

\* There is a free name for a workspace without a link: each name of its own that is taken
\* is a user's, or leads to another workspace with a name in common, a different one each.
LEMMA FreeName ==
    ASSUME WorkspaceTypeOK, OwnLinks, NEW w \in Paths, NeedsLink(w)
    PROVE  FreshName(w) \in OwnNames[w] /\ FreshName(w) \in Names /\ registry[FreshName(w)] = NoPath
<1> DEFINE own == OwnNames[w]
           near == {q \in Paths : OwnNames[w] \intersect OwnNames[q] # {}}
           taken == own \ UserNames
<1>1. /\ own \in SUBSET Names /\ own # {} /\ IsFiniteSet(Names) /\ IsFiniteSet(Paths)
      /\ Cardinality(near) + Cardinality(UserNames \intersect own) <= Cardinality(own)
    BY WorkspaceAssumption
<1>2. IsFiniteSet(own) /\ IsFiniteSet(near) /\ w \in near
    <2>1. IsFiniteSet(own)
        BY <1>1, FS_Subset
    <2>2. IsFiniteSet(near)
        BY <1>1, FS_Subset
    <2> QED
        BY <1>1, <2>1, <2>2
<1>3. IsFiniteSet(near \ {w}) /\ Cardinality(near \ {w}) = Cardinality(near) - 1
    BY <1>2, FS_RemoveElement
<1>4. Cardinality(taken) = Cardinality(own) - Cardinality(UserNames \intersect own)
    <2>1. Cardinality(taken) = Cardinality(own) - Cardinality(own \intersect UserNames)
        BY <1>2, FS_Difference
    <2>2. own \intersect UserNames = UserNames \intersect own
        OBVIOUS
    <2> QED
        BY <2>1, <2>2
<1>5. /\ Cardinality(near) \in Nat /\ Cardinality(own) \in Nat
      /\ Cardinality(UserNames \intersect own) \in Nat
    <2>1. IsFiniteSet(UserNames \intersect own)
        BY <1>2, FS_Subset
    <2> QED
        BY <1>2, <2>1, FS_CardinalityType
<1>6. \E n \in own : registry[n] = NoPath
    <2> SUFFICES ASSUME \A n \in own : registry[n] # NoPath PROVE FALSE
        OBVIOUS
    <2> DEFINE f == [n \in taken |-> registry[n]]
    <2>1. \A n \in taken : registry[n] \in near \ {w}
        BY <1>1 DEF OwnLinks, NeedsLink, LinkedPaths, WorkspaceTypeOK
    <2>2. f \in Injection(taken, near \ {w})
        BY <1>1, <2>1 DEF Injection, IsInjective, OwnLinks
    <2>3. Cardinality(taken) <= Cardinality(near \ {w})
        BY <1>3, <2>2, FS_Injection
    <2> QED
        BY <1>1, <1>3, <1>4, <1>5, <2>3
<1> QED
    BY <1>1, <1>6 DEF FreshName

-----------------------------------------------------------------------------
(* What a step does to the commands under way *)

LEMMA StillSound ==
    ASSUME NEW c \in Procs, Sound(proc'[c]), UNCHANGED <<registry, there, has>>
    PROVE  Sound(proc[c])'
<1>1. ASSUME NEW q, Sound(q), q = proc'[c] PROVE Sound(proc[c])'
    <2>1. AtHome(q)' /\ StillStale(q)'
        BY <1>1 DEF Sound, AtHome, StillStale, IsStale, LinkedPaths
    <2>2. AtHome(proc[c])' /\ StillStale(proc[c])' /\ Found(proc[c])'
        BY <1>1, <2>1 DEF Sound, AtHome, StillStale, Found
    <2> QED
        BY <1>1, <2>2 DEF Sound
<1> QED
    BY <1>1

\* A step that only moves one process on.
LEMMA Quiet ==
    ASSUME FindInv, NEW c \in Procs, NEW r, Sound(r), Become(c, r),
           UNCHANGED <<registry, there, has, unlinked>>, index' \in [Ids -> Paths \union {NoPath}]
    PROVE  FindInv'
<1>1. proc' \in [Procs -> Tasks] /\ \A d \in Procs : proc'[d] = IF d = c THEN r ELSE proc[d]
    BY DEF FindInv, ProcInv, Sound, Become
<1>2. \A d \in Procs : Sound(proc'[d])
    BY <1>1 DEF FindInv, ProcInv, AllSound
<1>3. AllSound'
    <2> SUFFICES ASSUME NEW d \in Procs PROVE Sound(proc[d])'
        BY DEF AllSound
    <2> QED
        BY <1>2, StillSound
<1>4. WorkspaceTypeOK' /\ OwnLinks' /\ Linked'
    BY DEF FindInv, WorkspaceTypeOK, OwnLinks, Linked, LinkedPaths
<1> QED
    BY <1>1, <1>3, <1>4 DEF FindInv, ProcInv

\* What the commands under way are told of a step is enough.
Told(procs, left, gone, names) ==
    /\ LinkedPaths \ LinkedPaths' \subseteq gone
    /\ \A p \in Paths : \A s \in has[p] \ has'[p] : [id |-> s, path |-> p] \in left
    /\ \A c \in Procs : procs[c].step # "idle" => procs[c].at \in there'
    /\ \A n \in Names \ names : registry'[n] # NoPath =>
         registry[n] = registry'[n] /\ (IsStale(n) => IsStale(n)')

LEMMA Carry ==
    ASSUME NEW procs \in [Procs -> Tasks], \A c \in Procs : Sound(procs[c]),
           NEW left, NEW gone, NEW names \in SUBSET Names,
           proc' = Disturb(procs, left, gone, names), Told(procs, left, gone, names)
    PROVE  ProcInv'
<1> DEFINE After(r) == [r EXCEPT !.homes = {h \in @ : h \notin left /\ (h.path = r.at \/ h.path \notin gone)},
                                 !.raced = IF r.step = "apply" THEN @ \union names ELSE {}]
<1>1. \A c \in Procs : proc'[c] = After(procs[c])
    BY DEF Disturb
<1>2. ASSUME NEW c \in Procs PROVE Sound(proc[c])'
    <2> DEFINE r == procs[c]
               q == After(r)
    <2>1. /\ r \in Tasks /\ AtHome(r) /\ Found(r) /\ StillStale(r)
          /\ r.step # "idle" => r.at \in there'
          /\ r.step \in {"cached", "remember", "act"} => r.path \in Paths
        BY DEF Sound, Told
    <2>2. /\ q \in Tasks
          /\ q.op = r.op /\ q.at = r.at /\ q.step = r.step /\ q.query = r.query /\ q.todo = r.todo
          /\ q.found = r.found /\ q.path = r.path /\ q.id = r.id /\ q.result = r.result /\ q.stale = r.stale
          /\ q.homes = {h \in r.homes : h \notin left /\ (h.path = r.at \/ h.path \notin gone)}
          /\ q.step = "apply" => q.raced = r.raced \union names
        <3> DEFINE homes == {h \in r.homes : h \notin left /\ (h.path = r.at \/ h.path \notin gone)}
                   raced == IF r.step = "apply" THEN r.raced \union names ELSE {}
                   new == [r EXCEPT !.homes = homes, !.raced = raced]
        <3>1. /\ r \in Tasks /\ homes \subseteq r.homes /\ q = new
              /\ r.step = "apply" => raced = r.raced \union names
              /\ r.step # "apply" => raced = {}
            BY <2>1
        <3>0. homes = {h \in r.homes : h \notin left /\ (h.path = r.at \/ h.path \notin gone)}
            OBVIOUS
        <3> HIDE DEF r, q, After, homes, raced
        <3>2. new \in Tasks
            BY <3>1 DEF Tasks
        <3>3. /\ new.op = r.op /\ new.at = r.at /\ new.step = r.step /\ new.query = r.query
              /\ new.todo = r.todo /\ new.found = r.found /\ new.path = r.path /\ new.id = r.id
              /\ new.result = r.result /\ new.stale = r.stale /\ new.homes = homes /\ new.raced = raced
            BY <3>1 DEF Tasks
        <3> HIDE DEF new
        <3> QED
            BY <3>0, <3>1, <3>2, <3>3
    <2> HIDE DEF q, r, After
    <2>3. AtHome(q)'
        <3>1. ASSUME NEW h \in q.homes
              PROVE  /\ h.id \in Match(q.query) /\ h.id \in has'[h.path]
                     /\ h.path = q.at \/ h.path \in LinkedPaths'
            <4>1. h \in r.homes /\ h \notin left /\ (h.path = r.at \/ h.path \notin gone) /\ h \in Places
                BY <2>1, <2>2 DEF Tasks
            <4>2. h.id \in Match(r.query) /\ h.id \in has[h.path] /\ (h.path = r.at \/ h.path \in LinkedPaths)
                BY <2>1, <4>1 DEF AtHome
            <4>3. h = [id |-> h.id, path |-> h.path] /\ h.path \in Paths
                BY <4>1 DEF Places
            <4> QED
                BY <2>2, <4>1, <4>2, <4>3 DEF Told
        <3> QED
            BY <2>1, <2>2, <3>1 DEF AtHome
    <2>4. Found(q)
        BY <2>1, <2>2 DEF Found
    <2>5. StillStale(q)'
        BY <2>1, <2>2 DEF StillStale, Told, Tasks
    <2>6. proc'[c] = q
        BY <1>1 DEF q, r
    <2>7. Found(proc'[c]) /\ StillStale(proc[c])' /\ AtHome(proc[c])'
        BY <2>3, <2>4, <2>5, <2>6 DEF StillStale, AtHome
    <2> QED
        BY <2>1, <2>2, <2>6, <2>7 DEF Sound, Found
<1>3. proc' \in [Procs -> Tasks]
    <2>1. \A c \in Procs : proc'[c] \in Tasks
        BY <1>2 DEF Sound
    <2> QED
        BY <2>1 DEF Disturb
<1> QED
    BY <1>2, <1>3 DEF ProcInv, AllSound

LEMMA ProcSound ==
    ASSUME FindInv, NEW c \in Procs
    PROVE  proc[c] \in Tasks /\ Sound(proc[c])
BY DEF FindInv, ProcInv, AllSound

LEMMA OnePlace ==
    ASSUME FindInv, NEW p \in Paths, NEW q \in Paths, NEW s \in has[p], s \in has[q]
    PROVE  p = q
<1>1. p # q => has[p] \intersect has[q] = {}
    BY DEF FindInv, WorkspaceTypeOK
<1> QED
    BY <1>1

LEMMA Replaced ==
    ASSUME FindInv, NEW c \in Procs, NEW r, Sound(r)
    PROVE  /\ [proc EXCEPT ![c] = r] \in [Procs -> Tasks]
           /\ \A d \in Procs : Sound([proc EXCEPT ![c] = r][d])
<1>1. proc \in [Procs -> Tasks] /\ r \in Tasks /\ \A d \in Procs : Sound(proc[d])
    BY DEF FindInv, ProcInv, AllSound, Sound
<1>2. \A d \in Procs : [proc EXCEPT ![c] = r][d] = IF d = c THEN r ELSE proc[d]
    BY <1>1
<1> QED
    BY <1>1, <1>2

\* A command that goes on to another step means the same sessions.
LEMMA Onward ==
    ASSUME FindInv, NEW c \in Procs, proc[c].step # "idle", NEW r \in Tasks,
           r.op = proc[c].op, r.at = proc[c].at, r.query = proc[c].query, r.homes = proc[c].homes,
           r.step \in {"cached", "remember", "act"} => r.path \in Paths,
           Found(r), StillStale(r)
    PROVE  Sound(r)
BY ProcSound DEF Sound, AtHome

LEMMA AsDone ==
    ASSUME NEW r \in Tasks, NEW result \in Results
    PROVE  LET d == Done(r, result) IN
           /\ d \in Tasks /\ d.op = r.op /\ d.at = r.at /\ d.query = r.query /\ d.homes = r.homes
           /\ d.step = "done" /\ d.result = result
BY DEF Done, Tasks, Steps

\* A command that has ended without a word about sessions
LEMMA DoneSound ==
    ASSUME FindInv, NEW c \in Procs, proc[c].step # "idle", NEW result \in Results,
           result \in {"not found", "acted"} => proc[c].homes = {}
    PROVE  Sound(Done(proc[c], result))
<1> DEFINE r == Done(proc[c], result)
<1>1. Sound(proc[c]) /\ proc[c] \in Tasks
    BY ProcSound
<1>2. /\ r \in Tasks /\ r.op = proc[c].op /\ r.at = proc[c].at /\ r.query = proc[c].query
      /\ r.homes = proc[c].homes /\ r.step = "done" /\ r.result = result
    BY <1>1, AsDone
<1> HIDE DEF r
<1>3. Sound(r)
    BY <1>1, <1>2 DEF Sound, AtHome, Found, StillStale, Elsewhere
<1> QED
    BY <1>3 DEF r

LEMMA RelinksKeep ==
    ASSUME FindInv, NEW c \in Procs, NEW new \in [Names -> Paths \union {NoPath}], NEW linked, NEW gone, NEW r,
           Relinks(c, new, linked, gone, r), Sound(r), Gone(new) \subseteq gone,
           linked \subseteq {new[n] : n \in Names}, OwnLinks'
    PROVE  FindInv'
<1> DEFINE procs == [proc EXCEPT ![c] = r]
           names == {n \in Names : new[n] # registry[n]}
<1>1. registry' = new /\ UNCHANGED <<index, there, has>> /\ unlinked' = (unlinked \ linked) \union gone
      /\ proc' = Disturb(procs, {}, gone, names)
    BY DEF Relinks
<1>2. procs \in [Procs -> Tasks] /\ \A d \in Procs : Sound(procs[d])
    BY Replaced
<1> HIDE DEF procs
<1>3. Told(procs, {}, gone, names)
    <2>1. LinkedPaths \ LinkedPaths' \subseteq gone
        BY <1>1 DEF LinkedPaths, Gone
    <2>2. \A d \in Procs : procs[d].step # "idle" => procs[d].at \in there'
        BY <1>1, <1>2 DEF Sound
    <2>3. \A n \in Names \ names : registry'[n] # NoPath =>
            registry[n] = registry'[n] /\ (IsStale(n) => IsStale(n)')
        BY <1>1 DEF IsStale
    <2> QED
        BY <1>1, <2>1, <2>2, <2>3 DEF Told
<1>4. ProcInv'
    BY <1>1, <1>2, <1>3, Carry
<1>5. WorkspaceTypeOK'
    BY <1>1 DEF FindInv, WorkspaceTypeOK
<1>6. Linked'
    <2> SUFFICES ASSUME NEW q \in Paths, q \notin unlinked' PROVE q \in LinkedPaths'
        BY DEF Linked
    <2>1. q \in LinkedPaths \/ q \in linked
        BY <1>1 DEF FindInv, Linked
    <2> QED
        BY <1>1, <2>1, WorkspaceAssumption DEF LinkedPaths, Gone
<1> QED
    BY <1>4, <1>5, <1>6 DEF FindInv

LEMMA OpensKeep ==
    ASSUME FindInv, NEW c \in Procs, NEW p \in Paths, NEW r, Opens(c, p, r), Sound(r),
           UNCHANGED <<registry, index, has, unlinked>>
    PROVE  FindInv'
<1> DEFINE procs == [proc EXCEPT ![c] = r]
           names == IF p \in there THEN {} ELSE NamesOf(p)
<1>1. there' = there \union {p} /\ proc' = Disturb(procs, {}, {}, names) /\ names \in SUBSET Names
    BY DEF Opens, NamesOf
<1>2. procs \in [Procs -> Tasks] /\ \A d \in Procs : Sound(procs[d])
    BY Replaced
<1> HIDE DEF procs
<1>3. Told(procs, {}, {}, names)
    <2>1. \A d \in Procs : procs[d].step # "idle" => procs[d].at \in there'
        BY <1>1, <1>2 DEF Sound
    <2>2. \A n \in Names \ names : registry'[n] # NoPath =>
            registry[n] = registry'[n] /\ (IsStale(n) => IsStale(n)')
        BY <1>1 DEF IsStale, NamesOf
    <2> QED
        BY <1>1, <2>1, <2>2 DEF Told, LinkedPaths
<1>4. ProcInv'
    BY <1>1, <1>2, <1>3, Carry
<1> QED
    BY <1>1, <1>4 DEF FindInv, WorkspaceTypeOK, OwnLinks, Linked, LinkedPaths

-----------------------------------------------------------------------------
(* Links *)

LEMMA EnsureLinkKeeps ==
    ASSUME FindInv, NEW c \in Procs, EnsureLink(c)
    PROVE  FindInv'
<1> DEFINE w == proc[c].at
           new == IF NeedsLink(w) THEN [registry EXCEPT ![FreshName(w)] = w] ELSE registry
           r == [proc[c] EXCEPT !.step = AfterLink(proc[c].op)]
<1>1. proc[c] \in Tasks /\ Sound(proc[c]) /\ proc[c].step = "link" /\ w \in there /\ w \in Paths
    BY ProcSound DEF EnsureLink, At, Sound, FindInv, WorkspaceTypeOK
<1>2. Sound(r)
    <2>1. /\ AfterLink(proc[c].op) \in {"insert", "local", "prune"}
          /\ AfterLink(proc[c].op) \in {"insert", "prune"} => proc[c].op # "control"
        BY DEF AfterLink
    <2> DEFINE step == AfterLink(proc[c].op)
    <2> HIDE DEF step
    <2>2. r = [proc[c] EXCEPT !.step = step]
        BY DEF step
    <2> HIDE DEF r
    <2>3. r \in Tasks /\ r.op = proc[c].op /\ r.at = proc[c].at /\ r.query = proc[c].query
          /\ r.homes = proc[c].homes /\ r.step = step
        BY <1>1, <2>1, <2>2 DEF Tasks, Steps, step
    <2>4. Found(r) /\ StillStale(r)
        BY <2>1, <2>3 DEF Found, StillStale, Elsewhere, step
    <2> QED
        BY <1>1, <2>1, <2>3, <2>4, Onward DEF step
<1>3. registry \in [Names -> Paths \union {NoPath}] /\ NoPath \notin Paths
    BY WorkspaceAssumption DEF FindInv, WorkspaceTypeOK
<1>4. NeedsLink(w) => FreshName(w) \in OwnNames[w] /\ FreshName(w) \in Names /\ registry[FreshName(w)] = NoPath
    BY <1>1, FreeName DEF FindInv
<1> HIDE DEF r, w
<1>5. new \in [Names -> Paths \union {NoPath}] /\ Gone(new) = {} /\ {w} \subseteq {new[n] : n \in Names}
    <2>1. CASE NeedsLink(w)
        <3>1. \A n \in Names : new[n] = IF n = FreshName(w) THEN w ELSE registry[n]
            BY <1>3, <2>1
        <3>2. \A n \in Names : registry[n] # NoPath => new[n] = registry[n]
            BY <1>4, <2>1, <3>1
        <3> QED
            BY <1>1, <1>3, <1>4, <2>1, <3>1, <3>2 DEF Gone, LinkedPaths
    <2>2. CASE ~NeedsLink(w)
        BY <1>3, <2>2 DEF Gone, LinkedPaths, NeedsLink
    <2> QED
        BY <2>1, <2>2
<1>6. Relinks(c, new, {w}, {}, r)
    BY DEF EnsureLink, r, w
<1>7. OwnLinks'
    <2>1. registry' = new
        BY <1>6 DEF Relinks
    <2>2. CASE NeedsLink(w)
        <3>1. \A n \in Names : new[n] = IF n = FreshName(w) THEN w ELSE registry[n]
            BY <1>3, <2>2
        <3>2. \A n \in Names : registry[n] # w
            BY <1>1, <1>3, <2>2 DEF NeedsLink, LinkedPaths
        <3> QED
            BY <1>1, <1>3, <1>4, <2>1, <2>2, <3>1, <3>2 DEF OwnLinks, FindInv
    <2>3. CASE ~NeedsLink(w)
        BY <2>1, <2>3 DEF OwnLinks, FindInv
    <2> QED
        BY <2>2, <2>3
<1> HIDE DEF new
<1> QED
    BY <1>2, <1>5, <1>6, <1>7, RelinksKeep

LEMMA AddLinkKeeps ==
    ASSUME FindInv, NEW c \in Procs, AddLink(c)
    PROVE  FindInv'
<1>1. PICK n \in UserNames, p \in there :
        LET new == [registry EXCEPT ![n] = p] IN Relinks(c, new, {p}, Gone(new), Done(proc[c], "ok"))
    BY DEF AddLink
<1> DEFINE new == [registry EXCEPT ![n] = p]
<1>2. registry \in [Names -> Paths \union {NoPath}] /\ p \in Paths /\ n \in Names
    BY WorkspaceAssumption DEF FindInv, WorkspaceTypeOK
<1>3. new \in [Names -> Paths \union {NoPath}] /\ \A m \in Names : new[m] = IF m = n THEN p ELSE registry[m]
    BY <1>2
<1> HIDE DEF new
<1>4. Relinks(c, new, {p}, Gone(new), Done(proc[c], "ok"))
    BY <1>1 DEF new
<1>5. OwnLinks'
    BY <1>3, <1>4 DEF Relinks, OwnLinks, FindInv
<1>6. Sound(Done(proc[c], "ok"))
    BY DoneSound DEF AddLink, At, Results
<1>7. {p} \subseteq {new[m] : m \in Names}
    BY <1>2, <1>3
<1> QED
    BY <1>3, <1>4, <1>5, <1>6, <1>7, RelinksKeep

\* A step that takes links away
LEMMA UnlinksKeep ==
    ASSUME FindInv, NEW c \in Procs, NEW new, NEW r, Sound(r), Relinks(c, new, {}, Gone(new), r),
           new \in [Names -> Paths \union {NoPath}], \A n \in Names : new[n] \in {registry[n], NoPath}
    PROVE  FindInv'
<1>1. OwnLinks'
    BY DEF Relinks, OwnLinks, FindInv
<1> QED
    BY <1>1, RelinksKeep

LEMMA RemoveLinkKeeps ==
    ASSUME FindInv, NEW c \in Procs, RemoveLink(c)
    PROVE  FindInv'
<1>1. PICK n \in Names :
        LET new == [registry EXCEPT ![n] = NoPath] IN
        Relinks(c, new, {}, Gone(new), Done(proc[c], IF registry[n] = NoPath THEN "no link" ELSE "ok"))
    BY DEF RemoveLink
<1> DEFINE new == [registry EXCEPT ![n] = NoPath]
           result == IF registry[n] = NoPath THEN "no link" ELSE "ok"
<1>2. new \in [Names -> Paths \union {NoPath}] /\ \A m \in Names : new[m] \in {registry[m], NoPath}
    BY DEF FindInv, WorkspaceTypeOK
<1>3. result \in Results /\ result \notin {"not found", "acted"}
    BY DEF Results
<1>4. Relinks(c, new, {}, Gone(new), Done(proc[c], result))
    BY <1>1
<1> HIDE DEF new, result
<1>5. Sound(Done(proc[c], result))
    BY <1>3, DoneSound DEF RemoveLink, At
<1> QED
    BY <1>2, <1>4, <1>5, UnlinksKeep

LEMMA ApplyPruneKeeps ==
    ASSUME FindInv, NEW c \in Procs, ApplyPrune(c)
    PROVE  FindInv'
<1> DEFINE new == [n \in Names |-> IF n \in proc[c].stale THEN NoPath ELSE registry[n]]
           r == IF proc[c].op = "prune" THEN Done(proc[c], "ok")
                ELSE [proc[c] EXCEPT !.step = "registry", !.stale = {}]
<1>1. new \in [Names -> Paths \union {NoPath}] /\ \A m \in Names : new[m] \in {registry[m], NoPath}
    BY DEF FindInv, WorkspaceTypeOK
<1>2. Relinks(c, new, {}, Gone(new), r)
    BY DEF ApplyPrune
<1>3. Sound(proc[c]) /\ proc[c] \in Tasks /\ proc[c].step = "apply"
    BY ProcSound DEF ApplyPrune, At
<1>4. Sound(Done(proc[c], "ok"))
    BY <1>3, DoneSound DEF Results
<1>5. Sound([proc[c] EXCEPT !.step = "registry", !.stale = {}])
    <2> DEFINE q == [proc[c] EXCEPT !.step = "registry", !.stale = {}]
    <2>1. q \in Tasks /\ q.op = proc[c].op /\ q.at = proc[c].at /\ q.query = proc[c].query
          /\ q.homes = proc[c].homes /\ q.step = "registry"
        BY <1>3 DEF Tasks, Steps
    <2> HIDE DEF q
    <2>2. proc[c].op # "control" /\ proc[c].homes = {}
        BY <1>3 DEF Sound, AtHome, Found, Elsewhere
    <2>3. Found(q) /\ StillStale(q)
        BY <2>1, <2>2 DEF Found, StillStale, Elsewhere
    <2>4. Sound(q)
        BY <1>3, <2>1, <2>3, Onward
    <2> QED
        BY <2>4 DEF q
<1>6. Sound(r)
    BY <1>4, <1>5
<1> HIDE DEF new, r
<1> QED
    BY <1>1, <1>2, <1>6, UnlinksKeep

LEMMA CollectStaleKeeps ==
    ASSUME FindInv, NEW c \in Procs, CollectStale(c)
    PROVE  FindInv'
<1> DEFINE stale == Stale(proc[c].kinds)
           r == IF Worthwhile(proc[c].op, stale) THEN [proc[c] EXCEPT !.step = "apply", !.stale = stale]
                ELSE [proc[c] EXCEPT !.step = "registry"]
<1>1. Sound(proc[c]) /\ proc[c] \in Tasks /\ proc[c].step = "prune"
    BY ProcSound DEF CollectStale, At
<1>2. stale \in SUBSET Names /\ \A n \in stale : IsStale(n)
    BY DEF Stale, IsStale, Missing, TemporaryEmpty
<1> HIDE DEF stale
<1>3. proc[c].op # "control" /\ proc[c].homes = {}
    BY <1>1 DEF Sound, AtHome, Found, Elsewhere
<1>4. /\ r \in Tasks /\ r.op = proc[c].op /\ r.at = proc[c].at /\ r.query = proc[c].query
      /\ r.homes = proc[c].homes
      /\ \/ r.step = "apply" /\ r.stale = stale
         \/ r.step = "registry"
    <2> DEFINE old == proc[c]
               a == [old EXCEPT !.step = "apply", !.stale = stale]
               b == [old EXCEPT !.step = "registry"]
    <2>1. old \in Tasks /\ {"apply", "registry"} \subseteq Steps /\ (r = a \/ r = b)
        BY <1>1 DEF Steps
    <2> HIDE DEF old, r
    <2>2. a \in Tasks /\ b \in Tasks
        BY <1>2, <2>1 DEF Tasks
    <2>3. /\ a.op = old.op /\ a.at = old.at /\ a.query = old.query /\ a.homes = old.homes
          /\ a.step = "apply" /\ a.stale = stale
        BY <2>1 DEF Tasks
    <2>4. /\ b.op = old.op /\ b.at = old.at /\ b.query = old.query /\ b.homes = old.homes
          /\ b.step = "registry"
        BY <2>1 DEF Tasks
    <2> HIDE DEF a, b
    <2> QED
        BY <2>1, <2>2, <2>3, <2>4 DEF old
<1>5. Sound(r)
    <2> HIDE DEF r
    <2>1. Found(r) /\ StillStale(r)
        BY <1>2, <1>3, <1>4 DEF Found, StillStale, Elsewhere
    <2> QED
        BY <1>1, <1>4, <2>1, Onward
<1>6. Become(c, r) /\ UNCHANGED <<registry, there, has, unlinked, index>>
    BY DEF CollectStale, stale
<1>7. index \in [Ids -> Paths \union {NoPath}]
    BY DEF FindInv, WorkspaceTypeOK
<1> HIDE DEF r
<1> QED
    BY <1>5, <1>6, <1>7, Quiet

-----------------------------------------------------------------------------
(* Commands that begin and end *)

LEMMA IdleSound == Idle \in Tasks /\ Sound(Idle)
<1>1. Idle \in Tasks
    BY DEF Idle, Tasks, Steps, Results
<1> QED
    BY <1>1 DEF Idle, Sound, AtHome, Found, StillStale, Elsewhere

LEMMA BeginKeeps ==
    ASSUME FindInv, NEW c \in Procs, NEW op \in Ops, NEW w \in Paths, Begin(c, op, w)
    PROVE  FindInv'
<1>1. PICK q \in IF op = "control" THEN Ids \union {Prefix} ELSE {Prefix}, kinds \in Kinds(op) :
        Become(c, [Idle EXCEPT !.op = op, !.at = w, !.step = FirstStep(op), !.query = q, !.kinds = kinds,
                               !.homes = IF op = "control" THEN Homes(w, q) ELSE {}])
    BY DEF Begin, Become
<1> DEFINE homes == IF op = "control" THEN Homes(w, q) ELSE {}
           r == [Idle EXCEPT !.op = op, !.at = w, !.step = FirstStep(op), !.query = q, !.kinds = kinds,
                             !.homes = homes]
<1>2. q \in Ids \union {Prefix} /\ kinds \in SUBSET {"missing", "temp"}
    BY <1>1 DEF Kinds
<1>3. Match(q) \subseteq Ids
    BY <1>2 DEF Match
<1>4. homes \in SUBSET Places
    BY <1>3 DEF Homes, Places
<1>5. /\ op # "control" => homes = {}
      /\ \A h \in homes : /\ h.id \in Match(q) /\ h.id \in has[h.path]
                          /\ h.path = w \/ h.path \in LinkedPaths
    BY DEF Homes, FindInv, Linked
<1>6. /\ FirstStep(op) \in {"link", "add", "remove", "prune"}
      /\ FirstStep(op) # "link" => op # "control"
    BY DEF FirstStep
<1> HIDE DEF homes
<1>7. r \in Tasks /\ r.op = op /\ r.at = w /\ r.step = FirstStep(op) /\ r.query = q /\ r.homes = homes
    <2>1. Idle \in Tasks /\ FirstStep(op) \in Steps
        BY <1>6, IdleSound DEF Steps
    <2>2. r \in Tasks
        BY <1>2, <1>4, <2>1 DEF Tasks
    <2>3. r.op = op /\ r.at = w /\ r.step = FirstStep(op) /\ r.query = q /\ r.homes = homes
        BY <2>1 DEF Tasks
    <2> HIDE DEF r
    <2> QED
        BY <2>2, <2>3
<1>8. Become(c, r) /\ UNCHANGED <<registry, there, has, unlinked, index>> /\ w \in there
    BY <1>1 DEF Begin, homes
<1> HIDE DEF r
<1>9. Sound(r)
    <2>1. AtHome(r)
        BY <1>5, <1>7 DEF AtHome
    <2>2. Found(r) /\ StillStale(r)
        BY <1>6, <1>7 DEF Found, StillStale, Elsewhere
    <2> QED
        BY <1>6, <1>7, <1>8, <2>1, <2>2 DEF Sound
<1> QED
    BY <1>8, <1>9, Quiet DEF FindInv, WorkspaceTypeOK

LEMMA EndKeeps ==
    ASSUME FindInv, NEW c \in Procs, Answered(c) \/ Killed(c)
    PROVE  FindInv'
<1>1. Become(c, Idle) /\ UNCHANGED <<registry, there, has, unlinked, index>>
    BY DEF Answered, Killed, Become
<1> QED
    BY <1>1, IdleSound, Quiet DEF FindInv, WorkspaceTypeOK

-----------------------------------------------------------------------------
(* Start, and the commands that name a session *)

\* A step of a command that leaves everything else alone
LEMMA GoesOn ==
    ASSUME FindInv, NEW c \in Procs, NEW r, Sound(r), Become(c, r),
           UNCHANGED <<registry, index, there, has, commands, changes, unlinked, lost>>
    PROVE  FindInv'
BY Quiet DEF FindInv, WorkspaceTypeOK

LEMMA InsertSessionKeeps ==
    ASSUME FindInv, NEW c \in Procs, InsertSession(c)
    PROVE  FindInv'
<1> DEFINE w == proc[c].at
<1>1. PICK s \in Ids \ Used :
         /\ has' = [has EXCEPT ![w] = @ \union {s}]
         /\ proc' = Disturb([proc EXCEPT ![c].step = "remember", ![c].id = s, ![c].path = w], {}, {}, NamesOf(w))
    BY DEF InsertSession
<1> DEFINE r == [proc[c] EXCEPT !.step = "remember", !.id = s, !.path = w]
           procs == [proc EXCEPT ![c] = r]
<1>2. proc[c] \in Tasks /\ Sound(proc[c]) /\ proc[c].step = "insert" /\ w \in there /\ w \in Paths
    BY ProcSound DEF InsertSession, At, Sound, FindInv, WorkspaceTypeOK
<1>3. proc' = Disturb(procs, {}, {}, NamesOf(w))
    <2>1. [proc EXCEPT ![c].step = "remember", ![c].id = s, ![c].path = w] = procs
        BY DEF FindInv, ProcInv
    <2> QED
        BY <1>1, <2>1
<1>4. UNCHANGED <<registry, index, there, unlinked>>
    BY DEF InsertSession
<1> HIDE DEF procs
<1>5. Sound(r)
    <2>1. proc[c].op # "control" /\ proc[c].homes = {}
        BY <1>2 DEF Sound, AtHome, Found, Elsewhere
    <2>2. r \in Tasks /\ r.op = proc[c].op /\ r.at = w /\ r.query = proc[c].query
          /\ r.homes = proc[c].homes /\ r.step = "remember" /\ r.path = w
        BY <1>2 DEF Tasks, Steps
    <2> HIDE DEF r
    <2>3. Found(r) /\ StillStale(r)
        BY <2>1, <2>2 DEF Found, StillStale, Elsewhere
    <2> QED
        BY <1>2, <2>2, <2>3, Onward
<1> HIDE DEF r, w
<1>6. procs \in [Procs -> Tasks] /\ \A d \in Procs : Sound(procs[d])
    BY <1>5, Replaced DEF procs
<1>7. has \in [Paths -> SUBSET Ids] /\ \A p \in Paths : has'[p] = IF p = w THEN has[p] \union {s} ELSE has[p]
    BY <1>1 DEF FindInv, WorkspaceTypeOK
<1>8. Told(procs, {}, {}, NamesOf(w))
    <2>1. \A d \in Procs : procs[d].step # "idle" => procs[d].at \in there'
        BY <1>4, <1>6 DEF Sound
    <2>2. \A n \in Names \ NamesOf(w) : registry'[n] # NoPath =>
            registry[n] = registry'[n] /\ (IsStale(n) => IsStale(n)')
        BY <1>4, <1>7, WorkspaceAssumption DEF IsStale, NamesOf
    <2> QED
        BY <1>4, <1>7, <2>1, <2>2 DEF Told, LinkedPaths
<1>9. ProcInv'
    BY <1>3, <1>6, <1>8, Carry DEF NamesOf
<1>10. WorkspaceTypeOK'
    <2>1. \A p \in Paths : s \notin has[p]
        BY <1>1 DEF Used
    <2>2. has' \in [Paths -> SUBSET Ids]
        BY <1>1, <1>7
    <2>3. \A p, q \in Paths : p # q => has'[p] \intersect has'[q] = {}
        <3> SUFFICES ASSUME NEW p \in Paths, NEW q \in Paths, NEW t \in has'[p] \intersect has'[q] PROVE p = q
            OBVIOUS
        <3> QED
            BY <1>7, <2>1, OnePlace
    <2> QED
        BY <1>2, <1>4, <1>7, <2>2, <2>3 DEF FindInv, WorkspaceTypeOK
<1> QED
    BY <1>4, <1>9, <1>10 DEF FindInv, OwnLinks, Linked, LinkedPaths

LEMMA RememberKeeps ==
    ASSUME FindInv, NEW c \in Procs, Remember(c)
    PROVE  FindInv'
<1> DEFINE r == IF proc[c].op = "start" THEN Done(proc[c], "ok") ELSE [proc[c] EXCEPT !.step = "act"]
<1>1. proc[c] \in Tasks /\ Sound(proc[c]) /\ proc[c].step = "remember" /\ proc[c].path \in Paths
    BY ProcSound DEF Remember, At, Sound
<1>2. Sound(Done(proc[c], "ok"))
    BY <1>1, DoneSound DEF Results
<1>3. Sound([proc[c] EXCEPT !.step = "act"])
    <2> DEFINE q == [proc[c] EXCEPT !.step = "act"]
    <2>1. q \in Tasks /\ q.op = proc[c].op /\ q.at = proc[c].at /\ q.query = proc[c].query
          /\ q.homes = proc[c].homes /\ q.step = "act" /\ q.path = proc[c].path
        BY <1>1 DEF Tasks, Steps
    <2> HIDE DEF q
    <2>2. Found(q) /\ StillStale(q)
        BY <1>1, <2>1 DEF Sound, Found, StillStale, Elsewhere
    <2>3. Sound(q)
        BY <1>1, <2>1, <2>2, Onward
    <2> QED
        BY <2>3 DEF q
<1>4. Become(c, r) /\ UNCHANGED <<registry, there, has, unlinked>> /\ index' \in [Ids -> Paths \union {NoPath}]
    BY <1>1 DEF Remember, FindInv, WorkspaceTypeOK
<1>5. Sound(r)
    BY <1>2, <1>3
<1> HIDE DEF r
<1> QED
    BY <1>4, <1>5, Quiet

LEMMA ResolvedCases ==
    ASSUME NEW c, NEW p, NEW otherwise
    PROVE  LET ids == has[p] \intersect Match(proc[c].query)
               s == CHOOSE s \in ids : TRUE
               r == Resolved(c, p, otherwise)
           IN  /\ ids = {} => r = otherwise
               /\ ids # {} /\ Cardinality(ids) = 1
                    => r = [Done(proc[c], "acted") EXCEPT !.id = s, !.path = p]
               /\ ids # {} /\ Cardinality(ids) # 1 => r = Done(proc[c], "ambiguous")
<1> DEFINE ids == has[p] \intersect Match(proc[c].query)
           acted == [Done(proc[c], "acted") EXCEPT !.id = CHOOSE s \in ids : TRUE, !.path = p]
           ambiguous == Done(proc[c], "ambiguous")
<1>1. Resolved(c, p, otherwise) =
        CASE ids = {} -> otherwise [] Cardinality(ids) = 1 -> acted [] OTHER -> ambiguous
    BY DEF Resolved
<1>2. Cardinality({}) = 0
    BY FS_EmptySet
<1> HIDE DEF ids, acted, ambiguous
<1>3. /\ ids = {} => Resolved(c, p, otherwise) = otherwise
      /\ ids # {} /\ Cardinality(ids) = 1 => Resolved(c, p, otherwise) = acted
      /\ ids # {} /\ Cardinality(ids) # 1 => Resolved(c, p, otherwise) = ambiguous
    BY <1>1, <1>2
<1> QED
    BY <1>3 DEF ids, acted, ambiguous

\* What a command does to the sessions that fit in a workspace
LEMMA ResolvedSound ==
    ASSUME FindInv, NEW c \in Procs, proc[c].step # "idle", NEW p \in Paths, NEW otherwise, Sound(otherwise),
           p # proc[c].at => \A h \in proc[c].homes : h.path = p
    PROVE  Sound(Resolved(c, p, otherwise))
<1> DEFINE ids == has[p] \intersect Match(proc[c].query)
           s == CHOOSE s \in ids : TRUE
           r == [Done(proc[c], "acted") EXCEPT !.id = s, !.path = p]
<1>1. Sound(proc[c]) /\ proc[c] \in Tasks
    BY ProcSound
<1>2. Sound(Done(proc[c], "ambiguous"))
    BY DoneSound DEF Results
<1>3. ASSUME Cardinality(ids) = 1, ids # {} PROVE Sound(r)
    <2>1. PICK t : ids = {t}
        <3>1. IsFiniteSet(ids)
            BY WorkspaceAssumption, FS_Subset DEF FindInv, WorkspaceTypeOK
        <3> QED
            BY <1>3, <3>1, FS_Singleton
    <2>2. s \in ids /\ ids = {s} /\ s \in Ids
        BY <2>1 DEF FindInv, WorkspaceTypeOK
    <2> HIDE DEF s
    <2>3. r \in Tasks /\ r.op = proc[c].op /\ r.at = proc[c].at /\ r.query = proc[c].query
          /\ r.homes = proc[c].homes /\ r.step = "done" /\ r.result = "acted" /\ r.id = s /\ r.path = p
        <3> DEFINE d == Done(proc[c], "acted")
        <3>1. d \in Tasks /\ d.op = proc[c].op /\ d.at = proc[c].at /\ d.query = proc[c].query
              /\ d.homes = proc[c].homes /\ d.step = "done" /\ d.result = "acted"
            BY <1>1, AsDone DEF Results
        <3> HIDE DEF d
        <3>2. r = [d EXCEPT !.id = s, !.path = p]
            BY DEF d
        <3> HIDE DEF r
        <3> QED
            BY <2>2, <3>1, <3>2 DEF Tasks
    <2> HIDE DEF r
    <2>4. ASSUME p # proc[c].at, NEW h \in proc[c].homes PROVE h = [id |-> s, path |-> p]
        <3>1. h.path = p /\ h.id \in Match(proc[c].query) /\ h.id \in has[h.path] /\ h \in Places
            BY <1>1, <2>4 DEF Sound, AtHome, Tasks
        <3> QED
            BY <2>2, <3>1 DEF Places
    <2>5. Found(r) /\ StillStale(r)
        BY <2>3, <2>4 DEF Found, StillStale, Elsewhere
    <2> QED
        BY <2>3, <2>5, Onward
<1>4. /\ ids = {} => Resolved(c, p, otherwise) = otherwise
      /\ ids # {} /\ Cardinality(ids) = 1 => Resolved(c, p, otherwise) = r
      /\ ids # {} /\ Cardinality(ids) # 1 => Resolved(c, p, otherwise) = Done(proc[c], "ambiguous")
    BY ResolvedCases
<1> HIDE DEF r, s, ids
<1> QED
    BY <1>2, <1>3, <1>4

LEMMA ActLocallyKeeps ==
    ASSUME FindInv, NEW c \in Procs, ActLocally(c)
    PROVE  FindInv'
<1> DEFINE w == proc[c].at
           ids == has[w] \intersect Match(proc[c].query)
           q == [proc[c] EXCEPT !.step = "lookup"]
<1>1. proc[c] \in Tasks /\ Sound(proc[c]) /\ proc[c].step = "local" /\ w \in Paths
    BY ProcSound DEF ActLocally, At, Sound, FindInv, WorkspaceTypeOK
<1>2. Become(c, Resolved(c, w, q)) /\ UNCHANGED <<registry, index, there, has, commands, changes, unlinked, lost>>
    BY DEF ActLocally
<1>3. CASE ids = {}
    <2>1. q \in Tasks /\ q.op = proc[c].op /\ q.at = proc[c].at /\ q.query = proc[c].query
          /\ q.homes = proc[c].homes /\ q.step = "lookup"
        BY <1>1 DEF Tasks, Steps
    <2> HIDE DEF q
    <2>2. \A h \in proc[c].homes : h.path # w
        BY <1>1, <1>3 DEF Sound, AtHome
    <2>3. Found(q) /\ StillStale(q)
        BY <2>1, <2>2 DEF Found, StillStale, Elsewhere
    <2>4. Sound(q)
        BY <1>1, <2>1, <2>3, Onward
    <2>5. Resolved(c, w, q) = q
        BY <1>3, ResolvedCases
    <2> QED
        BY <1>2, <2>4, <2>5, GoesOn
<1>4. CASE ids # {}
    <2>1. Resolved(c, w, q) = Resolved(c, w, Done(proc[c], "ambiguous"))
        BY <1>4 DEF Resolved
    <2>2. Sound(Done(proc[c], "ambiguous"))
        BY <1>1, DoneSound DEF Results
    <2>3. Sound(Resolved(c, w, Done(proc[c], "ambiguous")))
        BY <1>1, <2>2, ResolvedSound
    <2> QED
        BY <1>2, <2>1, <2>3, GoesOn
<1> QED
    BY <1>3, <1>4

LEMMA LookUpKeeps ==
    ASSUME FindInv, NEW c \in Procs, LookUp(c)
    PROVE  FindInv'
<1> DEFINE id == proc[c].query
           cached == [proc[c] EXCEPT !.step = "cached", !.path = index[id]]
           unknown == [proc[c] EXCEPT !.step = "registry"]
           r == IF id \in Ids /\ index[id] # NoPath THEN cached ELSE unknown
<1>1. proc[c] \in Tasks /\ Sound(proc[c]) /\ proc[c].step = "lookup"
    BY ProcSound DEF LookUp, At
<1>2. /\ r \in Tasks /\ r.op = proc[c].op /\ r.at = proc[c].at /\ r.query = proc[c].query
      /\ r.homes = proc[c].homes /\ r.step \in {"cached", "registry"}
      /\ r.step = "cached" => r.path \in Paths
    <2>1. id \in Ids /\ index[id] # NoPath => index[id] \in Paths
        BY DEF FindInv, WorkspaceTypeOK
    <2>2. CASE id \in Ids /\ index[id] # NoPath
        <3>1. r = cached
            BY <2>2
        <3> HIDE DEF r
        <3> QED
            BY <1>1, <2>1, <2>2, <3>1 DEF Tasks, Steps
    <2>3. CASE ~(id \in Ids /\ index[id] # NoPath)
        <3>1. r = unknown
            BY <2>3
        <3> HIDE DEF r
        <3> QED
            BY <1>1, <3>1 DEF Tasks, Steps
    <2> QED
        BY <2>2, <2>3
<1>3. Become(c, r) /\ UNCHANGED <<registry, index, there, has, commands, changes, unlinked, lost>>
    BY DEF LookUp
<1> HIDE DEF r
<1>4. Found(r) /\ StillStale(r)
    <2>1. \A h \in r.homes : h.path # r.at
        BY <1>1, <1>2 DEF Sound, Found
    <2>2. r.step \in {"cached", "registry"}
        BY <1>2
    <2> QED
        BY <2>1, <2>2 DEF Found, StillStale, Elsewhere
<1>5. Sound(r)
    BY <1>1, <1>2, <1>4, Onward
<1> QED
    BY <1>3, <1>5, GoesOn

LEMMA ForgetKeeps ==
    ASSUME FindInv, NEW c \in Procs, Forget(c)
    PROVE  FindInv'
<1> DEFINE r == [proc[c] EXCEPT !.step = "registry"]
<1>1. proc[c] \in Tasks /\ Sound(proc[c]) /\ proc[c].step = "forget"
    BY ProcSound DEF Forget, At
<1>2. r \in Tasks /\ r.op = proc[c].op /\ r.at = proc[c].at /\ r.query = proc[c].query
      /\ r.homes = proc[c].homes /\ r.step = "registry"
    BY <1>1 DEF Tasks, Steps
<1>3. Become(c, r) /\ UNCHANGED <<registry, there, has, unlinked>> /\ index' \in [Ids -> Paths \union {NoPath}]
    BY DEF Forget, FindInv, WorkspaceTypeOK
<1> HIDE DEF r
<1>4. Found(r) /\ StillStale(r)
    BY <1>1, <1>2 DEF Sound, Found, StillStale, Elsewhere
<1>5. Sound(r)
    BY <1>1, <1>2, <1>4, Onward
<1> QED
    BY <1>3, <1>5, Quiet

LEMMA CheckCachedKeeps ==
    ASSUME FindInv, NEW c \in Procs, CheckCached(c)
    PROVE  FindInv'
<1> DEFINE p == proc[c].path
           r == IF StillThere(c) THEN [proc[c] EXCEPT !.step = "act"]
                ELSE [proc[c] EXCEPT !.step = "forget", !.path = NoPath]
<1>1. proc[c] \in Tasks /\ Sound(proc[c]) /\ proc[c].step = "cached" /\ p \in Paths
    BY ProcSound DEF CheckCached, At, Sound
<1>2. r \in Tasks /\ r.op = proc[c].op /\ r.at = proc[c].at /\ r.query = proc[c].query
      /\ r.homes = proc[c].homes
      /\ \/ r.step = "act" /\ r.path = p /\ StillThere(c)
         \/ r.step = "forget"
    BY <1>1 DEF Tasks, Steps
<1>3. Opens(c, p, r) /\ UNCHANGED <<registry, index, has, unlinked>>
    BY DEF CheckCached
<1> HIDE DEF r
<1>4. ASSUME StillThere(c), NEW h \in proc[c].homes PROVE h.path = p
    <2>1. h.id \in Match(proc[c].query) /\ h.id \in has[h.path] /\ h.path \in Paths
        BY <1>1, <1>4 DEF Sound, AtHome, Tasks, Places
    <2>2. proc[c].query \in has[p] /\ has[p] \subseteq Ids
        BY <1>1, <1>4 DEF StillThere, FindInv, WorkspaceTypeOK
    <2>3. h.id = proc[c].query
        BY <2>1, <2>2, WorkspaceAssumption DEF Match
    <2> QED
        BY <1>1, <2>1, <2>2, <2>3, OnePlace
<1>5. Found(r) /\ StillStale(r)
    BY <1>1, <1>2, <1>4 DEF Sound, Found, StillStale, Elsewhere
<1>6. Sound(r)
    BY <1>1, <1>2, <1>5, Onward
<1> QED
    BY <1>1, <1>3, <1>6, OpensKeep

LEMMA ActThereKeeps ==
    ASSUME FindInv, NEW c \in Procs, ActThere(c)
    PROVE  FindInv'
<1> DEFINE p == proc[c].path
           ids == has[p] \intersect Match(proc[c].query)
           r == Resolved(c, p, Done(proc[c], "not found"))
<1>1. proc[c] \in Tasks /\ Sound(proc[c]) /\ proc[c].step = "act" /\ p \in Paths
    BY ProcSound DEF ActThere, At, Sound
<1>2. \A h \in proc[c].homes : h.path = p /\ h.id \in ids
    BY <1>1 DEF Sound, AtHome, Found
<1>3. Sound(r)
    <2>1. CASE ids = {}
        <3>1. proc[c].homes = {}
            BY <1>2, <2>1
        <3>2. Sound(Done(proc[c], "not found"))
            BY <1>1, <3>1, DoneSound DEF Results
        <3> QED
            BY <2>1, <3>2, ResolvedCases
    <2>2. CASE ids # {}
        <3>1. r = Resolved(c, p, Done(proc[c], "ambiguous"))
            BY <2>2 DEF Resolved
        <3>2. Sound(Done(proc[c], "ambiguous"))
            BY <1>1, DoneSound DEF Results
        <3>3. Sound(Resolved(c, p, Done(proc[c], "ambiguous")))
            BY <1>1, <1>2, <3>2, ResolvedSound
        <3> QED
            BY <3>1, <3>3
    <2> QED
        BY <2>1, <2>2
<1>4. Opens(c, p, r) /\ UNCHANGED <<registry, index, has, unlinked>>
    BY DEF ActThere
<1> HIDE DEF r
<1> QED
    BY <1>1, <1>3, <1>4, OpensKeep

LEMMA ReadRegistryKeeps ==
    ASSUME FindInv, NEW c \in Procs, ReadRegistry(c)
    PROVE  FindInv'
<1> DEFINE scan == [proc[c] EXCEPT !.step = "scan", !.todo = LinkedPaths \ {proc[c].at}]
           visit == [proc[c] EXCEPT !.step = "visit", !.todo = LinkedPaths]
           r == IF proc[c].op = "control" THEN scan ELSE visit
<1>1. proc[c] \in Tasks /\ Sound(proc[c]) /\ proc[c].step = "registry"
    BY ProcSound DEF ReadRegistry, At
<1>2. LinkedPaths \subseteq Paths
    BY DEF LinkedPaths, FindInv, WorkspaceTypeOK
<1>3. CASE proc[c].op = "control"
    <2>1. /\ scan \in Tasks /\ scan.op = proc[c].op /\ scan.at = proc[c].at /\ scan.query = proc[c].query
          /\ scan.homes = proc[c].homes /\ scan.step = "scan" /\ scan.todo = LinkedPaths \ {proc[c].at}
        BY <1>1, <1>2 DEF Tasks, Steps
    <2> HIDE DEF scan
    <2>2. \A h \in proc[c].homes : h.path # proc[c].at /\ h.path \in LinkedPaths
        BY <1>1 DEF Sound, AtHome, Found
    <2>3. Found(scan) /\ StillStale(scan)
        BY <2>1, <2>2 DEF Found, StillStale, Elsewhere
    <2>4. Sound(scan)
        BY <1>1, <2>1, <2>3, Onward
    <2>5. Become(c, scan) /\ UNCHANGED <<registry, index, there, has, commands, changes, unlinked, lost>>
        BY <1>3 DEF ReadRegistry, scan
    <2> QED
        BY <2>4, <2>5, GoesOn
<1>4. CASE proc[c].op # "control"
    <2>1. /\ visit \in Tasks /\ visit.op = proc[c].op /\ visit.at = proc[c].at /\ visit.query = proc[c].query
          /\ visit.homes = proc[c].homes /\ visit.step = "visit"
        BY <1>1, <1>2 DEF Tasks, Steps
    <2> HIDE DEF visit
    <2>2. Found(visit) /\ StillStale(visit)
        BY <1>4, <2>1 DEF Found, StillStale, Elsewhere
    <2>3. Sound(visit)
        BY <1>1, <2>1, <2>2, Onward
    <2>4. Become(c, visit) /\ UNCHANGED <<registry, index, there, has, commands, changes, unlinked, lost>>
        BY <1>4 DEF ReadRegistry, visit
    <2> QED
        BY <2>3, <2>4, GoesOn
<1> QED
    BY <1>3, <1>4

\* What a scan does with the sessions of a workspace that fit
LEMMA ScannedSound ==
    ASSUME FindInv, NEW c \in Procs, proc[c].step = "scan", NEW p \in Paths,
           NEW ids, ids = has[p] \intersect Match(proc[c].query)
    PROVE  /\ proc[c].query \in ids =>
                Sound([proc[c] EXCEPT !.step = "remember", !.id = proc[c].query, !.path = p, !.todo = {}])
           /\ proc[c].query \notin ids =>
                Sound([proc[c] EXCEPT !.todo = @ \ {p}, !.found = @ \union {[id |-> s, path |-> p] : s \in ids}])
<1>1. proc[c] \in Tasks /\ Sound(proc[c]) /\ ids \subseteq Ids
    BY ProcSound DEF FindInv, WorkspaceTypeOK
<1>2. \A h \in proc[c].homes :
        /\ h.id \in Match(proc[c].query) /\ h.id \in has[h.path] /\ h.path \in Paths
        /\ h = [id |-> h.id, path |-> h.path]
        /\ h.path \in proc[c].todo \/ h \in proc[c].found
    BY <1>1 DEF Sound, AtHome, Found, Tasks, Places
<1>3. ASSUME proc[c].query \in ids
      PROVE  Sound([proc[c] EXCEPT !.step = "remember", !.id = proc[c].query, !.path = p, !.todo = {}])
    <2> DEFINE r == [proc[c] EXCEPT !.step = "remember", !.id = proc[c].query, !.path = p, !.todo = {}]
    <2>1. /\ r \in Tasks /\ r.op = proc[c].op /\ r.at = proc[c].at /\ r.query = proc[c].query
          /\ r.homes = proc[c].homes /\ r.step = "remember" /\ r.path = p
        <3> DEFINE old == proc[c]
                   q == [old EXCEPT !.step = "remember", !.id = old.query, !.path = p, !.todo = {}]
        <3>1. old \in Tasks /\ "remember" \in Steps /\ old.query \in Ids /\ r = q
            BY <1>1, <1>3 DEF Steps
        <3> HIDE DEF old, r
        <3>2. q \in Tasks
            BY <3>1 DEF Tasks
        <3>3. /\ q.op = old.op /\ q.at = old.at /\ q.query = old.query /\ q.homes = old.homes
              /\ q.step = "remember" /\ q.path = p
            BY <3>1 DEF Tasks
        <3> HIDE DEF q
        <3> QED
            BY <3>1, <3>2, <3>3 DEF old
    <2> HIDE DEF r
    <2>2. ASSUME NEW h \in proc[c].homes PROVE h.path = p
        <3>1. h.id = proc[c].query
            BY <1>1, <1>2, <1>3, WorkspaceAssumption DEF Match
        <3> QED
            BY <1>2, <1>3, <3>1, OnePlace
    <2>3. Found(r) /\ StillStale(r)
        BY <2>1, <2>2 DEF Found, StillStale, Elsewhere
    <2>4. Sound(r)
        BY <1>1, <2>1, <2>3, Onward
    <2> QED
        BY <2>4 DEF r
<1>4. Sound([proc[c] EXCEPT !.todo = @ \ {p}, !.found = @ \union {[id |-> s, path |-> p] : s \in ids}])
    <2> DEFINE rows == {[id |-> s, path |-> p] : s \in ids}
               r == [proc[c] EXCEPT !.todo = @ \ {p}, !.found = @ \union rows]
    <2>1. rows \in SUBSET Places
        BY <1>1 DEF Places
    <2>2. \A h \in proc[c].homes : h.path = p => h \in rows
        BY <1>2
    <2> HIDE DEF rows
    <2>3. /\ r \in Tasks /\ r.op = proc[c].op /\ r.at = proc[c].at /\ r.query = proc[c].query
          /\ r.homes = proc[c].homes /\ r.step = "scan" /\ r.todo = proc[c].todo \ {p}
          /\ r.found = proc[c].found \union rows
        BY <1>1, <2>1 DEF Tasks
    <2> HIDE DEF r
    <2>4. Found(r) /\ StillStale(r)
        BY <1>2, <2>2, <2>3 DEF Found, StillStale, Elsewhere
    <2>5. Sound(r)
        BY <2>3, <2>4, Onward
    <2> QED
        BY <2>5 DEF r, rows
<1> QED
    BY <1>3, <1>4

LEMMA ScanKeeps ==
    ASSUME FindInv, NEW c \in Procs, Scan(c)
    PROVE  FindInv'
<1>1. proc[c] \in Tasks /\ Sound(proc[c]) /\ proc[c].step = "scan" /\ proc[c].todo \subseteq Paths
    BY ProcSound DEF Scan, At, Tasks
<1>2. PICK p \in proc[c].todo :
         LET ids == has[p] \intersect Match(proc[c].query) IN
         Opens(c, p,
              CASE Cardinality(ids) > 1 -> Done(proc[c], "ambiguous")
                [] proc[c].query \in ids -> [proc[c] EXCEPT !.step = "remember", !.id = proc[c].query,
                                                            !.path = p, !.todo = {}]
                [] OTHER -> [proc[c] EXCEPT !.todo = @ \ {p},
                                            !.found = @ \union {[id |-> s, path |-> p] : s \in ids}])
    BY DEF Scan
<1> DEFINE ids == has[p] \intersect Match(proc[c].query)
           many == Done(proc[c], "ambiguous")
           hit == [proc[c] EXCEPT !.step = "remember", !.id = proc[c].query, !.path = p, !.todo = {}]
           on == [proc[c] EXCEPT !.todo = @ \ {p}, !.found = @ \union {[id |-> s, path |-> p] : s \in ids}]
           r == CASE Cardinality(ids) > 1 -> many [] proc[c].query \in ids -> hit [] OTHER -> on
<1>3. Opens(c, p, r) /\ UNCHANGED <<registry, index, has, unlinked>>
    BY <1>2 DEF Scan
<1>4. proc[c].query \in ids => Cardinality(ids) = 1
    <2> SUFFICES ASSUME proc[c].query \in ids PROVE Cardinality(ids) = 1
        OBVIOUS
    <2>1. ids = {proc[c].query}
        BY <1>1, WorkspaceAssumption DEF Match, FindInv, WorkspaceTypeOK
    <2> QED
        BY <2>1, FS_Singleton
<1>5. Sound(many)
    BY <1>1, DoneSound DEF Results
<1>6. (proc[c].query \in ids => Sound(hit)) /\ (proc[c].query \notin ids => Sound(on))
    BY <1>1, ScannedSound
<1> HIDE DEF many, hit, on, ids
<1>7. \/ r = many \/ (proc[c].query \in ids /\ r = hit) \/ (proc[c].query \notin ids /\ r = on)
    BY <1>4
<1> HIDE DEF r
<1> QED
    BY <1>1, <1>3, <1>5, <1>6, <1>7, OpensKeep

LEMMA ScanEndsKeeps ==
    ASSUME FindInv, NEW c \in Procs, ScanEnds(c)
    PROVE  FindInv'
<1> DEFINE f == CHOOSE f \in proc[c].found : TRUE
           none == Done(proc[c], "not found")
           many == Done(proc[c], "ambiguous")
           hit == [proc[c] EXCEPT !.step = "remember", !.id = f.id, !.path = f.path, !.todo = {}, !.found = {}]
           r == CASE proc[c].found = {} -> none [] Chosen(c) -> hit [] OTHER -> many
<1>1. /\ proc[c] \in Tasks /\ Sound(proc[c]) /\ proc[c].step = "scan" /\ proc[c].found \subseteq Places
      /\ proc[c].todo = {}
    BY ProcSound DEF ScanEnds, At, Tasks, Chosen
<1>2. Become(c, r) /\ UNCHANGED <<registry, index, there, has, commands, changes, unlinked, lost>>
    BY DEF ScanEnds
<1>3. \A h \in proc[c].homes : h \in proc[c].found
    BY <1>1 DEF Sound, Found
<1>4. proc[c].found = {} => Sound(none)
    <2>1. proc[c].found = {} => proc[c].homes = {}
        BY <1>3
    <2> QED
        BY <1>1, <2>1, DoneSound DEF Results
<1>5. Sound(many)
    BY <1>1, DoneSound DEF Results
<1>6. ASSUME proc[c].found # {}, Chosen(c) PROVE Sound(hit)
    <2>1. PICK g : proc[c].found = {g}
        <3>1. IsFiniteSet(proc[c].found)
            <4>1. IsFiniteSet(Places)
                <5> DEFINE pairs == [h \in Places |-> <<h.id, h.path>>]
                <5>1. IsFiniteSet(Ids \X Paths)
                    BY FS_Product, WorkspaceAssumption
                <5>2. pairs \in Injection(Places, Ids \X Paths)
                    BY DEF Injection, IsInjective, Places
                <5> QED
                    BY <5>1, <5>2, FS_Injection
            <4> QED
                BY <1>1, <4>1, FS_Subset
        <3> QED
            BY <1>6, <3>1, FS_Singleton DEF Chosen
    <2>2. proc[c].found = {f} /\ f \in Places
        BY <1>1, <2>1
    <2> HIDE DEF f
    <2>3. /\ hit \in Tasks /\ hit.op = proc[c].op /\ hit.at = proc[c].at /\ hit.query = proc[c].query
          /\ hit.homes = proc[c].homes /\ hit.step = "remember" /\ hit.path = f.path /\ hit.path \in Paths
        <3> DEFINE old == proc[c]
                   q == [old EXCEPT !.step = "remember", !.id = f.id, !.path = f.path,
                                    !.todo = {}, !.found = {}]
        <3>1. old \in Tasks /\ "remember" \in Steps /\ f.id \in Ids /\ f.path \in Paths /\ hit = q
            BY <1>1, <2>2 DEF Steps, Places
        <3> HIDE DEF old, hit
        <3>2. q \in Tasks
            BY <3>1 DEF Tasks
        <3>3. /\ q.op = old.op /\ q.at = old.at /\ q.query = old.query /\ q.homes = old.homes
              /\ q.step = "remember" /\ q.path = f.path
            BY <3>1 DEF Tasks
        <3> HIDE DEF q
        <3> QED
            BY <3>1, <3>2, <3>3 DEF old
    <2> HIDE DEF hit
    <2>4. Found(hit) /\ StillStale(hit)
        BY <1>3, <2>2, <2>3 DEF Found, StillStale, Elsewhere
    <2> QED
        BY <1>1, <2>3, <2>4, Onward
<1> HIDE DEF none, many, hit
<1>7. proc[c].found = {} => ~Chosen(c)
    BY FS_EmptySet DEF Chosen
<1>8. \/ proc[c].found = {} /\ r = none
      \/ proc[c].found # {} /\ Chosen(c) /\ r = hit
      \/ r = many
    BY <1>7
<1> HIDE DEF r
<1> QED
    BY <1>2, <1>4, <1>5, <1>6, <1>8, GoesOn

-----------------------------------------------------------------------------
(* List and cleanup of all workspaces *)

\* A visit of the workspaces goes on; it names no session.
LEMMA VisitSound ==
    ASSUME FindInv, NEW c \in Procs, proc[c].step \in {"visit", "unmap"}, NEW r \in Tasks,
           r.op = proc[c].op, r.at = proc[c].at, r.query = proc[c].query, r.homes = proc[c].homes,
           r.step \in {"visit", "unmap"}
    PROVE  Sound(r)
<1>1. proc[c].op # "control" /\ proc[c].homes = {}
    BY ProcSound DEF Sound, AtHome, Found, Elsewhere
<1>2. Found(r) /\ StillStale(r)
    BY <1>1 DEF Found, StillStale, Elsewhere
<1> QED
    BY <1>2, Onward

LEMMA RowsArePlaces ==
    ASSUME FindInv, NEW p \in Paths, NEW ids \in SUBSET has[p]
    PROVE  Rows(p, ids) \in SUBSET Places
BY DEF Rows, Places, FindInv, WorkspaceTypeOK

LEMMA CollectKeeps ==
    ASSUME FindInv, NEW c \in Procs, Collect(c)
    PROVE  FindInv'
<1>1. proc[c] \in Tasks /\ proc[c].step = "visit" /\ proc[c].todo \subseteq Paths
    BY ProcSound DEF Collect, At, Tasks
<1>2. PICK p \in proc[c].todo :
         Opens(c, p, [proc[c] EXCEPT !.todo = @ \ {p}, !.found = @ \union Rows(p, has[p])])
    BY DEF Collect
<1> DEFINE r == [proc[c] EXCEPT !.todo = @ \ {p}, !.found = @ \union Rows(p, has[p])]
<1>3. Rows(p, has[p]) \in SUBSET Places
    BY <1>1, RowsArePlaces
<1>4. /\ r \in Tasks /\ r.op = proc[c].op /\ r.at = proc[c].at /\ r.query = proc[c].query
      /\ r.homes = proc[c].homes /\ r.step = "visit"
    BY <1>1, <1>3 DEF Tasks
<1>5. Opens(c, p, r) /\ UNCHANGED <<registry, index, has, unlinked>>
    BY <1>2 DEF Collect
<1> HIDE DEF r
<1>6. Sound(r)
    BY <1>1, <1>4, VisitSound
<1> QED
    BY <1>1, <1>5, <1>6, OpensKeep

LEMMA CleanKeeps ==
    ASSUME FindInv, NEW c \in Procs, Clean(c)
    PROVE  FindInv'
<1>1. proc[c] \in Tasks /\ proc[c].step = "visit" /\ proc[c].todo \subseteq Paths
    BY ProcSound DEF Clean, At, Tasks
<1>0. PICK p \in proc[c].todo : \E ended \in SUBSET has[p] :
         /\ there' = there \union {p}
         /\ has' = [has EXCEPT ![p] = @ \ ended]
         /\ LET r == [proc[c] EXCEPT !.todo = @ \ {p}, !.found = Rows(p, ended),
                                     !.step = IF ended = {} THEN @ ELSE "unmap"] IN
            proc' = Disturb([proc EXCEPT ![c] = r], Rows(p, ended), {},
                            IF p \in there /\ ended = {} THEN {} ELSE NamesOf(p))
    BY DEF Clean
<1>2. PICK ended \in SUBSET has[p] :
         /\ there' = there \union {p}
         /\ has' = [has EXCEPT ![p] = @ \ ended]
         /\ LET r == [proc[c] EXCEPT !.todo = @ \ {p}, !.found = Rows(p, ended),
                                     !.step = IF ended = {} THEN @ ELSE "unmap"] IN
            proc' = Disturb([proc EXCEPT ![c] = r], Rows(p, ended), {},
                            IF p \in there /\ ended = {} THEN {} ELSE NamesOf(p))
    BY <1>0
<1> DEFINE step == IF ended = {} THEN proc[c].step ELSE "unmap"
           r == [proc[c] EXCEPT !.todo = @ \ {p}, !.found = Rows(p, ended), !.step = step]
           procs == [proc EXCEPT ![c] = r]
           names == IF p \in there /\ ended = {} THEN {} ELSE NamesOf(p)
<1>3. step \in {"visit", "unmap"}
    BY <1>1
<1>4. Rows(p, ended) \in SUBSET Places
    BY <1>1, RowsArePlaces
<1>5. proc' = Disturb(procs, Rows(p, ended), {}, names)
    BY <1>2
<1> HIDE DEF step
<1>6. /\ r \in Tasks /\ r.op = proc[c].op /\ r.at = proc[c].at /\ r.query = proc[c].query
      /\ r.homes = proc[c].homes /\ r.step = step
    <2> DEFINE old == proc[c]
               rows == Rows(p, ended)
               q == [old EXCEPT !.todo = old.todo \ {p}, !.found = rows, !.step = step]
    <2>1. old \in Tasks /\ step \in Steps /\ rows \in SUBSET Places /\ r = q
        BY <1>1, <1>3, <1>4 DEF Steps
    <2> HIDE DEF old, rows, r
    <2>2. q \in Tasks
        BY <2>1 DEF Tasks
    <2>3. /\ q.op = old.op /\ q.at = old.at /\ q.query = old.query /\ q.homes = old.homes
          /\ q.step = step
        BY <2>1 DEF Tasks
    <2> HIDE DEF q
    <2> QED
        BY <2>1, <2>2, <2>3 DEF old
<1> HIDE DEF r
<1>7. Sound(r)
    BY <1>1, <1>3, <1>6, VisitSound
<1>8. procs \in [Procs -> Tasks] /\ \A d \in Procs : Sound(procs[d])
    BY <1>7, Replaced
<1> HIDE DEF procs
<1>9. has \in [Paths -> SUBSET Ids] /\ \A q \in Paths : has'[q] = IF q = p THEN has[p] \ ended ELSE has[q]
    BY <1>2 DEF FindInv, WorkspaceTypeOK
<1>10. UNCHANGED <<registry, index, unlinked>> /\ there' = there \union {p} /\ p \in Paths
    BY <1>1, <1>2 DEF Clean
<1>11. Told(procs, Rows(p, ended), {}, names)
    <2>1. \A d \in Procs : procs[d].step # "idle" => procs[d].at \in there'
        BY <1>8, <1>10 DEF Sound
    <2>2. \A q \in Paths : \A s \in has[q] \ has'[q] : [id |-> s, path |-> q] \in Rows(p, ended)
        BY <1>9 DEF Rows
    <2>3. \A n \in Names \ names : registry'[n] # NoPath =>
            registry[n] = registry'[n] /\ (IsStale(n) => IsStale(n)')
        <3> SUFFICES ASSUME NEW n \in Names \ names, registry[n] # NoPath, IsStale(n) PROVE IsStale(n)'
            BY <1>10
        <3>1. CASE registry[n] = p
            <4>1. p \in there /\ ended = {}
                BY <3>1 DEF NamesOf
            <4> QED
                BY <1>9, <1>10, <3>1, <4>1 DEF IsStale
        <3>2. CASE registry[n] # p
            <4>1. registry[n] \in Paths
                BY DEF FindInv, WorkspaceTypeOK
            <4> QED
                BY <1>9, <1>10, <3>2, <4>1 DEF IsStale
        <3> QED
            BY <3>1, <3>2
    <2> QED
        BY <1>10, <2>1, <2>2, <2>3 DEF Told, LinkedPaths
<1>12. ProcInv'
    BY <1>5, <1>8, <1>11, Carry DEF NamesOf
<1>13. WorkspaceTypeOK'
    <2>1. has' \in [Paths -> SUBSET Ids]
        BY <1>2, <1>9
    <2>2. \A q, t \in Paths : q # t => has'[q] \intersect has'[t] = {}
        <3> SUFFICES ASSUME NEW q \in Paths, NEW t \in Paths, NEW s \in has'[q] \intersect has'[t] PROVE q = t
            OBVIOUS
        <3> QED
            BY <1>9, OnePlace
    <2>3. \A q \in Paths \ there' : has'[q] = {}
        BY <1>9, <1>10 DEF FindInv, WorkspaceTypeOK
    <2> QED
        BY <1>10, <2>1, <2>2, <2>3 DEF FindInv, WorkspaceTypeOK
<1> QED
    BY <1>10, <1>12, <1>13 DEF FindInv, OwnLinks, Linked, LinkedPaths

LEMMA UnmapKeeps ==
    ASSUME FindInv, NEW c \in Procs, Unmap(c)
    PROVE  FindInv'
<1> DEFINE r == [proc[c] EXCEPT !.step = "visit", !.found = {}]
<1>1. proc[c] \in Tasks /\ proc[c].step = "unmap"
    BY ProcSound DEF Unmap, At
<1>2. /\ r \in Tasks /\ r.op = proc[c].op /\ r.at = proc[c].at /\ r.query = proc[c].query
      /\ r.homes = proc[c].homes /\ r.step = "visit"
    BY <1>1 DEF Tasks, Steps
<1>3. Become(c, r) /\ UNCHANGED <<registry, there, has, unlinked>> /\ index' \in [Ids -> Paths \union {NoPath}]
    BY DEF Unmap, FindInv, WorkspaceTypeOK
<1> HIDE DEF r
<1>4. Sound(r)
    BY <1>1, <1>2, VisitSound
<1> QED
    BY <1>3, <1>4, Quiet

LEMMA PublishRowsKeeps ==
    ASSUME FindInv, NEW c \in Procs, PublishRows(c)
    PROVE  FindInv'
<1>1. proc[c] \in Tasks /\ proc[c].step = "visit" /\ proc[c].found \subseteq Places
    BY ProcSound DEF PublishRows, At, Tasks
<1>2. PICK p \in {f.path : f \in proc[c].found} :
         /\ index' = [s \in Ids |-> IF [id |-> s, path |-> p] \in proc[c].found THEN p ELSE index[s]]
         /\ UNCHANGED <<registry, there, has, commands, changes, unlinked, lost>>
         /\ Become(c, [proc[c] EXCEPT !.found = {f \in @ : f.path # p}])
    BY DEF PublishRows
<1> DEFINE r == [proc[c] EXCEPT !.found = {f \in @ : f.path # p}]
<1>3. /\ r \in Tasks /\ r.op = proc[c].op /\ r.at = proc[c].at /\ r.query = proc[c].query
      /\ r.homes = proc[c].homes /\ r.step = "visit"
    BY <1>1 DEF Tasks
<1>4. p \in Paths
    BY <1>1, <1>2 DEF Places
<1>5. Become(c, r) /\ UNCHANGED <<registry, there, has, unlinked>> /\ index' \in [Ids -> Paths \union {NoPath}]
    BY <1>2, <1>4 DEF FindInv, WorkspaceTypeOK
<1> HIDE DEF r
<1>6. Sound(r)
    BY <1>1, <1>3, VisitSound
<1> QED
    BY <1>5, <1>6, Quiet

LEMMA VisitEndsKeeps ==
    ASSUME FindInv, NEW c \in Procs, VisitEnds(c)
    PROVE  FindInv'
<1>1. Sound(Done(proc[c], "ok"))
    BY DoneSound DEF VisitEnds, At, Results
<1> QED
    BY <1>1, GoesOn DEF VisitEnds

-----------------------------------------------------------------------------
(* Workspaces that are renamed or deleted *)

\* A workspace goes; where it has gone to, if anywhere, there was none.
LEMMA GoneKeeps ==
    ASSUME FindInv, NEW p \in there \ WorkedIn, NEW new \in SUBSET (Paths \ there),
           there' = (there \ {p}) \union new,
           has' \in [Paths -> SUBSET Ids], has'[p] = {},
           \A w \in Paths \ ({p} \union new) : has'[w] = has[w],
           \A w, x \in Paths : w # x => has'[w] \intersect has'[x] = {},
           unlinked' = unlinked \union {p} \union new,
           NEW gone, NEW names \in SUBSET Names, proc' = Disturb(proc, Rows(p, has[p]), gone, names),
           \A w \in new : NamesOf(w) \subseteq names,
           UNCHANGED <<registry, index>>
    PROVE  FindInv'
<1>1. there \subseteq Paths /\ p \in Paths /\ registry \in [Names -> Paths \union {NoPath}]
      /\ \A w \in new : has[w] = {}
    BY DEF FindInv, WorkspaceTypeOK
<1>2. Told(proc, Rows(p, has[p]), gone, names)
    <2>1. \A w \in Paths : \A s \in has[w] \ has'[w] : [id |-> s, path |-> w] \in Rows(p, has[p])
        BY <1>1 DEF Rows
    <2>2. \A c \in Procs : proc[c].step # "idle" => proc[c].at \in there'
        BY ProcSound DEF Sound, WorkedIn
    <2>3. \A n \in Names \ names : registry'[n] # NoPath =>
            registry[n] = registry'[n] /\ (IsStale(n) => IsStale(n)')
        <3> SUFFICES ASSUME NEW n \in Names \ names, registry[n] # NoPath, IsStale(n) PROVE IsStale(n)'
            OBVIOUS
        <3>1. registry[n] \notin new
            BY DEF NamesOf
        <3> QED
            BY <1>1, <3>1 DEF IsStale
    <2> QED
        BY <2>1, <2>2, <2>3 DEF Told, LinkedPaths
<1>3. ProcInv'
    <2>1. proc \in [Procs -> Tasks] /\ \A c \in Procs : Sound(proc[c])
        BY DEF FindInv, ProcInv, AllSound
    <2> QED
        BY <1>2, <2>1, Carry
<1>4. WorkspaceTypeOK'
    <2>1. \A w \in Paths \ there' : has'[w] = {}
        BY DEF FindInv, WorkspaceTypeOK
    <2> QED
        BY <1>1, <2>1 DEF FindInv, WorkspaceTypeOK
<1> QED
    BY <1>3, <1>4 DEF FindInv, OwnLinks, Linked, LinkedPaths

LEMMA MovesKeeps ==
    ASSUME FindInv, NEW p \in Paths, NEW q \in Paths, Moves(p, q)
    PROVE  FindInv'
<1>1. has \in [Paths -> SUBSET Ids] /\ has' = [has EXCEPT ![p] = {}, ![q] = has[p]] /\ p # q
    BY DEF Moves, FindInv, WorkspaceTypeOK
<1>2. has' \in [Paths -> SUBSET Ids]
      /\ \A w \in Paths : has'[w] = IF w = q THEN has[p] ELSE IF w = p THEN {} ELSE has[w]
    BY <1>1
<1>3. ASSUME NEW w \in Paths, NEW x \in Paths, w # x PROVE has'[w] \intersect has'[x] = {}
    <2> SUFFICES ASSUME NEW s \in has'[w] \intersect has'[x] PROVE FALSE
        OBVIOUS
    <2> QED
        BY <1>2, <1>3, OnePlace
<1>4. {q} \in SUBSET (Paths \ there) /\ p \in there \ WorkedIn /\ NamesOf(q) \in SUBSET Names
    BY DEF Moves, NamesOf
<1>5. /\ there' = (there \ {p}) \union {q} /\ unlinked' = unlinked \union {p} \union {q}
      /\ proc' = Disturb(proc, Rows(p, has[p]), {p, q}, NamesOf(q)) /\ UNCHANGED <<registry, index>>
    BY DEF Moves
<1>6. /\ has'[p] = {} /\ \A w \in Paths \ ({p} \union {q}) : has'[w] = has[w]
      /\ \A w \in {q} : NamesOf(w) \subseteq NamesOf(q)
    BY <1>1, <1>2
<1> QED
    BY <1>2, <1>3, <1>4, <1>5, <1>6, GoneKeeps

LEMMA DeletedKeeps ==
    ASSUME FindInv, NEW p \in Paths, Deleted(p)
    PROVE  FindInv'
<1>1. has' \in [Paths -> SUBSET Ids] /\ \A w \in Paths : has'[w] = IF w = p THEN {} ELSE has[w]
    BY DEF Deleted, FindInv, WorkspaceTypeOK
<1>2. ASSUME NEW w \in Paths, NEW x \in Paths, w # x PROVE has'[w] \intersect has'[x] = {}
    <2> SUFFICES ASSUME NEW s \in has'[w] \intersect has'[x] PROVE FALSE
        OBVIOUS
    <2> QED
        BY <1>1, <1>2, OnePlace
<1>3. /\ p \in there \ WorkedIn /\ there' = (there \ {p}) \union {} /\ unlinked' = unlinked \union {p} \union {}
      /\ proc' = Disturb(proc, Rows(p, has[p]), {p}, {}) /\ UNCHANGED <<registry, index>>
    BY DEF Deleted
<1>4. {} \in SUBSET (Paths \ there) /\ {} \in SUBSET Names
    OBVIOUS
<1> QED
    BY <1>1, <1>2, <1>3, <1>4, GoneKeeps

-----------------------------------------------------------------------------
(* What holds *)

LEMMA InitFinds == Init => FindInv
<1> SUFFICES ASSUME Init PROVE FindInv
    OBVIOUS
<1>1. proc \in [Procs -> Tasks] /\ \A c \in Procs : proc[c] = Idle
    BY IdleSound DEF Init
<1>2. ProcInv
    BY <1>1, IdleSound DEF ProcInv, AllSound
<1>3. WorkspaceTypeOK /\ OwnLinks /\ Linked
    BY DEF Init, WorkspaceTypeOK, OwnLinks, Linked
<1> QED
    BY <1>2, <1>3 DEF FindInv

LEMMA StepKeeps ==
    ASSUME FindInv, NEW c \in Procs, Step(c)
    PROVE  FindInv'
<1>1. CASE EnsureLink(c) \/ AddLink(c) \/ RemoveLink(c) \/ CollectStale(c) \/ ApplyPrune(c)
    BY <1>1, EnsureLinkKeeps, AddLinkKeeps, RemoveLinkKeeps, CollectStaleKeeps, ApplyPruneKeeps
<1>2. CASE InsertSession(c) \/ Remember(c) \/ ActLocally(c) \/ LookUp(c) \/ CheckCached(c) \/ Forget(c)
    BY <1>2, InsertSessionKeeps, RememberKeeps, ActLocallyKeeps, LookUpKeeps, CheckCachedKeeps, ForgetKeeps
<1>3. CASE ReadRegistry(c) \/ Scan(c) \/ ScanEnds(c) \/ ActThere(c)
    BY <1>3, ReadRegistryKeeps, ScanKeeps, ScanEndsKeeps, ActThereKeeps
<1>4. CASE Collect(c) \/ Clean(c) \/ Unmap(c) \/ PublishRows(c) \/ VisitEnds(c)
    BY <1>4, CollectKeeps, CleanKeeps, UnmapKeeps, PublishRowsKeeps, VisitEndsKeeps
<1>5. CASE Answered(c) \/ Killed(c)
    BY <1>5, EndKeeps
<1> QED
    BY <1>1, <1>2, <1>3, <1>4, <1>5 DEF Step

LEMMA NextFinds ==
    ASSUME FindInv, [Next]_vars
    PROVE  FindInv'
<1>1. CASE \E c \in Procs : Step(c) \/ \E op \in Ops, w \in Paths : Begin(c, op, w)
    BY <1>1, StepKeeps, BeginKeeps
<1>2. CASE \E p, q \in Paths : Moves(p, q)
    BY <1>2, MovesKeeps
<1>3. CASE \E p \in Paths : Deleted(p)
    BY <1>3, DeletedKeeps
<1>4. CASE UNCHANGED vars
    <2>1. ProcInv'
        BY <1>4, StillSound DEF FindInv, ProcInv, AllSound, vars
    <2> QED
        BY <1>4, <2>1 DEF FindInv, WorkspaceTypeOK, OwnLinks, Linked, LinkedPaths, vars
<1> QED
    BY <1>1, <1>2, <1>3, <1>4 DEF Next

\* The invariant: names of its own for each link, a link for each path that nobody took the link of,
\* and, of each command under way, where what it means can still be.
THEOREM FindInvariant == Spec => []FindInv
<1> QED
    BY InitFinds, NextFinds, PTL DEF Spec

\* Sessions live in one workspace each, and a command beyond its own workspace acts on the one it means.
THEOREM WorkspaceInvariant == Spec => []WorkspaceInv
<1>1. FindInv => WorkspaceInv
    BY ProcSound DEF FindInv, WorkspaceInv, OneTarget, Sound, Found, At
<1> QED
    BY <1>1, FindInvariant, PTL

\* No command answers that a session is unknown which is linked, and stays where it is.
THEOREM FoundAnywhereAlways == Spec => []FoundAnywhere
<1>1. FindInv => FoundAnywhere
    BY ProcSound DEF FoundAnywhere, Sound, Found, At
<1> QED
    BY <1>1, FindInvariant, PTL

\* A prune takes the links it saw stale, and that nobody set or used since.
THEOREM PrunesOnlyStale == Spec => PruneOnlyStale
<1>1. ASSUME FindInv, NEW c \in Procs, ApplyPrune(c), NEW n \in proc[c].stale \ proc[c].raced, registry[n] # NoPath
      PROVE  registry[n] \notin there \/ (registry[n] \in TempPaths /\ has[registry[n]] = {})
    BY <1>1, ProcSound DEF Sound, StillStale, IsStale, ApplyPrune, At
<1>2. FindInv /\ [Next]_vars =>
        [\A c \in Procs : ApplyPrune(c) =>
           \A n \in proc[c].stale \ proc[c].raced :
             registry[n] # NoPath => registry[n] \notin there \/ (registry[n] \in TempPaths /\ has[registry[n]] = {})]_vars
    BY <1>1
<1> QED
    BY <1>2, FindInvariant, PTL DEF Spec, PruneOnlyStale

===============================================================================
