----------------------------- MODULE ListCache -----------------------------
(***************************************************************************)
(* Listing sessions: the cache of a workspace's list (list-cache.json) and *)
(* the index of the global scan (list-global-index.json), both keyed by    *)
(* the signature of the state file, its length and modification time.      *)
(* Listings overlap with each other and with updates of the state file,    *)
(* and may be killed at any step.                                          *)
(*                                                                         *)
(* A load or an update of the state file is one step (see StateStore).     *)
(* Every save gives the file a signature it never had before.              *)
(*                                                                         *)
(* A definition whose comment starts with "Mutant" is not the code: it is  *)
(* a slip one could make there, kept to show that a property notices it.   *)
(***************************************************************************)
EXTENDS Naturals

CONSTANTS
    Listers,       \* processes that list one workspace
    Scanners,      \* processes that list all of them
    Links,         \* linked workspaces, each with a state file of its own
    NoLink,
    Sessions,      \* session ids
    Live,          \* the statuses of a session with a worker
    MaxSaves       \* bound: saves of one state file

ASSUME ListAssumption ==
    /\ NoLink \notin Links
    /\ Live \subseteq {"running", "suspended"}
    /\ MaxSaves \in Nat

VARIABLES
    file,      \* [Links -> [sig, sessions]]: the state files
    cache,     \* [Links -> [sig, sessions]]: their list caches
    index,     \* [Links -> [sig, statuses]]: the index of the global scan
    call,      \* what each caller is doing
    raced      \* links whose last save came between the load of a listing and its
               \* second look at the signature

vars == <<file, cache, index, call, raced>>

-----------------------------------------------------------------------------
(* Contents *)

Callers == Listers \union Scanners

Statuses == {"stopped"} \union Live
Lists == [Sessions -> Statuses \union {"gone"}]     \* "gone": no such session

Empty == [s \in Sessions |-> "gone"]

\* session_requires_reconcile_for_list: only a stopped record needs no look.
Candidates(list) == {s \in Sessions : list[s] \in Live}

\* Mutant: every list is cacheable.
CacheableAlways(list) == list = list

Cacheable(list) == Candidates(list) = {}

\* The signature of the n-th save is n: length and modification time tell them
\* apart.
NoSignature == 0

\* No state file. No cache file, a truncated one, one of another schema version.
Miss == [sig |-> NoSignature, sessions |-> Empty]

NoEntry == [sig |-> NoSignature, statuses |-> {}]
EmptyIndex == [l \in Links |-> NoEntry]

\* update_link_summary: the statuses with a count above zero.
Summary(sig, list) ==
    [sig |-> sig, statuses |-> {list[s] : s \in Sessions} \ {"gone"}]

\* Mutant: an entry is believed whatever its signature.
ShouldSkipAnySignature(entry, sig, filter) ==
    /\ sig # NoSignature
    /\ entry.sig # NoSignature
    /\ entry.statuses = {} \/ (filter # "all" /\ filter \notin entry.statuses)

\* should_skip_for_filters; "all" is the filter without a status.
ShouldSkip(entry, sig, filter) ==
    /\ sig # NoSignature
    /\ entry.sig = sig
    /\ entry.statuses = {} \/ (filter # "all" /\ filter \notin entry.statuses)

-----------------------------------------------------------------------------
(* Callers *)

\* held is not in the code: what the file of the link was since its listing began.
Idle == [step |-> "idle", scan |-> FALSE, filter |-> "all", todo |-> {}, index |-> EmptyIndex,
         link |-> NoLink, scanSig |-> NoSignature, sig |-> NoSignature,
         ids |-> {}, list |-> Empty, held |-> {}]

At(p, l, step) == call[p].step = step /\ call[p].link = l

Goto(p, step) == [call EXCEPT ![p].step = step]

Init ==
    /\ file = [l \in Links |-> Miss]
    /\ cache = [l \in Links |-> Miss]
    /\ index = EmptyIndex
    /\ call = [p \in Callers |-> Idle]
    /\ raced = {}

-----------------------------------------------------------------------------
(* Saves of a state file *)

\* A listing of l that has its list and has yet to look at the signature.
Lags(p, l) == At(p, l, "refresh") /\ Cacheable(call[p].list)

Saved(calls, l, list) ==
    [p \in Callers |-> IF calls[p].link = l THEN [calls[p] EXCEPT !.held = @ \union {list}]
                                            ELSE calls[p]]

Save(l, list) ==
    /\ file[l].sig < MaxSaves
    /\ file' = [file EXCEPT ![l] = [sig |-> file[l].sig + 1, sessions |-> list]]
    /\ raced' = IF \E p \in Callers : Lags(p, l) THEN raced \union {l} ELSE raced \ {l}

\* Any other command: start, stop, restart, cleanup, the daemon.
Update(l, list) ==
    /\ Save(l, list)
    /\ call' = Saved(call, l, list)
    /\ UNCHANGED <<cache, index>>

-----------------------------------------------------------------------------
(* load_sessions_for_listing *)

BeginList(p, l) ==
    /\ call[p].step = "idle"
    /\ call' = [call EXCEPT ![p].step = "signature", ![p].link = l,
                            ![p].held = {file[l].sessions}]
    /\ UNCHANGED <<file, cache, index, raced>>

ReadSignature(p, l) ==
    /\ At(p, l, "signature")
    /\ call' = [call EXCEPT ![p].sig = file[l].sig,
                            ![p].step = IF file[l].sig = NoSignature THEN "load" ELSE "cache"]
    /\ UNCHANGED <<file, cache, index, raced>>

ReadCache(p, l) ==
    /\ At(p, l, "cache")
    /\ call' = IF cache[l].sig = call[p].sig /\ Cacheable(cache[l].sessions)
               THEN [call EXCEPT ![p].step = "answer", ![p].list = cache[l].sessions]
               ELSE Goto(p, "load")
    /\ UNCHANGED <<file, cache, index, raced>>

\* api_list_sessions: nothing is written when no record needs a look.
Load(p, l) ==
    /\ At(p, l, "load")
    /\ call' = [call EXCEPT
            ![p].list = file[l].sessions,
            ![p].ids = Candidates(file[l].sessions),
            ![p].step = IF Candidates(file[l].sessions) = {} THEN "refresh" ELSE "reconcile"]
    /\ UNCHANGED <<file, cache, index, raced>>

\* reconcile_session of the ids of the load on the file as it is now: a worker that
\* died is settled as stopped, or respawned if its session is managed.
Reconciles(ids, old, new) ==
    \A s \in Sessions : new[s] = old[s] \/ (s \in ids /\ old[s] \in Live /\ new[s] = "stopped")

\* The end of one link: the scan goes on, a plain listing is over.
Leave(c) ==
    IF c.scan THEN [c EXCEPT !.step = "scan", !.link = NoLink, !.scanSig = NoSignature,
                             !.sig = NoSignature, !.ids = {}, !.list = Empty, !.held = {}]
              ELSE Idle

Reconcile(p, l) ==
    /\ At(p, l, "reconcile")
    /\ \E list \in Lists :
         /\ Reconciles(call[p].ids, file[l].sessions, list)
         /\ Save(l, list)
         /\ call' = Saved([call EXCEPT ![p].step = "refresh", ![p].list = list], l, list)
    /\ UNCHANGED <<cache, index>>

\* A respawn or the save fails: nothing is written, no entry is made.
ReconcileFails(p, l) ==
    /\ At(p, l, "reconcile")
    /\ call' = [call EXCEPT ![p] = Leave(call[p])]
    /\ UNCHANGED <<file, cache, index, raced>>

\* refresh_cache_after_list removes the cache, if it can, or reads the signature,
\* a second time, of the file as it is by now.
Refresh(p, l) ==
    /\ At(p, l, "refresh")
    /\ \/ /\ call[p].list = Empty \/ ~Cacheable(call[p].list) \/ file[l].sig = NoSignature
          /\ cache' \in {cache, [cache EXCEPT ![l] = Miss]}
          /\ call' = Goto(p, "answer")
       \/ /\ call[p].list # Empty /\ Cacheable(call[p].list) /\ file[l].sig # NoSignature
          /\ call' = [call EXCEPT ![p].step = "truncate", ![p].sig = file[l].sig]
          /\ UNCHANGED cache
    /\ UNCHANGED <<file, index, raced>>

\* fs::write opens and truncates, then writes; another caller may have removed or
\* written the file in between, and errors are ignored.
TruncateCache(p, l) ==
    /\ At(p, l, "truncate")
    /\ \/ cache' = [cache EXCEPT ![l] = Miss] /\ call' = Goto(p, "write")
       \/ UNCHANGED cache /\ call' = Goto(p, "answer")
    /\ UNCHANGED <<file, index, raced>>

WriteCache(p, l) ==
    /\ At(p, l, "write")
    /\ cache' \in {cache, [cache EXCEPT ![l] = Miss],
                   [cache EXCEPT ![l] = [sig |-> call[p].sig, sessions |-> call[p].list]]}
    /\ call' = Goto(p, "answer")
    /\ UNCHANGED <<file, index, raced>>

\* Mutant: the entry gets the signature of the file as it is after the listing.
AnswerWithLaterSignature(p, l) ==
    /\ At(p, l, "answer")
    /\ call' = [call EXCEPT ![p] =
            Leave(IF call[p].scan /\ file[l].sig # NoSignature
                  THEN [call[p] EXCEPT !.index[l] = Summary(file[l].sig, call[p].list)]
                  ELSE call[p])]
    /\ UNCHANGED <<file, cache, index, raced>>

Answer(p, l) ==
    /\ At(p, l, "answer")
    /\ call' = [call EXCEPT ![p] =
            Leave(IF call[p].scan /\ call[p].scanSig # NoSignature
                  THEN [call[p] EXCEPT !.index[l] = Summary(call[p].scanSig, call[p].list)]
                  ELSE call[p])]
    /\ UNCHANGED <<file, cache, index, raced>>

-----------------------------------------------------------------------------
(* collect_global_rows *)

BeginScan(p, filter) ==
    /\ call[p].step = "idle"
    /\ call' = [call EXCEPT ![p].step = "scan", ![p].scan = TRUE, ![p].filter = filter,
                            ![p].todo = Links, ![p].index = index]
    /\ UNCHANGED <<file, cache, index, raced>>

SkipLink(p, l) ==
    /\ call[p].step = "scan" /\ l \in call[p].todo
    /\ ShouldSkip(call[p].index[l], file[l].sig, call[p].filter)
    /\ call' = [call EXCEPT ![p].todo = @ \ {l}]
    /\ UNCHANGED <<file, cache, index, raced>>

ScanLink(p, l) ==
    /\ call[p].step = "scan" /\ l \in call[p].todo
    /\ ~ShouldSkip(call[p].index[l], file[l].sig, call[p].filter)
    /\ call' = [call EXCEPT ![p].step = "signature", ![p].todo = @ \ {l}, ![p].link = l,
                            ![p].scanSig = file[l].sig, ![p].held = {file[l].sessions}]
    /\ UNCHANGED <<file, cache, index, raced>>

\* persist_best_effort is an fs::write as well; the last one wins, whole.
TruncateIndex(p) ==
    /\ call[p].step = "scan" /\ call[p].todo = {}
    /\ \/ index' = EmptyIndex /\ call' = Goto(p, "persist")
       \/ UNCHANGED index /\ call' = [call EXCEPT ![p] = Idle]
    /\ UNCHANGED <<file, cache, raced>>

PersistIndex(p) ==
    /\ call[p].step = "persist"
    /\ index' \in {index, EmptyIndex, call[p].index}
    /\ call' = [call EXCEPT ![p] = Idle]
    /\ UNCHANGED <<file, cache, raced>>

-----------------------------------------------------------------------------
Crash(p) ==
    /\ call[p].step # "idle"
    /\ call' = [call EXCEPT ![p] = Idle]
    /\ UNCHANGED <<file, cache, index, raced>>

Next ==
    \/ \E l \in Links, list \in Lists : Update(l, list)
    \/ \E p \in Listers, l \in Links : BeginList(p, l)
    \/ \E p \in Scanners, filter \in Statuses \union {"all"} : BeginScan(p, filter)
    \/ \E p \in Callers, l \in Links :
        \/ ReadSignature(p, l) \/ ReadCache(p, l) \/ Load(p, l)
        \/ Reconcile(p, l) \/ ReconcileFails(p, l) \/ Refresh(p, l)
        \/ TruncateCache(p, l) \/ WriteCache(p, l) \/ Answer(p, l)
        \/ SkipLink(p, l) \/ ScanLink(p, l)
    \/ \E p \in Callers : TruncateIndex(p) \/ PersistIndex(p) \/ Crash(p)

Spec == Init /\ [][Next]_vars

-----------------------------------------------------------------------------
(* Properties *)

Steps == {"idle", "scan", "signature", "cache", "load", "reconcile", "refresh", "truncate", "write",
          "answer", "persist"}

Docs == [sig : Nat, sessions : Lists]

Entries == [sig : Nat, statuses : SUBSET Statuses]

Calls == [step : Steps, scan : BOOLEAN, filter : Statuses \union {"all"}, todo : SUBSET Links,
          index : [Links -> Entries], link : Links \union {NoLink}, scanSig : Nat, sig : Nat,
          ids : SUBSET Sessions, list : Lists, held : SUBSET Lists]

\* Every variable keeps its type.
TypeOK ==
    /\ file \in [Links -> Docs]
    /\ cache \in [Links -> Docs]
    /\ index \in [Links -> Entries]
    /\ call \in [Callers -> Calls]
    /\ raced \subseteq Links

\* A cache or an index entry that is believed is right, unless the last save of the
\* file came between a listing's load and its second look at the signature; the
\* next save heals it.
OnlyRacesPoison ==
    \A l \in Links \ raced : file[l].sig # NoSignature =>
        /\ cache[l].sig = file[l].sig => cache[l].sessions = file[l].sessions
        /\ index[l].sig = file[l].sig => index[l] = Summary(file[l].sig, file[l].sessions)

\* However stale its answer, a listing never shows a session running or suspended
\* that was not so in the file since the listing began.
NoPhantoms ==
    \A p \in Callers : call[p].step = "answer" =>
        \A s \in Candidates(call[p].list) : \E list \in call[p].held : list[s] = call[p].list[s]

Matches(list, filter) ==
    {s \in Sessions : list[s] # "gone" /\ (filter = "all" \/ list[s] = filter)}

WouldSkip(p, l) ==
    /\ call[p].step = "scan" /\ l \in call[p].todo
    /\ ShouldSkip(call[p].index[l], file[l].sig, call[p].filter)

\* A scan for stopped or for all sessions never skips a workspace that has one,
\* however listings and saves overlap.
StoppedNeverSkipped ==
    \A p \in Callers, l \in Links : WouldSkip(p, l) =>
        call[p].filter \in Live \/ Matches(file[l].sessions, call[p].filter) = {}

\* The test load_sessions_for_listing_refreshes_cache_after_state_signature_change
\* (list_cache.rs): a listing answers what the file was at some time during it.
AnswerHeld ==
    \A p \in Callers : call[p].step = "answer" => call[p].list \in call[p].held
=============================================================================
