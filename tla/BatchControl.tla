---------------------------- MODULE BatchControl ----------------------------
(***************************************************************************)
(* One batch command (stop, restart, suspend or resume of all sessions     *)
(* that match) over the linked workspaces: it lists each workspace, acts   *)
(* on the sessions it selected and answers one row per session.  With one  *)
(* job everything happens in order and may stop at a failure; with more,   *)
(* links are dealt to threads, and the sessions of a link to threads of    *)
(* its own.  A batch in local scope is a batch of one link.                *)
(*                                                                         *)
(* A session is its place in the sorted list of its workspace.  What the   *)
(* action does to it is SessionControl's business; here it succeeds or     *)
(* fails.                                                                  *)
(*                                                                         *)
(* A definition whose comment starts with "Mutant" is not the code: it is  *)
(* a slip one could make there, kept to show that a property notices it.   *)
(***************************************************************************)
EXTENDS Naturals, FiniteSets

CONSTANTS
    NLinks,         \* linked workspaces, in the order of the registry
    MaxMatched,     \* bound: sessions of one workspace that match the filters
    Jobs,           \* choices of --jobs
    MaxFailures,    \* choices of --max-failures
    Limits          \* choices of --limit; MaxMatched stands for none

ASSUME BatchAssumption ==
    /\ NLinks \in Nat /\ MaxMatched \in Nat
    /\ Jobs \subseteq Nat \ {0}
    /\ MaxFailures \subseteq Nat
    /\ Limits \subseteq Nat

VARIABLES
    plan,         \* the options of the command
    links,        \* [1..NLinks -> ...]: the progress of each workspace
    failures,     \* failure_count of the thread that works in order
    stopped,      \* stopped_early
    answered

vars == <<plan, links, failures, stopped, answered>>

-----------------------------------------------------------------------------
(* Options *)

Plans == [jobs : Jobs, continueOnError : BOOLEAN, maxFailures : MaxFailures,
          limit : Limits, dryRun : BOOLEAN]

\* validate_batch_jobs_with_control: other plans are refused before anything is read.
Valid(p) == p.jobs <= 1 \/ (p.continueOnError /\ p.maxFailures = 0)

InOrder == plan.jobs <= 1

\* Mutant: the limit itself is still allowed.
ShouldStopLater(n) == ~plan.continueOnError \/ (plan.maxFailures > 0 /\ n > plan.maxFailures)

ShouldStop(n) == ~plan.continueOnError \/ (plan.maxFailures > 0 /\ n >= plan.maxFailures)

\* The failures after which a batch shall stop; 0: it shall not.
Budget == IF ~plan.continueOnError THEN 1 ELSE plan.maxFailures

Limited(matched) == IF matched <= plan.limit THEN matched ELSE plan.limit

\* Work is dealt in turn to at most jobs threads; a thread takes its share in order.
Threads(items) == IF plan.jobs <= items THEN plan.jobs ELSE items

\* Mutant: a thread for each item.
SameThreadNever(i, j, items) == i = j

SameThread(i, j, items) == i % Threads(items) = j % Threads(items)

-----------------------------------------------------------------------------
(* Links *)

NotListed == [step |-> "todo", selected |-> 0, acting |-> {}, ok |-> {}, failed |-> {}]

Rows(l) == links[l].ok \union links[l].failed

Selected(l) == 1 .. links[l].selected

Ended(l) == links[l].step \in {"done", "error"}

Init ==
    /\ plan \in {p \in Plans : Valid(p)}
    /\ links = [l \in 1 .. NLinks |-> NotListed]
    /\ failures = 0
    /\ stopped = FALSE
    /\ answered = FALSE

\* The thread of link l has come to it.
Turn(l) ==
    /\ links[l].step = "todo"
    /\ ~stopped /\ ~answered
    /\ \A k \in 1 .. NLinks : k < l /\ SameThread(k, l, NLinks) => Ended(k)

\* A dry run answers a row for each selected session and acts on none.
ListLink(l) ==
    /\ Turn(l)
    /\ \E matched \in 0 .. MaxMatched :
         LET n == Limited(matched) IN
         links' = [links EXCEPT ![l].selected = n,
                                ![l].ok = IF plan.dryRun THEN 1 .. n ELSE {},
                                ![l].step = IF plan.dryRun \/ n = 0 THEN "done" ELSE "acting"]
    /\ UNCHANGED <<plan, failures, stopped, answered>>

\* A workspace that cannot be listed counts as a failure; only work in order counts.
ListFails(l) ==
    /\ Turn(l)
    /\ links' = [links EXCEPT ![l].step = "error"]
    /\ \/ InOrder /\ failures' = failures + 1 /\ stopped' = ShouldStop(failures + 1)
       \/ ~InOrder /\ UNCHANGED <<failures, stopped>>
    /\ UNCHANGED <<plan, answered>>

BeginAction(l, i) ==
    /\ links[l].step = "acting"
    /\ i \in Selected(l) \ (Rows(l) \union links[l].acting)
    /\ \A j \in Selected(l) : j < i /\ SameThread(j, i, links[l].selected) => j \in Rows(l)
    /\ links' = [links EXCEPT ![l].acting = @ \union {i}]
    /\ UNCHANGED <<plan, failures, stopped, answered>>

ActionSucceeds(l, i) ==
    /\ i \in links[l].acting
    /\ links' = [links EXCEPT ![l].acting = @ \ {i}, ![l].ok = @ \union {i}]
    /\ UNCHANGED <<plan, failures, stopped, answered>>

\* The threads of one link add up their failures as well, but nothing reads the sum.
ActionFails(l, i) ==
    /\ i \in links[l].acting
    /\ links' = [links EXCEPT
            ![l].acting = @ \ {i},
            ![l].failed = @ \union {i},
            ![l].step = IF InOrder /\ ShouldStop(failures + 1) THEN "broken_off" ELSE @]
    /\ failures' = IF InOrder THEN failures + 1 ELSE failures
    /\ UNCHANGED <<plan, stopped, answered>>

\* Mutant: the first thread that is out of work closes the link.
CloseLinkEarly(l) ==
    /\ \/ links[l].step = "broken_off"
       \/ /\ links[l].step = "acting"
          /\ \E i \in Rows(l) : \A j \in Selected(l) :
                SameThread(i, j, links[l].selected) => j \in Rows(l)
    /\ links' = [links EXCEPT ![l].step = "done"]
    /\ stopped' = (InOrder /\ Rows(l) # Selected(l))
    /\ UNCHANGED <<plan, failures, answered>>

\* Mutant: a link that was broken off is left open.
CloseLinkComplete(l) ==
    /\ links[l].step = "acting" /\ Rows(l) = Selected(l)
    /\ links' = [links EXCEPT ![l].step = "done"]
    /\ stopped' = (InOrder /\ Rows(l) # Selected(l))
    /\ UNCHANGED <<plan, failures, answered>>

\* The loop over the sessions is over, or every thread of the link has joined:
\* stopped_early if a row is missing.
CloseLink(l) ==
    /\ \/ links[l].step = "broken_off"
       \/ links[l].step = "acting" /\ Rows(l) = Selected(l)
    /\ links' = [links EXCEPT ![l].step = "done"]
    /\ stopped' = (InOrder /\ Rows(l) # Selected(l))
    /\ UNCHANGED <<plan, failures, answered>>

Answer ==
    /\ ~answered
    /\ stopped \/ \A l \in 1 .. NLinks : Ended(l)
    /\ answered' = TRUE
    /\ UNCHANGED <<plan, links, failures, stopped>>

Act(l, i) == BeginAction(l, i) \/ ActionSucceeds(l, i) \/ ActionFails(l, i)

Next ==
    \/ \E l \in 1 .. NLinks :
        \/ ListLink(l) \/ ListFails(l) \/ CloseLink(l)
        \/ \E i \in 1 .. MaxMatched : Act(l, i)
    \/ Answer

Spec == Init /\ [][Next]_vars

\* The command's threads run, and an action on a session ends: a stop within its
\* grace period, a restart within its retries (see Answers in SessionControl).
FairSpec == Spec /\ WF_vars(Next)

-----------------------------------------------------------------------------
(* Properties *)

Places == 1 .. MaxMatched

Progress == [step : {"todo", "acting", "broken_off", "done", "error"}, selected : 0 .. MaxMatched,
             acting : SUBSET Places, ok : SUBSET Places, failed : SUBSET Places]

\* Every variable keeps its type.
TypeOK ==
    /\ plan \in Plans
    /\ links \in [1 .. NLinks -> Progress]
    /\ failures \in Nat
    /\ stopped \in BOOLEAN
    /\ answered \in BOOLEAN

\* When a batch answers, nothing is still being done to a session; unless it says
\* that it stopped early every workspace was listed or is reported, and every
\* selected session has its row; and it stops early only for a failure too many.
HonestAnswer ==
    answered =>
        /\ \A l \in 1 .. NLinks : links[l].acting = {}
        /\ ~stopped => \A l \in 1 .. NLinks : Ended(l) /\ Rows(l) = Selected(l)
        /\ stopped => Budget > 0 /\ failures >= Budget

\* --jobs holds within one workspace: no two of its sessions are in the hands of
\* one thread, and it has at most that many threads.
JobsPerLink ==
    \A l \in 1 .. NLinks : Cardinality(links[l].acting) <= plan.jobs

\* Every failure so far; place 0 is the listing of the workspace.
Failed == {f \in (1 .. NLinks) \X (0 .. MaxMatched) :
            f[2] \in links[f[1]].failed \/ (f[2] = 0 /\ links[f[1]].step = "error")}

Begins(l) == links'[l].acting \ links[l].acting # {}

\* --continue-on-error false and --max-failures hold within one workspace, also when
\* other workspaces before it used up some of the failures: after the failure that
\* exhausts them no further session of that workspace is touched.
BudgetPerLink ==
    [][\A l \in 1 .. NLinks :
        Budget > 0 /\ Begins(l) /\ links[l].failed # {} => Cardinality(Failed) < Budget]_vars

\* Every batch answers in the end.
EventuallyAnswers == <>answered

\* lifecycle_args.rs, --continue-on-error: "Continue processing matched sessions after
\* individual failures (set false for fail-fast)"; --max-failures: "Maximum allowed
\* failures before stopping batch apply".
NothingAfterBudget ==
    [][\A l \in 1 .. NLinks : Budget > 0 /\ Begins(l) => Cardinality(Failed) < Budget]_vars

\* lifecycle_args.rs, --jobs: "Maximum parallel jobs for batch execution."
AtMostJobs ==
    Cardinality({a \in (1 .. NLinks) \X Places : a[2] \in links[a[1]].acting}) <= plan.jobs
=============================================================================
