------------------------- MODULE BatchControlProofs -------------------------
(***************************************************************************)
(* Proofs that a batch answers honestly, that --jobs and the failure       *)
(* policy hold within one workspace.                                       *)
(***************************************************************************)
EXTENDS BatchControl, FiniteSetTheorems, TLAPS

-----------------------------------------------------------------------------
(* The inductive invariant *)

OverBudget == Budget > 0 /\ failures >= Budget

\* What is known of one workspace at each step.
LinkInv(l) ==
    /\ links[l].acting \subseteq Selected(l)
    /\ Rows(l) \subseteq Selected(l)
    /\ links[l].acting \intersect Rows(l) = {}
    /\ links[l].step \in {"todo", "error"} => Selected(l) = {}
    /\ links[l].step # "acting" => links[l].acting = {}
    /\ links[l].step = "done" /\ ~stopped => Rows(l) = Selected(l)
    /\ links[l].step = "broken_off" => InOrder /\ OverBudget
    /\ links[l].step = "acting" /\ links[l].failed # {} /\ InOrder => ~OverBudget

\* A thread has finished what comes before the sessions it has taken.
InTurn(l) ==
    \A i \in Selected(l), j \in links[l].acting \union Rows(l) :
        i < j /\ SameThread(i, j, links[l].selected) => i \in Rows(l)

\* With one job a workspace is done before the next is begun.
LinksInOrder ==
    InOrder => \A k, l \in 1 .. NLinks : k < l /\ links[l].step # "todo" => Ended(k)

\* What the answer says is settled before it is given.
Settled ==
    /\ stopped => /\ InOrder /\ OverBudget
                  /\ \A l \in 1 .. NLinks : links[l].step \notin {"acting", "broken_off"}
    /\ answered => stopped \/ \A l \in 1 .. NLinks : Ended(l)

Counted == InOrder => failures = Cardinality(Failed)

BatchInv ==
    /\ TypeOK
    /\ Valid(plan)
    /\ \A l \in 1 .. NLinks : LinkInv(l) /\ InTurn(l)
    /\ LinksInOrder
    /\ Settled
    /\ Counted

-----------------------------------------------------------------------------
(* Lemmas *)

LEMMA JobsType ==
    ASSUME TypeOK
    PROVE  plan.jobs \in Nat \ {0}
<1>1. plan.jobs \in Jobs
  BY DEF TypeOK, Plans
<1> QED
  BY <1>1, BatchAssumption

\* One thread has everything: i % 1 is 0.
LEMMA OneThread ==
    ASSUME TypeOK, InOrder, NEW n \in Nat, NEW i \in 1 .. n, NEW j \in 1 .. n
    PROVE  SameThread(i, j, n)
<1>1. plan.jobs = 1
  BY JobsType DEF InOrder
<1>2. Threads(n) = 1
  BY <1>1 DEF Threads
<1>3. \A k \in Nat : k % 1 = 0
  OBVIOUS
<1> QED
  BY <1>2, <1>3 DEF SameThread

\* should_stop_after_failure stops exactly when the budget is used up.
LEMMA StopsAtBudget ==
    ASSUME TypeOK, NEW n \in Nat, n > 0
    PROVE  ShouldStop(n) <=> Budget > 0 /\ n >= Budget
  BY BatchAssumption DEF TypeOK, Plans, ShouldStop, Budget

LEMMA BudgetType ==
    ASSUME TypeOK
    PROVE  Budget \in Nat
  BY BatchAssumption DEF TypeOK, Plans, Budget

LEMMA FailedFinite == IsFiniteSet(Failed)
<1>1. IsFiniteSet(1 .. NLinks) /\ IsFiniteSet(0 .. MaxMatched)
  BY BatchAssumption, FS_Interval
<1>2. IsFiniteSet((1 .. NLinks) \X (0 .. MaxMatched))
  BY <1>1, FS_Product
<1> QED
  BY <1>2, FS_Subset DEF Failed

\* At most one session in hand for each thread.
LEMMA ActingBound ==
    ASSUME BatchInv, NEW l \in 1 .. NLinks
    PROVE  Cardinality(links[l].acting) <= plan.jobs
<1> DEFINE n == links[l].selected
           t == Threads(n)
           f == [i \in links[l].acting |-> i % t]
<1>1. /\ n \in Nat /\ links[l].acting \subseteq 1 .. n /\ plan.jobs \in Nat \ {0}
  BY BatchAssumption, JobsType DEF BatchInv, TypeOK, Progress, LinkInv, Selected
<1>2. CASE links[l].acting = {}
  BY <1>1, <1>2, FS_EmptySet
<1>3. CASE links[l].acting # {}
  <2>1. t \in Nat \ {0} /\ t <= plan.jobs
    BY <1>1, <1>3 DEF Threads
  <2> HIDE DEF t
  <2>2. \A i \in Nat : i % t \in 0 .. t - 1
    BY <2>1
  <2>3. \A i, j \in links[l].acting : f[i] = f[j] => i = j
    <3> SUFFICES ASSUME NEW i \in links[l].acting, NEW j \in links[l].acting,
                        i % t = j % t, i < j
                 PROVE  FALSE
      BY <1>1, <2>1, <2>2
    <3>1. SameThread(i, j, n)
      BY DEF SameThread, t
    <3>2. i \in Rows(l)
      BY <1>1, <3>1 DEF BatchInv, InTurn, Selected
    <3> QED
      BY <3>2 DEF BatchInv, LinkInv
  <2>4. f \in Injection(links[l].acting, 0 .. t - 1)
    <3> HIDE DEF n
    <3>1. f \in [links[l].acting -> 0 .. t - 1]
      BY <1>1, <2>2
    <3> QED
      BY <3>1, <2>3 DEF Injection, IsInjective
  <2>5. IsFiniteSet(0 .. t - 1) /\ Cardinality(0 .. t - 1) = t
    BY <2>1, FS_Interval
  <2>6. IsFiniteSet(links[l].acting) /\ Cardinality(links[l].acting) <= t
    BY <2>4, <2>5, FS_Injection
  <2>7. Cardinality(links[l].acting) \in Nat
    BY <2>6, FS_CardinalityType
  <2> QED
    BY <1>1, <2>1, <2>6, <2>7
<1> QED
  BY <1>2, <1>3

-----------------------------------------------------------------------------
(* Every step keeps the invariant *)

LEMMA InitInv == Init => BatchInv
<1> SUFFICES ASSUME Init PROVE BatchInv
  OBVIOUS
<1>1. TypeOK
  <2>1. 0 \in 0 .. MaxMatched
    BY BatchAssumption
  <2> QED
    BY <2>1 DEF Init, TypeOK, Progress, NotListed
<1>2. \A l \in 1 .. NLinks : LinkInv(l) /\ InTurn(l)
  BY BatchAssumption DEF Init, NotListed, LinkInv, InTurn, Selected, Rows
<1>3. Failed = {}
  BY DEF Init, NotListed, Failed
<1>4. Counted
  BY <1>3, FS_EmptySet DEF Init, Counted
<1> QED
  BY <1>1, <1>2, <1>4 DEF Init, BatchInv, LinksInOrder, Settled, NotListed

\* With one job no other workspace is at work while the turn is at l, or l is at work.
LEMMA AloneAtWork ==
    ASSUME BatchInv, InOrder, NEW l \in 1 .. NLinks, NEW k \in 1 .. NLinks, k # l,
           Turn(l) \/ links[l].step \in {"acting", "broken_off"}
    PROVE  links[k].step \in {"todo", "done", "error"}
<1>1. CASE k < l
  <2>1. SameThread(k, l, NLinks)
    BY OneThread, BatchAssumption DEF BatchInv
  <2>2. Ended(k)
    BY <1>1, <2>1 DEF BatchInv, Turn, LinksInOrder
  <2> QED
    BY <2>2 DEF Ended
<1>2. CASE l < k
  BY <1>2 DEF BatchInv, LinksInOrder, Turn, Ended
<1> QED
  BY <1>1, <1>2

LEMMA ListLinkInv ==
    ASSUME BatchInv, NEW l \in 1 .. NLinks, ListLink(l)
    PROVE  BatchInv'
<1>0. PICK matched \in 0 .. MaxMatched :
        links' = [links EXCEPT ![l].selected = Limited(matched),
            ![l].ok = IF plan.dryRun THEN 1 .. Limited(matched) ELSE {},
            ![l].step = IF plan.dryRun \/ Limited(matched) = 0 THEN "done" ELSE "acting"]
  BY DEF ListLink
<1> DEFINE n == Limited(matched)
<1>n. n \in 0 .. MaxMatched
  <2>1. plan.limit \in Nat
    BY BatchAssumption DEF BatchInv, TypeOK, Plans
  <2> QED
    BY <2>1, BatchAssumption DEF Limited
<1> HIDE DEF n
<1>a. links[l].step = "todo" /\ ~stopped /\ ~answered
  BY DEF ListLink, Turn
<1>b. links[l].acting = {} /\ Rows(l) = {}
  BY <1>a DEF BatchInv, LinkInv
<1>c. UNCHANGED <<plan, failures, stopped, answered>>
  BY DEF ListLink
<1>1. TypeOK'
  <2>1. 1 .. n \subseteq Places
    BY <1>n, BatchAssumption DEF Places
  <2> DEFINE ok == IF plan.dryRun THEN 1 .. n ELSE {}
             step == IF plan.dryRun \/ n = 0 THEN "done" ELSE "acting"
  <2>2. ok \in SUBSET Places /\ step \in {"acting", "done"}
    BY <2>1
  <2>3. links' = [links EXCEPT ![l].selected = n, ![l].ok = ok, ![l].step = step]
    BY <1>0 DEF n
  <2> HIDE DEF ok, step
  <2>4. links[l] \in Progress
    BY DEF BatchInv, TypeOK
  <2>5. [links[l] EXCEPT !.selected = n, !.ok = ok, !.step = step] \in Progress
    BY <1>n, <2>2, <2>4 DEF Progress
  <2>6. links' = [links EXCEPT ![l] = [links[l] EXCEPT !.selected = n, !.ok = ok, !.step = step]]
    BY <2>3 DEF BatchInv, TypeOK
  <2> QED
    BY <1>c, <2>5, <2>6 DEF BatchInv, TypeOK
<1>d. /\ links'[l].selected = n /\ links'[l].acting = {} /\ links'[l].failed = {}
      /\ links'[l].ok = IF plan.dryRun THEN 1 .. n ELSE {}
      /\ links'[l].step = IF plan.dryRun \/ n = 0 THEN "done" ELSE "acting"
      /\ \A k \in 1 .. NLinks : k # l => links'[k] = links[k]
  BY <1>0, <1>b DEF BatchInv, TypeOK, Rows, n
<1>2. \A k \in 1 .. NLinks : LinkInv(k)' /\ InTurn(k)'
  <2> SUFFICES ASSUME NEW k \in 1 .. NLinks
               PROVE  LinkInv(k)' /\ InTurn(k)'
    OBVIOUS
  <2>1. CASE k = l
    BY <1>d, <1>n, <2>1 DEF LinkInv, InTurn, Selected, Rows
  <2>2. CASE k # l
    BY <1>c, <1>d, <2>2
       DEF BatchInv, LinkInv, InTurn, Selected, Rows, InOrder, OverBudget, Budget, SameThread, Threads
  <2> QED
    BY <2>1, <2>2
<1>3. LinksInOrder'
  <2> SUFFICES ASSUME InOrder, NEW j \in 1 .. NLinks, NEW k \in 1 .. NLinks, j < k,
                      links'[k].step # "todo"
               PROVE  Ended(j)'
    BY <1>c DEF LinksInOrder, InOrder
  <2>1. CASE k = l
    <3>1. SameThread(j, l, NLinks)
      BY OneThread, BatchAssumption DEF BatchInv
    <3> QED
      BY <1>d, <2>1, <3>1 DEF ListLink, Turn, Ended
  <2>2. CASE k # l
    BY <1>a, <1>d, <2>2 DEF BatchInv, LinksInOrder, Ended
  <2> QED
    BY <2>1, <2>2
<1>4. Settled'
  BY <1>a, <1>c DEF Settled
<1>5. Failed' = Failed
  BY <1>a, <1>b, <1>d DEF Failed, Rows
<1> QED
  BY <1>1, <1>2, <1>3, <1>4, <1>5, <1>c DEF BatchInv, Counted, InOrder, Valid

LEMMA ListFailsInv ==
    ASSUME BatchInv, NEW l \in 1 .. NLinks, ListFails(l)
    PROVE  BatchInv'
<1>a. links[l].step = "todo" /\ ~stopped /\ ~answered /\ UNCHANGED <<plan, answered>>
  BY DEF ListFails, Turn
<1>b. /\ links[l].acting = {} /\ Selected(l) = {} /\ Rows(l) = {}
  BY <1>a DEF BatchInv, LinkInv
<1>c. \/ InOrder /\ failures' = failures + 1 /\ stopped' = ShouldStop(failures + 1)
      \/ ~InOrder /\ failures' = failures /\ stopped' = stopped
  BY DEF ListFails
<1>d. /\ links'[l] = [links[l] EXCEPT !.step = "error"]
      /\ \A k \in 1 .. NLinks : k # l => links'[k] = links[k]
  BY DEF ListFails, BatchInv, TypeOK
<1>e. failures' \in Nat /\ stopped' \in BOOLEAN /\ (stopped' => InOrder' /\ OverBudget')
  <2>1. failures \in Nat /\ stopped \in BOOLEAN
    BY DEF BatchInv, TypeOK
  <2>2. ShouldStop(failures + 1) <=> Budget > 0 /\ failures + 1 >= Budget
    BY <2>1, StopsAtBudget DEF BatchInv
  <2>3. UNCHANGED Budget /\ UNCHANGED InOrder
    BY <1>a DEF Budget, InOrder
  <2>4. stopped' \in BOOLEAN
    BY <1>c, <2>1 DEF ShouldStop
  <2> QED
    BY <1>a, <1>c, <2>1, <2>2, <2>3, <2>4 DEF OverBudget
<1>1. TypeOK'
  BY <1>a, <1>e DEF BatchInv, TypeOK, Progress, ListFails
<1>2. \A k \in 1 .. NLinks : LinkInv(k)' /\ InTurn(k)'
  <2> SUFFICES ASSUME NEW k \in 1 .. NLinks
               PROVE  LinkInv(k)' /\ InTurn(k)'
    OBVIOUS
  <2>1. CASE k = l
    BY <1>b, <1>d, <2>1 DEF LinkInv, InTurn, Selected, Rows, BatchInv, TypeOK, Progress
  <2>2. CASE k # l
    <3>1. InTurn(k)'
      BY <1>a, <1>d, <2>2 DEF BatchInv, InTurn, Selected, Rows, SameThread, Threads
    <3>2. InOrder => links[k].step \in {"todo", "done", "error"}
      BY <2>2, AloneAtWork DEF ListFails
    <3>3. LinkInv(k)'
      BY <1>a, <1>c, <1>d, <2>2, <3>2
         DEF BatchInv, LinkInv, Selected, Rows, InOrder
    <3> QED
      BY <3>1, <3>3
  <2> QED
    BY <2>1, <2>2
<1>3. LinksInOrder'
  <2> SUFFICES ASSUME InOrder, NEW j \in 1 .. NLinks, NEW k \in 1 .. NLinks, j < k,
                      links'[k].step # "todo"
               PROVE  Ended(j)'
    BY <1>a DEF LinksInOrder, InOrder
  <2>1. CASE k = l
    <3>1. SameThread(j, l, NLinks)
      BY OneThread, BatchAssumption DEF BatchInv
    <3> QED
      BY <1>d, <2>1, <3>1 DEF ListFails, Turn, Ended
  <2>2. CASE k # l
    <3>1. links'[j].step = links[j].step \/ links'[j].step = "error"
      BY <1>d DEF BatchInv, TypeOK, Progress
    <3> QED
      BY <1>d, <2>2, <3>1 DEF BatchInv, LinksInOrder, Ended
  <2> QED
    BY <2>1, <2>2
<1>4. Settled'
  <2> SUFFICES ASSUME stopped', NEW k \in 1 .. NLinks
               PROVE  links'[k].step \notin {"acting", "broken_off"}
    BY <1>a, <1>e DEF Settled
  <2>1. CASE k = l
    BY <1>d, <2>1 DEF BatchInv, TypeOK, Progress
  <2>2. CASE k # l
    BY <1>a, <1>c, <1>d, <2>2, AloneAtWork DEF ListFails
  <2> QED
    BY <2>1, <2>2
<1>5. Counted'
  <2> DEFINE new == <<l, 0>>
  <2>1. Failed' = Failed \union {new} /\ new \notin Failed
    <3> DEFINE Pairs == (1 .. NLinks) \X (0 .. MaxMatched)
               Bad(f) == f[2] \in links[f[1]].failed \/ (f[2] = 0 /\ links[f[1]].step = "error")
    <3>1. new \in Pairs /\ ~Bad(new) /\ Bad(new)'
      BY <1>a, <1>b, <1>d, BatchAssumption DEF Rows, BatchInv, TypeOK, Progress, Places
    <3>2. ASSUME NEW f \in Pairs, f # new PROVE Bad(f)' <=> Bad(f)
      BY <1>a, <1>b, <1>d, <3>2 DEF BatchInv, TypeOK, Progress
    <3>3. Failed = {f \in Pairs : Bad(f)} /\ Failed' = {f \in Pairs : Bad(f)'}
      BY DEF Failed
    <3> HIDE DEF new, Pairs, Bad
    <3> QED
      BY <3>1, <3>2, <3>3
  <2>2. Cardinality(Failed') = Cardinality(Failed) + 1
    BY <2>1, FailedFinite, FS_AddElement
  <2> QED
    BY <1>a, <1>c, <2>2 DEF Counted, InOrder, BatchInv
<1> QED
  BY <1>1, <1>2, <1>3, <1>4, <1>5, <1>a DEF BatchInv, Valid

\* What a step at one workspace leaves as it was at the others.
LEMMA OthersKeep ==
    ASSUME BatchInv, NEW l \in 1 .. NLinks, NEW k \in 1 .. NLinks, k # l,
           links'[k] = links[k], UNCHANGED <<plan, failures, stopped>>
    PROVE  LinkInv(k)' /\ InTurn(k)'
  BY DEF BatchInv, LinkInv, InTurn, Selected, Rows, InOrder, OverBudget, Budget, SameThread, Threads

LEMMA BeginActionInv ==
    ASSUME BatchInv, NEW l \in 1 .. NLinks, NEW i \in Places, BeginAction(l, i)
    PROVE  BatchInv'
<1>a. /\ links[l].step = "acting" /\ UNCHANGED <<plan, failures, stopped, answered>>
      /\ i \in Selected(l) /\ i \notin Rows(l) /\ i \notin links[l].acting
      /\ \A j \in Selected(l) : j < i /\ SameThread(j, i, links[l].selected) => j \in Rows(l)
  BY DEF BeginAction
<1>b. /\ links'[l] = [links[l] EXCEPT !.acting = @ \union {i}]
      /\ \A k \in 1 .. NLinks : k # l => links'[k] = links[k]
  BY DEF BeginAction, BatchInv, TypeOK
<1>c. links[l] \in Progress
  BY DEF BatchInv, TypeOK
<1>d. /\ links'[l].acting = links[l].acting \union {i}
      /\ links'[l].step = "acting" /\ links'[l].selected = links[l].selected
      /\ links'[l].ok = links[l].ok /\ links'[l].failed = links[l].failed
  BY <1>a, <1>b, <1>c DEF Progress
<1>1. TypeOK'
  <2>1. [links[l] EXCEPT !.acting = @ \union {i}] \in Progress
    BY <1>c DEF Progress
  <2>2. links' = [links EXCEPT ![l] = [links[l] EXCEPT !.acting = @ \union {i}]]
    BY DEF BeginAction, BatchInv, TypeOK
  <2> QED
    BY <1>a, <2>1, <2>2 DEF BatchInv, TypeOK
<1>2. \A k \in 1 .. NLinks : LinkInv(k)' /\ InTurn(k)'
  <2> SUFFICES ASSUME NEW k \in 1 .. NLinks
               PROVE  LinkInv(k)' /\ InTurn(k)'
    OBVIOUS
  <2>1. CASE k = l
    <3>1. LinkInv(l)'
      BY <1>a, <1>d DEF BatchInv, LinkInv, Selected, Rows, InOrder, OverBudget, Budget
    <3>2. InTurn(l)'
      BY <1>a, <1>d DEF BatchInv, InTurn, Selected, Rows, SameThread, Threads
    <3> QED
      BY <2>1, <3>1, <3>2
  <2>2. CASE k # l
    BY <1>a, <1>b, <2>2, OthersKeep
  <2> QED
    BY <2>1, <2>2
<1>3. LinksInOrder' /\ Settled'
  BY <1>a, <1>b, <1>d DEF BatchInv, LinksInOrder, Settled, Ended, InOrder, OverBudget, Budget
<1>4. Failed' = Failed
  BY <1>b, <1>d, <1>a DEF Failed
<1> QED
  BY <1>1, <1>2, <1>3, <1>4, <1>a DEF BatchInv, Counted, InOrder, Valid

LEMMA ActionSucceedsInv ==
    ASSUME BatchInv, NEW l \in 1 .. NLinks, NEW i \in Places, ActionSucceeds(l, i)
    PROVE  BatchInv'
<1>a. i \in links[l].acting /\ UNCHANGED <<plan, failures, stopped, answered>>
  BY DEF ActionSucceeds
<1>b. /\ links'[l] = [links[l] EXCEPT !.acting = @ \ {i}, !.ok = @ \union {i}]
      /\ \A k \in 1 .. NLinks : k # l => links'[k] = links[k]
  BY DEF ActionSucceeds, BatchInv, TypeOK
<1>c. links[l] \in Progress /\ links[l].step = "acting"
  BY <1>a DEF BatchInv, TypeOK, LinkInv
<1>d. /\ links'[l].acting = links[l].acting \ {i}
      /\ links'[l].step = "acting" /\ links'[l].selected = links[l].selected
      /\ links'[l].ok = links[l].ok \union {i} /\ links'[l].failed = links[l].failed
  BY <1>b, <1>c DEF Progress
<1>1. TypeOK'
  <2>1. [links[l] EXCEPT !.acting = @ \ {i}, !.ok = @ \union {i}] \in Progress
    BY <1>c DEF Progress
  <2>2. links' = [links EXCEPT ![l] = [links[l] EXCEPT !.acting = @ \ {i}, !.ok = @ \union {i}]]
    BY DEF ActionSucceeds, BatchInv, TypeOK
  <2> QED
    BY <1>a, <2>1, <2>2 DEF BatchInv, TypeOK
<1>2. \A k \in 1 .. NLinks : LinkInv(k)' /\ InTurn(k)'
  <2> SUFFICES ASSUME NEW k \in 1 .. NLinks
               PROVE  LinkInv(k)' /\ InTurn(k)'
    OBVIOUS
  <2>1. CASE k = l
    <3>1. LinkInv(l)'
      BY <1>a, <1>c, <1>d DEF BatchInv, LinkInv, Selected, Rows, InOrder, OverBudget, Budget
    <3>2. InTurn(l)'
      BY <1>a, <1>d DEF BatchInv, InTurn, Selected, Rows, SameThread, Threads
    <3> QED
      BY <2>1, <3>1, <3>2
  <2>2. CASE k # l
    BY <1>a, <1>b, <2>2, OthersKeep
  <2> QED
    BY <2>1, <2>2
<1>3. LinksInOrder' /\ Settled'
  BY <1>a, <1>b, <1>c, <1>d
     DEF BatchInv, LinksInOrder, Settled, Ended, InOrder, OverBudget, Budget
<1>4. Failed' = Failed
  BY <1>b, <1>c, <1>d DEF Failed
<1> QED
  BY <1>1, <1>2, <1>3, <1>4, <1>a DEF BatchInv, Counted, InOrder, Valid

LEMMA ActionFailsInv ==
    ASSUME BatchInv, NEW l \in 1 .. NLinks, NEW i \in Places, ActionFails(l, i)
    PROVE  BatchInv'
<1> DEFINE step == IF InOrder /\ ShouldStop(failures + 1) THEN "broken_off" ELSE links[l].step
           new == [links[l] EXCEPT !.acting = @ \ {i}, !.failed = @ \union {i}, !.step = step]
<1>a. i \in links[l].acting /\ UNCHANGED <<plan, stopped, answered>>
  BY DEF ActionFails
<1>b. links' = [links EXCEPT ![l] = new]
  BY DEF ActionFails, BatchInv, TypeOK
<1>c. links[l] \in Progress /\ links[l].step = "acting" /\ i \notin Rows(l) /\ i \in Selected(l)
  BY <1>a DEF BatchInv, TypeOK, LinkInv
<1>e. failures \in Nat /\ failures' = IF InOrder THEN failures + 1 ELSE failures
  BY DEF ActionFails, BatchInv, TypeOK
<1>f. step \in {"acting", "broken_off"}
  BY <1>c
<1>g. InOrder => (step = "broken_off" <=> OverBudget')
  <2>1. ShouldStop(failures + 1) <=> Budget > 0 /\ failures + 1 >= Budget
    BY <1>e, StopsAtBudget DEF BatchInv
  <2>2. UNCHANGED Budget
    BY <1>a DEF Budget
  <2> QED
    BY <1>c, <1>e, <2>1, <2>2 DEF OverBudget
<1>h. ~InOrder => step = "acting"
  BY <1>c
<1> HIDE DEF step
<1>d. /\ links'[l].acting = links[l].acting \ {i}
      /\ links'[l].step = step /\ links'[l].selected = links[l].selected
      /\ links'[l].ok = links[l].ok /\ links'[l].failed = links[l].failed \union {i}
      /\ \A k \in 1 .. NLinks : k # l => links'[k] = links[k]
  BY <1>b, <1>c DEF Progress, BatchInv, TypeOK
<1>j. UNCHANGED InOrder /\ ~stopped
  BY <1>a, <1>c DEF InOrder, BatchInv, Settled
<1>k. \A k \in 1 .. NLinks : k # l /\ InOrder => links[k].step \in {"todo", "done", "error"}
  BY <1>c, AloneAtWork
<1>1. TypeOK'
  <2>1. new \in Progress
    BY <1>c, <1>f DEF Progress
  <2> HIDE DEF new
  <2> QED
    BY <1>a, <1>b, <1>e, <2>1 DEF BatchInv, TypeOK
<1>2. \A k \in 1 .. NLinks : LinkInv(k)' /\ InTurn(k)'
  <2> SUFFICES ASSUME NEW k \in 1 .. NLinks
               PROVE  LinkInv(k)' /\ InTurn(k)'
    OBVIOUS
  <2>1. CASE k = l
    <3>1. InOrder => links'[l].acting = {}
      <4> SUFFICES ASSUME InOrder, NEW j \in links[l].acting
                   PROVE  j = i
        BY <1>d
      <4>1. links[l].selected \in Nat /\ i \in 1 .. links[l].selected /\ j \in 1 .. links[l].selected
        BY <1>c, BatchAssumption DEF BatchInv, LinkInv, Selected, Progress
      <4>2. SameThread(i, j, links[l].selected) /\ SameThread(j, i, links[l].selected)
        BY <4>1, OneThread DEF BatchInv
      <4> QED
        BY <1>a, <1>c, <4>1, <4>2 DEF BatchInv, InTurn, LinkInv, Selected
    <3>2. LinkInv(l)'
      BY <1>a, <1>c, <1>d, <1>f, <1>g, <1>h, <1>j, <3>1 DEF BatchInv, LinkInv, Selected, Rows
    <3>3. InTurn(l)'
      BY <1>a, <1>d DEF BatchInv, InTurn, Selected, Rows, SameThread, Threads
    <3> QED
      BY <2>1, <3>2, <3>3
  <2>2. CASE k # l
    <3>1. InTurn(k)'
      BY <1>a, <1>d, <2>2 DEF BatchInv, InTurn, Selected, Rows, SameThread, Threads
    <3>2. LinkInv(k)'
      BY <1>a, <1>d, <1>e, <1>j, <1>k, <2>2 DEF BatchInv, LinkInv, Selected, Rows
    <3> QED
      BY <3>1, <3>2
  <2> QED
    BY <2>1, <2>2
<1>3. LinksInOrder'
  BY <1>c, <1>d, <1>f, <1>j DEF BatchInv, LinksInOrder, Ended
<1>4. Settled'
  BY <1>a, <1>c, <1>d, <1>j DEF BatchInv, Settled, Ended
<1>5. Counted'
  <2> DEFINE f == <<l, i>>
  <2>1. Failed' = Failed \union {f} /\ f \notin Failed
    <3>1. f \in (1 .. NLinks) \X (0 .. MaxMatched) /\ i # 0
      BY BatchAssumption DEF Places
    <3> QED
      BY <1>c, <1>d, <1>f, <3>1 DEF Failed, Rows
  <2>2. Cardinality(Failed') = Cardinality(Failed) + 1
    BY <2>1, FailedFinite, FS_AddElement
  <2> QED
    BY <1>e, <1>j, <2>2 DEF Counted, BatchInv
<1> QED
  BY <1>1, <1>2, <1>3, <1>4, <1>5, <1>a DEF BatchInv, Valid

LEMMA CloseLinkInv ==
    ASSUME BatchInv, NEW l \in 1 .. NLinks, CloseLink(l)
    PROVE  BatchInv'
<1>a. /\ \/ links[l].step = "broken_off"
         \/ links[l].step = "acting" /\ Rows(l) = Selected(l)
      /\ stopped' = (InOrder /\ Rows(l) # Selected(l))
      /\ UNCHANGED <<plan, failures, answered>>
  BY DEF CloseLink
<1>b. /\ links'[l] = [links[l] EXCEPT !.step = "done"]
      /\ \A k \in 1 .. NLinks : k # l => links'[k] = links[k]
  BY DEF CloseLink, BatchInv, TypeOK
<1>c. links[l] \in Progress /\ links[l].step \in {"acting", "broken_off"}
  BY <1>a DEF BatchInv, TypeOK
<1>d. /\ links'[l].acting = links[l].acting /\ links'[l].step = "done"
      /\ links'[l].selected = links[l].selected
      /\ links'[l].ok = links[l].ok /\ links'[l].failed = links[l].failed
  BY <1>b, <1>c DEF Progress
<1>e. UNCHANGED <<InOrder, Budget, OverBudget>> /\ ~stopped /\ ~answered
  BY <1>a, <1>c DEF InOrder, Budget, OverBudget, BatchInv, Settled, Ended
<1>f. stopped' => OverBudget
  BY <1>a DEF BatchInv, LinkInv
<1>1. TypeOK'
  <2>1. [links[l] EXCEPT !.step = "done"] \in Progress
    BY <1>c DEF Progress
  <2>2. links' = [links EXCEPT ![l] = [links[l] EXCEPT !.step = "done"]]
    BY DEF CloseLink, BatchInv, TypeOK
  <2> QED
    BY <1>a, <2>1, <2>2 DEF BatchInv, TypeOK
<1>2. \A k \in 1 .. NLinks : LinkInv(k)' /\ InTurn(k)'
  <2> SUFFICES ASSUME NEW k \in 1 .. NLinks
               PROVE  LinkInv(k)' /\ InTurn(k)'
    OBVIOUS
  <2>1. CASE k = l
    <3>1. links[l].acting = {}
      BY <1>a DEF BatchInv, LinkInv
    <3>2. links[l].step = "broken_off" => InOrder
      BY DEF BatchInv, LinkInv
    <3>3. LinkInv(l)'
      BY <1>a, <1>d, <3>1, <3>2 DEF BatchInv, LinkInv, Selected, Rows
    <3>4. InTurn(l)'
      BY <1>a, <1>d DEF BatchInv, InTurn, Selected, Rows, SameThread, Threads
    <3> QED
      BY <2>1, <3>3, <3>4
  <2>2. CASE k # l
    <3>1. InTurn(k)'
      BY <1>a, <1>b, <2>2 DEF BatchInv, InTurn, Selected, Rows, SameThread, Threads
    <3>2. LinkInv(k)'
      BY <1>b, <1>e, <2>2 DEF BatchInv, LinkInv, Selected, Rows
    <3> QED
      BY <3>1, <3>2
  <2> QED
    BY <2>1, <2>2
<1>3. LinksInOrder'
  BY <1>b, <1>c, <1>d, <1>e DEF BatchInv, LinksInOrder, Ended
<1>4. Settled'
  <2> SUFFICES ASSUME stopped', NEW k \in 1 .. NLinks
               PROVE  links'[k].step \notin {"acting", "broken_off"}
    BY <1>a, <1>e, <1>f DEF Settled
  <2>1. CASE k = l
    BY <1>d, <2>1
  <2>2. CASE k # l
    BY <1>a, <1>b, <1>c, <2>2, AloneAtWork
  <2> QED
    BY <2>1, <2>2
<1>5. Failed' = Failed
  BY <1>b, <1>c, <1>d DEF Failed
<1> QED
  BY <1>1, <1>2, <1>3, <1>4, <1>5, <1>a DEF BatchInv, Counted, InOrder, Valid

LEMMA AnswerInv ==
    ASSUME BatchInv, Answer
    PROVE  BatchInv'
<1>1. UNCHANGED <<plan, links, failures, stopped>> /\ answered' = TRUE
      /\ (stopped \/ \A l \in 1 .. NLinks : Ended(l))
  BY DEF Answer
<1>2. TypeOK'
  BY <1>1 DEF BatchInv, TypeOK
<1>3. \A l \in 1 .. NLinks : LinkInv(l)' /\ InTurn(l)'
  BY <1>1 DEF BatchInv, LinkInv, InTurn, Selected, Rows, InOrder, OverBudget, Budget,
              SameThread, Threads
<1>4. LinksInOrder' /\ Settled' /\ Counted'
  BY <1>1 DEF BatchInv, LinksInOrder, Settled, Counted, Failed, Ended, InOrder, OverBudget, Budget
<1> QED
  BY <1>1, <1>2, <1>3, <1>4 DEF BatchInv, Valid

LEMMA StutterInv ==
    ASSUME BatchInv, UNCHANGED vars
    PROVE  BatchInv'
<1>1. \A l \in 1 .. NLinks : LinkInv(l)' /\ InTurn(l)'
  BY DEF vars, BatchInv, LinkInv, InTurn, Selected, Rows, InOrder, OverBudget, Budget,
         SameThread, Threads
<1>2. TypeOK' /\ LinksInOrder' /\ Settled' /\ Counted'
  BY DEF vars, BatchInv, TypeOK, LinksInOrder, Settled, Counted, Failed, Ended, InOrder,
         OverBudget, Budget
<1> QED
  BY <1>1, <1>2 DEF vars, BatchInv, Valid

LEMMA NextInv == BatchInv /\ [Next]_vars => BatchInv'
<1> SUFFICES ASSUME BatchInv, [Next]_vars PROVE BatchInv'
  OBVIOUS
<1>1. CASE \E l \in 1 .. NLinks : ListLink(l) \/ ListFails(l) \/ CloseLink(l)
  BY <1>1, ListLinkInv, ListFailsInv, CloseLinkInv
<1>2. CASE \E l \in 1 .. NLinks, i \in 1 .. MaxMatched : Act(l, i)
  BY <1>2, BeginActionInv, ActionSucceedsInv, ActionFailsInv DEF Act, Places
<1>3. CASE Answer
  BY <1>3, AnswerInv
<1>4. CASE UNCHANGED vars
  BY <1>4, StutterInv
<1> QED
  BY <1>1, <1>2, <1>3, <1>4 DEF Next

-----------------------------------------------------------------------------
(* Theorems *)

\* What holds throughout a batch: of each workspace, of the order of the work, of
\* the failures counted (BatchInv).
THEOREM BatchInvariant == Spec => []BatchInv
<1> QED
  BY InitInv, NextInv, PTL DEF Spec

\* A batch answers when nothing is in hand, and says truly whether it is complete
\* (HonestAnswer).
THEOREM HonestAnswerAlways == Spec => []HonestAnswer
<1>1. BatchInv => HonestAnswer
  <2> SUFFICES ASSUME BatchInv, answered
               PROVE  /\ \A l \in 1 .. NLinks : links[l].acting = {}
                      /\ ~stopped => \A l \in 1 .. NLinks : Ended(l) /\ Rows(l) = Selected(l)
                      /\ stopped => Budget > 0 /\ failures >= Budget
    BY DEF HonestAnswer
  <2>1. \A l \in 1 .. NLinks : links[l].acting = {}
    BY DEF BatchInv, Settled, LinkInv, Ended
  <2>2. ASSUME ~stopped, NEW l \in 1 .. NLinks
        PROVE  Ended(l) /\ Rows(l) = Selected(l)
    BY <2>2 DEF BatchInv, Settled, LinkInv, Ended
  <2> QED
    BY <2>1, <2>2 DEF BatchInv, Settled, OverBudget
<1> QED
  BY <1>1, BatchInvariant, PTL

\* No workspace has more sessions in hand than --jobs allows (JobsPerLink).
THEOREM JobsPerLinkAlways == Spec => []JobsPerLink
<1>1. BatchInv => JobsPerLink
  BY ActingBound DEF JobsPerLink
<1> QED
  BY <1>1, BatchInvariant, PTL

\* After the failure that exhausts the budget no session of that workspace is
\* touched any more (BudgetPerLink).
THEOREM BudgetPerLinkAlways == Spec => BudgetPerLink
<1> DEFINE Held == \A l \in 1 .. NLinks :
        Budget > 0 /\ Begins(l) /\ links[l].failed # {} => Cardinality(Failed) < Budget
<1>1. BatchInv /\ [Next]_vars => [Held]_vars
  <2> SUFFICES ASSUME BatchInv, Next, NEW l \in 1 .. NLinks,
                      Budget > 0, Begins(l), links[l].failed # {}
               PROVE  Cardinality(Failed) < Budget
    OBVIOUS
  <2>1. InOrder
    BY JobsType DEF BatchInv, Valid, Budget, InOrder
  <2>2. links[l].step = "acting"
    <3>1. PICK k \in 1 .. NLinks, i \in Places : BeginAction(k, i)
      <4>1. ASSUME NEW k \in 1 .. NLinks, ListLink(k) \/ ListFails(k) \/ CloseLink(k)
            PROVE  links'[l].acting = links[l].acting
        <5>1. links[l] \in Progress /\ links \in [1 .. NLinks -> Progress]
          BY DEF BatchInv, TypeOK
        <5> QED
          <6>1. CASE ListLink(k)
            <7>1. PICK n, ok, step :
                    links' = [links EXCEPT ![k].selected = n, ![k].ok = ok, ![k].step = step]
              BY <6>1 DEF ListLink
            <7> QED
              BY <5>1, <7>1 DEF Progress
          <6>2. CASE ListFails(k) \/ CloseLink(k)
            <7>1. PICK step : links' = [links EXCEPT ![k].step = step]
              BY <6>2 DEF ListFails, CloseLink
            <7> QED
              BY <5>1, <7>1 DEF Progress
          <6> QED
            BY <4>1, <6>1, <6>2
      <4>2. ASSUME NEW k \in 1 .. NLinks, NEW i \in Places,
                   ActionSucceeds(k, i) \/ ActionFails(k, i)
            PROVE  links'[l].acting \subseteq links[l].acting
        <5>1. links[l] \in Progress /\ links \in [1 .. NLinks -> Progress]
          BY DEF BatchInv, TypeOK
        <5> QED
          <6>1. CASE ActionSucceeds(k, i)
            BY <5>1, <6>1 DEF ActionSucceeds, Progress
          <6>2. CASE ActionFails(k, i)
            <7>1. PICK step :
                    links' = [links EXCEPT ![k].acting = @ \ {i}, ![k].failed = @ \union {i},
                                           ![k].step = step]
              <8> DEFINE step == IF InOrder /\ ShouldStop(failures + 1) THEN "broken_off"
                                                                        ELSE links[k].step
              <8>1. links' = [links EXCEPT ![k].acting = @ \ {i}, ![k].failed = @ \union {i},
                                           ![k].step = step]
                BY <5>1, <6>2 DEF ActionFails
              <8> QED
                BY <8>1
            <7> QED
              BY <5>1, <7>1 DEF Progress
          <6> QED
            BY <4>2, <6>1, <6>2
      <4>3. ~Answer
        BY DEF Answer, Begins
      <4> QED
        BY <4>1, <4>2, <4>3 DEF Begins, Next, Act, Places
    <3>2. k = l
      BY <3>1 DEF Begins, BeginAction, BatchInv, TypeOK
    <3> QED
      BY <3>1, <3>2 DEF BeginAction
  <2>3. ~OverBudget
    BY <2>1, <2>2 DEF BatchInv, LinkInv
  <2>4. failures \in Nat /\ Budget \in Nat /\ failures = Cardinality(Failed)
    BY <2>1, BudgetType DEF BatchInv, TypeOK, Counted
  <2> QED
    BY <2>3, <2>4 DEF OverBudget
<1> QED
  BY <1>1, BatchInvariant, PTL DEF Spec, BudgetPerLink
=============================================================================
