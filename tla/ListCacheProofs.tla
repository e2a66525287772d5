-------------------------- MODULE ListCacheProofs --------------------------
(***************************************************************************)
(* Proofs about ListCache: only a save between a listing's load and its    *)
(* second look at the signature can make a believed cache or index entry   *)
(* wrong, no listing shows a worker that was not there, and one that no    *)
(* save disturbs answers what is in the file.                              *)
(***************************************************************************)
EXTENDS ListCache, TLAPS

\* What is stored about a state file f is not newer than f, and right if it has the
\* signature of f and the link has not been raced.
GoodDoc(f, calm, doc) ==
    /\ doc.sig <= f.sig
    /\ calm /\ f.sig # NoSignature /\ doc.sig = f.sig => doc.sessions = f.sessions

GoodEntry(f, calm, entry) ==
    /\ entry.sig <= f.sig
    /\ calm /\ f.sig # NoSignature /\ entry.sig = f.sig => entry = Summary(f.sig, f.sessions)

Listed == {"refresh", "truncate", "write", "answer"}

\* So is what a listing of f has in hand and will store; it knows every list that
\* f had since it began.
GoodHand(f, calm, c) ==
    /\ f.sessions \in c.held
    /\ c.sig <= f.sig
    /\ c.scanSig <= f.sig
    /\ calm /\ f.sig # NoSignature =>
         /\ c.step = "refresh" /\ Cacheable(c.list) => c.list = f.sessions
         /\ c.step \in {"truncate", "write"} /\ c.sig = f.sig => c.list = f.sessions
         /\ c.scanSig = f.sig =>
              /\ c.step = "cache" => c.sig = f.sig
              /\ c.step \in Listed => c.list = f.sessions

\* A list in hand is one the file had, or has no worker in it; between two links a
\* caller remembers no signature and has no link.
Sane(c) ==
    /\ c.step \in Listed => c.list \in c.held \/ Cacheable(c.list)
    /\ c.step \in {"idle", "scan", "persist"} =>
            c.sig = NoSignature /\ c.scanSig = NoSignature /\ c.link = NoLink

StoredInv ==
    \A l \in Links :
        /\ GoodDoc(file[l], l \notin raced, cache[l])
        /\ GoodEntry(file[l], l \notin raced, index[l])

CallInv ==
    \A p \in Callers :
        /\ Sane(call[p])
        /\ \A l \in Links :
             /\ GoodEntry(file[l], l \notin raced, call[p].index[l])
             /\ call[p].link = l => GoodHand(file[l], l \notin raced, call[p])

ListInv == TypeOK /\ StoredInv /\ CallInv

-----------------------------------------------------------------------------
(* Facts about the contents *)

LEMMA Constants ==
    /\ Empty \in Lists /\ Cacheable(Empty)
    /\ Miss \in Docs /\ NoEntry \in Entries /\ EmptyIndex \in [Links -> Entries]
    /\ Idle \in Calls
<1>1. Empty \in Lists
    BY DEF Empty, Lists
<1>2. Cacheable(Empty)
    BY ListAssumption DEF Empty, Cacheable, Candidates
<1>3. Miss \in Docs /\ NoEntry \in Entries /\ EmptyIndex \in [Links -> Entries]
    BY <1>1 DEF Miss, Docs, NoEntry, Entries, EmptyIndex, NoSignature
<1>4. Idle \in Calls
    BY <1>1, <1>3 DEF Idle, Calls, Steps, NoSignature
<1> QED
    BY <1>1, <1>2, <1>3, <1>4

LEMMA SummaryTyped ==
    ASSUME NEW sig \in Nat, NEW list \in Lists
    PROVE  Summary(sig, list) \in Entries
BY DEF Summary, Entries, Lists, Statuses

LEMMA NothingIsGood ==
    ASSUME NEW f \in Docs, NEW calm \in BOOLEAN
    PROVE  GoodDoc(f, calm, Miss) /\ GoodEntry(f, calm, NoEntry) /\ \A l \in Links : GoodEntry(f, calm, EmptyIndex[l])
BY DEF GoodDoc, GoodEntry, Miss, NoEntry, EmptyIndex, NoSignature, Docs

LEMMA IdleIsGood ==
    ASSUME NEW f \in Docs, NEW calm \in BOOLEAN
    PROVE  Sane(Idle) /\ Idle.link \notin Links /\ \A l \in Links : GoodEntry(f, calm, Idle.index[l])
BY NothingIsGood, ListAssumption DEF Sane, Idle, Listed

-----------------------------------------------------------------------------
LEMMA ListInvInit ==
    ASSUME Init
    PROVE  ListInv
<1>1. TypeOK
    BY Constants DEF Init, TypeOK
<1>2. StoredInv
    BY Constants, NothingIsGood DEF Init, StoredInv
<1>3. CallInv
    BY Constants, IdleIsGood DEF Init, CallInv
<1> QED
    BY <1>1, <1>2, <1>3 DEF ListInv

-----------------------------------------------------------------------------
(* Steps that save nothing: one caller, what is stored, and no file *)

Quiet(p, c) ==
    /\ file' = file /\ raced' = raced
    /\ call' = [call EXCEPT ![p] = c]

\* It is enough to look at what the step stores and at the caller's new state.
LEMMA QuietStep ==
    ASSUME ListInv, NEW p \in Callers, NEW c \in Calls, Quiet(p, c), Sane(c),
           \A l \in Links :
              /\ cache'[l] \in Docs /\ GoodDoc(file[l], l \notin raced, cache'[l])
              /\ index'[l] \in Entries /\ GoodEntry(file[l], l \notin raced, index'[l])
              /\ GoodEntry(file[l], l \notin raced, c.index[l])
              /\ c.link = l => GoodHand(file[l], l \notin raced, c),
           cache' \in [Links -> Docs], index' \in [Links -> Entries]
    PROVE  ListInv'
<1>1. TypeOK'
    BY DEF ListInv, TypeOK, Quiet
<1>2. StoredInv'
    BY DEF StoredInv, Quiet
<1>3. CallInv'
    <2> SUFFICES ASSUME NEW q \in Callers
                 PROVE  /\ Sane(call'[q])
                        /\ \A l \in Links :
                             /\ GoodEntry(file[l], l \notin raced, call'[q].index[l])
                             /\ call'[q].link = l => GoodHand(file[l], l \notin raced, call'[q])
        BY DEF CallInv, Quiet
    <2>1. call'[q] = IF q = p THEN c ELSE call[q]
        BY DEF Quiet, ListInv, TypeOK
    <2> QED
        BY <2>1 DEF ListInv, CallInv
<1> QED
    BY <1>1, <1>2, <1>3 DEF ListInv

\* Most steps store nothing either, and keep the caller's copy of the index.
LEMMA HandStep ==
    ASSUME ListInv, NEW p \in Callers, NEW c \in Calls, Quiet(p, c), Sane(c),
           UNCHANGED <<cache, index>>, c.index = call[p].index,
           \A l \in Links : c.link = l => GoodHand(file[l], l \notin raced, c)
    PROVE  ListInv'
<1>1. \A l \in Links : GoodEntry(file[l], l \notin raced, c.index[l])
    BY DEF ListInv, CallInv
<1> QED
    BY <1>1, QuietStep DEF ListInv, TypeOK, StoredInv

-----------------------------------------------------------------------------
(* The steps of one listing *)

LEMMA CallKnown ==
    ASSUME ListInv, NEW p \in Callers, NEW l \in Links
    PROVE  /\ call[p] \in Calls /\ file[l] \in Docs /\ cache[l] \in Docs /\ Sane(call[p])
           /\ GoodDoc(file[l], l \notin raced, cache[l])
           /\ call[p].link = l => GoodHand(file[l], l \notin raced, call[p])
BY DEF ListInv, TypeOK, StoredInv, CallInv

LEMMA BeginListKeeps ==
    ASSUME ListInv, NEW p \in Callers, NEW l \in Links, BeginList(p, l)
    PROVE  ListInv'
<1> DEFINE c == [call[p] EXCEPT !.step = "signature", !.link = l, !.held = {file[l].sessions}]
<1>1. call[p] \in Calls /\ call[p].step = "idle" /\ file[l] \in Docs /\ Sane(call[p])
    BY CallKnown DEF BeginList
<1>2. c \in Calls /\ c.index = call[p].index /\ c.step = "signature" /\ c.link = l /\ c.sig = call[p].sig
      /\ c.scanSig = call[p].scanSig /\ c.held = {file[l].sessions}
    BY <1>1 DEF Calls, Steps, Docs
<1>3. Quiet(p, c) /\ UNCHANGED <<cache, index>>
    BY DEF Quiet, BeginList, ListInv, TypeOK
<1>4. Sane(c) /\ GoodHand(file[l], l \notin raced, c)
    BY <1>1, <1>2 DEF Sane, GoodHand, Listed, Docs, NoSignature
<1> HIDE DEF c
<1> QED
    BY <1>2, <1>3, <1>4, HandStep

LEMMA ReadSignatureKeeps ==
    ASSUME ListInv, NEW p \in Callers, NEW l \in Links, ReadSignature(p, l)
    PROVE  ListInv'
<1> DEFINE c == [call[p] EXCEPT !.sig = file[l].sig,
                                !.step = IF file[l].sig = NoSignature THEN "load" ELSE "cache"]
<1>1. call[p] \in Calls /\ call[p].link = l /\ file[l] \in Docs /\ GoodHand(file[l], l \notin raced, call[p])
    BY CallKnown DEF ReadSignature, At
<1>2. c \in Calls /\ c.index = call[p].index /\ c.step \in {"load", "cache"} /\ c.link = l
      /\ c.sig = file[l].sig /\ c.scanSig = call[p].scanSig /\ c.held = call[p].held
    BY <1>1 DEF Calls, Steps, Docs
<1>3. Quiet(p, c) /\ UNCHANGED <<cache, index>>
    BY DEF Quiet, ReadSignature, ListInv, TypeOK
<1>4. Sane(c) /\ GoodHand(file[l], l \notin raced, c)
    BY <1>1, <1>2 DEF Sane, GoodHand, Listed, Docs
<1> HIDE DEF c
<1> QED
    BY <1>2, <1>3, <1>4, HandStep

LEMMA ReadCacheKeeps ==
    ASSUME ListInv, NEW p \in Callers, NEW l \in Links, ReadCache(p, l)
    PROVE  ListInv'
<1> DEFINE hit == [call[p] EXCEPT !.step = "answer", !.list = cache[l].sessions]
           miss == [call[p] EXCEPT !.step = "load"]
<1>1. call[p] \in Calls /\ call[p].link = l /\ call[p].step = "cache" /\ file[l] \in Docs /\ cache[l] \in Docs
      /\ GoodHand(file[l], l \notin raced, call[p]) /\ GoodDoc(file[l], l \notin raced, cache[l])
    BY CallKnown DEF ReadCache, At
<1>2. CASE cache[l].sig = call[p].sig /\ Cacheable(cache[l].sessions)
    <2>1. hit \in Calls /\ hit.index = call[p].index /\ hit.step = "answer" /\ hit.link = l
          /\ hit.sig = call[p].sig /\ hit.scanSig = call[p].scanSig /\ hit.list = cache[l].sessions
          /\ hit.held = call[p].held
        BY <1>1 DEF Calls, Steps, Docs
    <2>2. Quiet(p, hit) /\ UNCHANGED <<cache, index>>
        BY <1>2 DEF Quiet, ReadCache, ListInv, TypeOK
    <2>3. Sane(hit) /\ GoodHand(file[l], l \notin raced, hit)
        BY <1>1, <1>2, <2>1 DEF Sane, GoodHand, GoodDoc, Listed
    <2> HIDE DEF hit
    <2> QED
        BY <2>1, <2>2, <2>3, HandStep
<1>3. CASE ~(cache[l].sig = call[p].sig /\ Cacheable(cache[l].sessions))
    <2>1. miss \in Calls /\ miss.index = call[p].index /\ miss.step = "load" /\ miss.link = l
          /\ miss.sig = call[p].sig /\ miss.scanSig = call[p].scanSig
          /\ miss.held = call[p].held
        BY <1>1 DEF Calls, Steps
    <2>2. Quiet(p, miss) /\ UNCHANGED <<cache, index>>
        BY <1>3 DEF Quiet, ReadCache, Goto, ListInv, TypeOK
    <2>3. Sane(miss) /\ GoodHand(file[l], l \notin raced, miss)
        BY <1>1, <2>1 DEF Sane, GoodHand, Listed
    <2> HIDE DEF miss
    <2> QED
        BY <2>1, <2>2, <2>3, HandStep
<1> QED
    BY <1>2, <1>3

LEMMA LoadKeeps ==
    ASSUME ListInv, NEW p \in Callers, NEW l \in Links, Load(p, l)
    PROVE  ListInv'
<1> DEFINE c == [call[p] EXCEPT
            !.list = file[l].sessions,
            !.ids = Candidates(file[l].sessions),
            !.step = IF Candidates(file[l].sessions) = {} THEN "refresh" ELSE "reconcile"]
<1>1. call[p] \in Calls /\ call[p].link = l /\ file[l] \in Docs /\ GoodHand(file[l], l \notin raced, call[p])
    BY CallKnown DEF Load, At
<1>2. Candidates(file[l].sessions) \subseteq Sessions
    BY DEF Candidates
<1>3. c \in Calls /\ c.index = call[p].index /\ c.step \in {"refresh", "reconcile"} /\ c.link = l
      /\ c.sig = call[p].sig /\ c.scanSig = call[p].scanSig /\ c.held = call[p].held
      /\ c.list = file[l].sessions
    <2> DEFINE old == call[p]
               list == file[l].sessions
               ids == Candidates(file[l].sessions)
               step == IF ids = {} THEN "refresh" ELSE "reconcile"
               d == [old EXCEPT !.list = list, !.ids = ids, !.step = step]
    <2>1. /\ old \in Calls /\ list \in Lists /\ ids \subseteq Sessions /\ old.link = l
          /\ step \in Steps /\ step \in {"refresh", "reconcile"} /\ c = d
        BY <1>1, <1>2 DEF Steps, Docs
    <2> HIDE DEF old, list, ids, step, c
    <2>2. d \in Calls
        BY <2>1 DEF Calls
    <2>3. /\ d.index = old.index /\ d.step = step /\ d.link = old.link /\ d.sig = old.sig
          /\ d.scanSig = old.scanSig /\ d.held = old.held /\ d.list = list
        BY <2>1 DEF Calls
    <2> HIDE DEF d
    <2> QED
        BY <2>1, <2>2, <2>3 DEF old, list
<1>4. Quiet(p, c) /\ UNCHANGED <<cache, index>>
    BY DEF Quiet, Load, ListInv, TypeOK
<1>5. Sane(c) /\ GoodHand(file[l], l \notin raced, c)
    BY <1>1, <1>3 DEF Sane, GoodHand, Listed
<1> HIDE DEF c
<1> QED
    BY <1>3, <1>4, <1>5, HandStep

\* A caller that leaves a link, or gives up, has nothing in hand.
LEMMA LeaveIsGood ==
    ASSUME NEW c \in Calls
    PROVE  /\ Leave(c) \in Calls /\ Sane(Leave(c)) /\ Leave(c).link \notin Links
           /\ Leave(c).index = c.index \/ Leave(c) = Idle
<1> DEFINE d == [c EXCEPT !.step = "scan", !.link = NoLink, !.scanSig = NoSignature,
                          !.sig = NoSignature, !.ids = {}, !.list = Empty, !.held = {}]
<1>1. Empty \in Lists /\ "scan" \in Steps /\ "scan" \notin Listed /\ NoSignature \in Nat
    BY Constants DEF Steps, Listed, NoSignature
<1>2. d \in Calls
    BY <1>1 DEF Calls
<1>3. /\ d.step = "scan" /\ d.link = NoLink /\ d.sig = NoSignature /\ d.scanSig = NoSignature
      /\ d.index = c.index
    BY DEF Calls
<1> HIDE DEF d
<1>4. Sane(d)
    BY <1>1, <1>3 DEF Sane
<1>5. Leave(c) = d \/ Leave(c) = Idle
    BY DEF Leave, d
<1> QED
    BY <1>2, <1>3, <1>4, <1>5, Constants, IdleIsGood, ListAssumption DEF Idle

\* A step that ends a listing, or a scan, and stores at most its index.
LEMMA EndStep ==
    ASSUME ListInv, NEW p \in Callers, NEW c \in Calls, Quiet(p, c), UNCHANGED cache,
           Sane(c), c.link \notin Links, c.index = call[p].index \/ c = Idle,
           index' \in {index, EmptyIndex, call[p].index}
    PROVE  ListInv'
<1>1. \A l \in Links : file[l] \in Docs /\ GoodEntry(file[l], l \notin raced, EmptyIndex[l])
    BY NothingIsGood DEF ListInv, TypeOK
<1>2. \A l \in Links :
        /\ GoodEntry(file[l], l \notin raced, call[p].index[l])
        /\ GoodEntry(file[l], l \notin raced, index[l])
    BY DEF ListInv, CallInv, StoredInv
<1>3. \A l \in Links : GoodEntry(file[l], l \notin raced, c.index[l])
    BY <1>1, <1>2, IdleIsGood
<1>4. index' \in [Links -> Entries]
    BY Constants DEF ListInv, TypeOK, Calls
<1>5. \A l \in Links : index'[l] \in Entries /\ GoodEntry(file[l], l \notin raced, index'[l])
    BY <1>1, <1>2, <1>4
<1>6. cache' \in [Links -> Docs] /\ \A l \in Links : GoodDoc(file[l], l \notin raced, cache'[l])
    BY DEF ListInv, TypeOK, StoredInv
<1> QED
    BY <1>3, <1>4, <1>5, <1>6, QuietStep

LEMMA EndKeeps ==
    ASSUME ListInv, NEW p \in Callers,
           TruncateIndex(p) \/ PersistIndex(p) \/ Crash(p) \/ \E l \in Links : ReconcileFails(p, l)
    PROVE  ListInv'
<1>1. call[p] \in Calls
    BY DEF ListInv, TypeOK
<1>2. CASE call' = [call EXCEPT ![p] = Idle] /\ ~\E l \in Links : ReconcileFails(p, l)
    <2>1. Quiet(p, Idle) /\ UNCHANGED cache /\ index' \in {index, EmptyIndex, call[p].index}
        BY <1>2 DEF Quiet, TruncateIndex, PersistIndex, Crash
    <2>2. Idle \in Calls /\ Sane(Idle) /\ Idle.link \notin Links
        BY Constants, ListAssumption DEF Sane, Idle, Listed
    <2> QED
        BY <2>1, <2>2, EndStep
<1>3. CASE \E l \in Links : ReconcileFails(p, l)
    <2>1. Quiet(p, Leave(call[p])) /\ UNCHANGED <<cache, index>>
        BY <1>3 DEF Quiet, ReconcileFails
    <2> QED
        BY <1>1, <2>1, LeaveIsGood, EndStep
<1>4. CASE TruncateIndex(p) /\ index' = EmptyIndex /\ call' = Goto(p, "persist")
    <2> DEFINE c == [call[p] EXCEPT !.step = "persist"]
    <2>1. call[p].step = "scan" /\ Sane(call[p])
        BY <1>4 DEF TruncateIndex, ListInv, CallInv
    <2>2. c \in Calls /\ c.index = call[p].index /\ c.step = "persist" /\ c.link = call[p].link
          /\ c.sig = call[p].sig /\ c.scanSig = call[p].scanSig
        BY <1>1 DEF Calls, Steps
    <2>3. Quiet(p, c) /\ UNCHANGED cache
        BY <1>4 DEF Quiet, TruncateIndex, Goto, ListInv, TypeOK
    <2>4. Sane(c) /\ c.link \notin Links
        BY <2>1, <2>2, ListAssumption DEF Sane, Listed
    <2> HIDE DEF c
    <2> QED
        BY <1>4, <2>2, <2>3, <2>4, EndStep
<1> QED
    BY <1>2, <1>3, <1>4 DEF TruncateIndex, PersistIndex, Crash

\* A step of a listing that may put a good document into the cache.
LEMMA CacheStep ==
    ASSUME ListInv, NEW p \in Callers, NEW l \in Links, NEW c \in Calls, Quiet(p, c), UNCHANGED index,
           Sane(c), c.link = l, c.index = call[p].index, GoodHand(file[l], l \notin raced, c),
           NEW doc \in Docs, GoodDoc(file[l], l \notin raced, doc),
           cache' \in {cache, [cache EXCEPT ![l] = Miss], [cache EXCEPT ![l] = doc]}
    PROVE  ListInv'
<1>1. GoodDoc(file[l], l \notin raced, Miss) /\ Miss \in Docs
    BY Constants, NothingIsGood DEF ListInv, TypeOK
<1>2. cache' \in [Links -> Docs] /\ \A k \in Links : GoodDoc(file[k], k \notin raced, cache'[k])
    BY <1>1 DEF ListInv, TypeOK, StoredInv
<1>3. \A k \in Links : GoodEntry(file[k], k \notin raced, c.index[k])
    BY DEF ListInv, CallInv
<1>4. index' \in [Links -> Entries] /\ \A k \in Links : GoodEntry(file[k], k \notin raced, index'[k])
    BY DEF ListInv, TypeOK, StoredInv
<1> QED
    BY <1>2, <1>3, <1>4, QuietStep

LEMMA RefreshKeeps ==
    ASSUME ListInv, NEW p \in Callers, NEW l \in Links, Refresh(p, l)
    PROVE  ListInv'
<1> DEFINE gone == [call[p] EXCEPT !.step = "answer"]
           kept == [call[p] EXCEPT !.step = "truncate", !.sig = file[l].sig]
<1>1. call[p] \in Calls /\ call[p].link = l /\ call[p].step = "refresh" /\ file[l] \in Docs
      /\ GoodHand(file[l], l \notin raced, call[p]) /\ Sane(call[p])
    BY CallKnown DEF Refresh, At
<1>2. CASE cache' \in {cache, [cache EXCEPT ![l] = Miss]} /\ call' = Goto(p, "answer")
    <2>1. gone \in Calls /\ gone.index = call[p].index /\ gone.step = "answer" /\ gone.link = l
          /\ gone.sig = call[p].sig /\ gone.scanSig = call[p].scanSig /\ gone.list = call[p].list
          /\ gone.held = call[p].held
        BY <1>1 DEF Calls, Steps
    <2>2. Quiet(p, gone) /\ UNCHANGED index
        BY <1>2 DEF Quiet, Refresh, Goto, ListInv, TypeOK
    <2>3. Sane(gone) /\ GoodHand(file[l], l \notin raced, gone)
        BY <1>1, <2>1 DEF Sane, GoodHand, Listed
    <2>4. Miss \in Docs /\ GoodDoc(file[l], l \notin raced, Miss)
        BY <1>1, Constants, NothingIsGood
    <2> HIDE DEF gone
    <2> QED
        BY <1>2, <2>1, <2>2, <2>3, <2>4, CacheStep
<1>3. CASE /\ Cacheable(call[p].list) /\ file[l].sig # NoSignature /\ UNCHANGED cache
           /\ call' = [call EXCEPT ![p].step = "truncate", ![p].sig = file[l].sig]
    <2>1. kept \in Calls /\ kept.index = call[p].index /\ kept.step = "truncate" /\ kept.link = l
          /\ kept.sig = file[l].sig /\ kept.scanSig = call[p].scanSig /\ kept.list = call[p].list
          /\ kept.held = call[p].held
        BY <1>1 DEF Calls, Steps, Docs
    <2>2. Quiet(p, kept) /\ UNCHANGED <<cache, index>>
        BY <1>3 DEF Quiet, Refresh, ListInv, TypeOK
    <2>3. Sane(kept) /\ GoodHand(file[l], l \notin raced, kept)
        BY <1>1, <1>3, <2>1 DEF Sane, GoodHand, Listed, Docs
    <2> HIDE DEF kept
    <2> QED
        BY <2>1, <2>2, <2>3, HandStep
<1> QED
    BY <1>2, <1>3 DEF Refresh

LEMMA StoreKeeps ==
    ASSUME ListInv, NEW p \in Callers, NEW l \in Links, TruncateCache(p, l) \/ WriteCache(p, l)
    PROVE  ListInv'
<1> DEFINE doc == [sig |-> call[p].sig, sessions |-> call[p].list]
<1>1. call[p] \in Calls /\ call[p].link = l /\ call[p].step \in {"truncate", "write"} /\ file[l] \in Docs
      /\ GoodHand(file[l], l \notin raced, call[p]) /\ Sane(call[p])
    BY CallKnown DEF TruncateCache, WriteCache, At
<1>2. doc \in Docs /\ GoodDoc(file[l], l \notin raced, doc)
    BY <1>1 DEF Docs, Calls, GoodHand, GoodDoc
<1>3. cache' \in {cache, [cache EXCEPT ![l] = Miss], [cache EXCEPT ![l] = doc]}
    BY DEF TruncateCache, WriteCache
<1>4. PICK step \in {"write", "answer"} : call' = Goto(p, step) /\ (step = "write" => call[p].step = "truncate")
    BY DEF TruncateCache, WriteCache, At
<1> DEFINE c == [call[p] EXCEPT !.step = step]
<1>5. c \in Calls /\ c.index = call[p].index /\ c.step = step /\ c.link = l
      /\ c.sig = call[p].sig /\ c.scanSig = call[p].scanSig /\ c.list = call[p].list
      /\ c.held = call[p].held
    BY <1>1 DEF Calls, Steps
<1>6. Quiet(p, c) /\ UNCHANGED index
    BY <1>4 DEF Quiet, TruncateCache, WriteCache, Goto, ListInv, TypeOK
<1>7. Sane(c) /\ GoodHand(file[l], l \notin raced, c)
    BY <1>1, <1>5 DEF Sane, GoodHand, Listed
<1> HIDE DEF c, doc
<1> QED
    BY <1>2, <1>3, <1>5, <1>6, <1>7, CacheStep

\* The entry of the scan has the signature from before its listing.
LEMMA AnswerKeeps ==
    ASSUME ListInv, NEW p \in Callers, NEW l \in Links, Answer(p, l)
    PROVE  ListInv'
<1> DEFINE e == [call[p] EXCEPT !.index[l] = Summary(call[p].scanSig, call[p].list)]
           c == Leave(IF call[p].scan /\ call[p].scanSig # NoSignature THEN e ELSE call[p])
<1>1. call[p] \in Calls /\ call[p].link = l /\ call[p].step = "answer" /\ file[l] \in Docs
      /\ GoodHand(file[l], l \notin raced, call[p])
    BY CallKnown DEF Answer, At
<1>2. \A k \in Links : file[k] \in Docs /\ GoodEntry(file[k], k \notin raced, call[p].index[k])
    BY DEF ListInv, TypeOK, CallInv
<1>3. Summary(call[p].scanSig, call[p].list) \in Entries
    BY <1>1, SummaryTyped DEF Calls
<1>4. e \in Calls /\ e.index = [call[p].index EXCEPT ![l] = Summary(call[p].scanSig, call[p].list)]
    BY <1>1, <1>3 DEF Calls
<1>5. call[p].scanSig # NoSignature =>
        GoodEntry(file[l], l \notin raced, Summary(call[p].scanSig, call[p].list))
    BY <1>1 DEF GoodHand, GoodEntry, Summary, Listed
<1>6. call[p].scanSig # NoSignature => \A k \in Links : GoodEntry(file[k], k \notin raced, e.index[k])
    BY <1>1, <1>2, <1>4, <1>5 DEF Calls
<1>7. Quiet(p, c) /\ UNCHANGED <<cache, index>>
    BY DEF Quiet, Answer
<1> HIDE DEF e
<1>8. c \in Calls /\ Sane(c) /\ c.link \notin Links
    BY <1>1, <1>4, LeaveIsGood
<1>9. \A k \in Links : GoodEntry(file[k], k \notin raced, c.index[k])
    BY <1>1, <1>2, <1>4, <1>6, LeaveIsGood, IdleIsGood
<1> HIDE DEF c
<1> QED
    BY <1>7, <1>8, <1>9, QuietStep DEF ListInv, TypeOK, StoredInv

LEMMA BeginScanKeeps ==
    ASSUME ListInv, NEW p \in Callers, NEW filter \in Statuses \union {"all"}, BeginScan(p, filter)
    PROVE  ListInv'
<1> DEFINE c == [call[p] EXCEPT !.step = "scan", !.scan = TRUE, !.filter = filter, !.todo = Links,
                                !.index = index]
<1>1. call[p] \in Calls /\ call[p].step = "idle" /\ Sane(call[p]) /\ index \in [Links -> Entries]
    BY DEF BeginScan, ListInv, TypeOK, CallInv
<1>2. c \in Calls /\ c.index = index /\ c.step = "scan" /\ c.link = call[p].link
      /\ c.sig = call[p].sig /\ c.scanSig = call[p].scanSig
    BY <1>1 DEF Calls, Steps
<1>3. Quiet(p, c) /\ UNCHANGED <<cache, index>>
    BY DEF Quiet, BeginScan, ListInv, TypeOK
<1>4. Sane(c) /\ c.link \notin Links
    BY <1>1, <1>2, ListAssumption DEF Sane, Listed
<1> HIDE DEF c
<1> QED
    BY <1>2, <1>3, <1>4, QuietStep DEF ListInv, TypeOK, StoredInv

LEMMA ScanKeeps ==
    ASSUME ListInv, NEW p \in Callers, NEW l \in Links, SkipLink(p, l) \/ ScanLink(p, l)
    PROVE  ListInv'
<1> DEFINE skip == [call[p] EXCEPT !.todo = @ \ {l}]
           scan == [call[p] EXCEPT !.step = "signature", !.todo = @ \ {l}, !.link = l,
                                   !.scanSig = file[l].sig, !.held = {file[l].sessions}]
<1>1. call[p] \in Calls /\ call[p].step = "scan" /\ file[l] \in Docs /\ Sane(call[p])
    BY CallKnown DEF SkipLink, ScanLink
<1>2. CASE SkipLink(p, l)
    <2>1. skip \in Calls /\ skip.index = call[p].index /\ skip.step = "scan" /\ skip.link = call[p].link
          /\ skip.sig = call[p].sig /\ skip.scanSig = call[p].scanSig
        BY <1>1 DEF Calls
    <2>2. Quiet(p, skip) /\ UNCHANGED <<cache, index>>
        BY <1>2 DEF Quiet, SkipLink, ListInv, TypeOK
    <2>3. Sane(skip) /\ skip.link \notin Links
        BY <1>1, <2>1, ListAssumption DEF Sane, Listed
    <2> HIDE DEF skip
    <2> QED
        BY <2>1, <2>2, <2>3, HandStep
<1>3. CASE ScanLink(p, l)
    <2>1. scan \in Calls /\ scan.index = call[p].index /\ scan.step = "signature" /\ scan.link = l
          /\ scan.sig = call[p].sig /\ scan.scanSig = file[l].sig /\ scan.held = {file[l].sessions}
        BY <1>1 DEF Calls, Steps, Docs
    <2>2. Quiet(p, scan) /\ UNCHANGED <<cache, index>>
        BY <1>3 DEF Quiet, ScanLink, ListInv, TypeOK
    <2>3. Sane(scan) /\ GoodHand(file[l], l \notin raced, scan)
        BY <1>1, <2>1 DEF Sane, GoodHand, Listed, Docs, NoSignature
    <2> HIDE DEF scan
    <2> QED
        BY <2>1, <2>2, <2>3, HandStep
<1> QED
    BY <1>2, <1>3

-----------------------------------------------------------------------------
(* Saves *)

\* A save makes everything that is stored stale; what the listings have in hand is
\* out of date, and right, unless one of them lags.
LEMMA SaveStep ==
    ASSUME ListInv, NEW l \in Links, NEW list \in Lists, Save(l, list),
           NEW calls \in [Callers -> Calls], call' = Saved(calls, l, list),
           \A p \in Callers :
              /\ calls[p] = call[p] \/ (calls[p].link = l /\ calls[p].step = "refresh" /\ calls[p].list = list)
              /\ calls[p].index = call[p].index
              /\ calls[p].link = call[p].link
              /\ calls[p].sig = call[p].sig /\ calls[p].scanSig = call[p].scanSig,
           UNCHANGED <<cache, index>>
    PROVE  ListInv'
<1> DEFINE g == [sig |-> file[l].sig + 1, sessions |-> list]
           d(p) == [calls[p] EXCEPT !.held = @ \union {list}]
<1>1. file' = [file EXCEPT ![l] = g] /\ file[l] \in Docs /\ raced' \in SUBSET Links
    BY DEF Save, ListInv, TypeOK
<1>1a. ASSUME NEW k \in Links, k # l
           PROVE  file'[k] = file[k] /\ (k \in raced' <=> k \in raced)
    <2>1. raced' = raced \union {l} \/ raced' = raced \ {l}
        BY DEF Save
    <2> QED
        BY <1>1, <1>1a, <2>1 DEF ListInv, TypeOK
<1>2. file'[l] = g /\ (\A k \in Links : k # l => file'[k] = file[k]) /\ file' \in [Links -> Docs]
    BY <1>1 DEF ListInv, TypeOK, Docs
<1>3. \A p \in Callers : call'[p] = IF calls[p].link = l THEN d(p) ELSE calls[p]
    BY DEF Saved
<1>4. \A p \in Callers : d(p) \in Calls /\ d(p).index = calls[p].index /\ d(p).step = calls[p].step
        /\ d(p).link = calls[p].link /\ d(p).sig = calls[p].sig /\ d(p).scanSig = calls[p].scanSig
        /\ d(p).list = calls[p].list /\ d(p).held = calls[p].held \union {list}
    <2> SUFFICES ASSUME NEW p \in Callers
                 PROVE  /\ d(p) \in Calls /\ d(p).index = calls[p].index /\ d(p).step = calls[p].step
                        /\ d(p).link = calls[p].link /\ d(p).sig = calls[p].sig
                        /\ d(p).scanSig = calls[p].scanSig /\ d(p).list = calls[p].list
                        /\ d(p).held = calls[p].held \union {list}
        OBVIOUS
    <2> DEFINE c == calls[p]
               e == [c EXCEPT !.held = c.held \union {list}]
    <2>1. c \in Calls /\ d(p) = e
        OBVIOUS
    <2> HIDE DEF c, d
    <2>2. e \in Calls
        BY <2>1 DEF Calls
    <2>3. /\ e.index = c.index /\ e.step = c.step /\ e.link = c.link /\ e.sig = c.sig
          /\ e.scanSig = c.scanSig /\ e.list = c.list /\ e.held = c.held \union {list}
        BY <2>1 DEF Calls
    <2> HIDE DEF e
    <2> QED
        BY <2>1, <2>2, <2>3 DEF c
<1> HIDE DEF d
<1>5. call' \in [Callers -> Calls]
    BY <1>3, <1>4 DEF Saved, d
<1>6. TypeOK'
    BY <1>1, <1>2, <1>5 DEF ListInv, TypeOK
<1>7. \A k \in Links :
        /\ \A doc \in Docs : GoodDoc(file[k], k \notin raced, doc) => GoodDoc(file'[k], k \notin raced', doc)
        /\ \A entry \in Entries :
             GoodEntry(file[k], k \notin raced, entry) => GoodEntry(file'[k], k \notin raced', entry)
    <2> SUFFICES ASSUME NEW k \in Links
                 PROVE  /\ \A doc \in Docs : GoodDoc(file[k], k \notin raced, doc)
                                                => GoodDoc(file'[k], k \notin raced', doc)
                        /\ \A entry \in Entries : GoodEntry(file[k], k \notin raced, entry)
                                                => GoodEntry(file'[k], k \notin raced', entry)
        OBVIOUS
    <2>1. CASE k = l
        BY <1>1, <1>2, <2>1 DEF g, GoodDoc, GoodEntry, Docs, Entries
    <2>2. CASE k # l
        BY <1>1a, <2>2 DEF GoodDoc, GoodEntry
    <2> QED
        BY <2>1, <2>2
<1>8. StoredInv'
    <2>1. \A k \in Links : cache[k] \in Docs /\ index[k] \in Entries
        BY DEF ListInv, TypeOK
    <2> QED
        BY <1>7, <2>1 DEF ListInv, StoredInv
<1>9. ASSUME NEW p \in Callers, NEW k \in Links
      PROVE  GoodEntry(file'[k], k \notin raced', call'[p].index[k])
    <2>1. call'[p].index = call[p].index /\ call[p].index[k] \in Entries
        BY <1>3, <1>4 DEF ListInv, TypeOK, Calls
    <2>2. GoodEntry(file[k], k \notin raced, call[p].index[k])
        BY DEF ListInv, CallInv
    <2> QED
        BY <1>7, <2>1, <2>2
<1>10. ASSUME NEW p \in Callers, calls[p].link = l
       PROVE  Sane(call'[p]) /\ GoodHand(g, l \notin raced', call'[p])
    <2>1. call'[p] = d(p) /\ call[p].link = l /\ call[p] \in Calls /\ calls[p] \in Calls
          /\ GoodHand(file[l], l \notin raced, call[p]) /\ Sane(call[p])
        BY <1>3, <1>10, CallKnown
    <2>2. CASE calls[p] = call[p]
        <3>1. l \notin raced' => ~(call[p].step = "refresh" /\ Cacheable(call[p].list))
            <4>1. l \notin raced' => ~Lags(p, l)
                BY DEF Save, ListInv, TypeOK
            <4> QED
                BY <2>1, <4>1 DEF Lags, At
        <3> QED
            BY <1>1, <1>4, <2>1, <2>2, <3>1 DEF g, Sane, GoodHand, Docs, Calls
    <2>3. CASE calls[p].step = "refresh" /\ calls[p].list = list
        BY <1>1, <1>4, <2>1, <2>3 DEF g, Sane, GoodHand, Docs, Calls
    <2> QED
        BY <2>2, <2>3
<1>11. ASSUME NEW p \in Callers, calls[p].link # l
       PROVE  /\ Sane(call'[p])
              /\ \A k \in Links : call'[p].link = k => GoodHand(file'[k], k \notin raced', call'[p])
    <2>1. call'[p] = call[p] /\ Sane(call[p])
        BY <1>3, <1>11 DEF ListInv, CallInv
    <2>2. ASSUME NEW k \in Links, call'[p].link = k
          PROVE  GoodHand(file'[k], k \notin raced', call'[p])
        <3>1. k # l /\ GoodHand(file[k], k \notin raced, call[p])
            BY <1>11, <2>1, <2>2 DEF ListInv, CallInv
        <3> QED
            BY <1>1a, <2>1, <3>1 DEF GoodHand
    <2> QED
        BY <2>1, <2>2
<1>12. CallInv'
    BY <1>2, <1>3, <1>4, <1>9, <1>10, <1>11 DEF CallInv
<1> QED
    BY <1>6, <1>8, <1>12 DEF ListInv

LEMMA UpdateKeeps ==
    ASSUME ListInv, NEW l \in Links, NEW list \in Lists, Update(l, list)
    PROVE  ListInv'
BY SaveStep DEF Update, ListInv, TypeOK

LEMMA ReconcileKeeps ==
    ASSUME ListInv, NEW p \in Callers, NEW l \in Links, Reconcile(p, l)
    PROVE  ListInv'
<1>1. PICK list \in Lists :
        /\ Save(l, list)
        /\ call' = Saved([call EXCEPT ![p].step = "refresh", ![p].list = list], l, list)
    BY DEF Reconcile
<1> DEFINE calls == [call EXCEPT ![p].step = "refresh", ![p].list = list]
<1>2. call \in [Callers -> Calls] /\ call[p].link = l /\ UNCHANGED <<cache, index>>
    BY DEF Reconcile, At, ListInv, TypeOK
<1>3. calls[p] \in Calls /\ calls[p].link = call[p].link /\ calls[p].step = "refresh"
      /\ calls[p].list = list /\ calls[p].index = call[p].index /\ calls[p].sig = call[p].sig
      /\ calls[p].scanSig = call[p].scanSig
    <2> DEFINE c == call[p]
               d == [c EXCEPT !.step = "refresh", !.list = list]
    <2>1. c \in Calls /\ "refresh" \in Steps /\ calls[p] = d
        BY <1>2 DEF Steps
    <2> HIDE DEF c, calls
    <2>2. d \in Calls
        BY <2>1 DEF Calls
    <2>3. /\ d.link = c.link /\ d.step = "refresh" /\ d.list = list
          /\ d.index = c.index /\ d.sig = c.sig /\ d.scanSig = c.scanSig
        BY <2>1 DEF Calls
    <2> HIDE DEF d
    <2> QED
        BY <2>1, <2>2, <2>3 DEF c
<1>4. calls \in [Callers -> Calls] /\ \A q \in Callers : q # p => calls[q] = call[q]
    BY <1>2, <1>3
<1> HIDE DEF calls
<1>5. \A q \in Callers :
        /\ calls[q] = call[q] \/ (calls[q].link = l /\ calls[q].step = "refresh" /\ calls[q].list = list)
        /\ calls[q].index = call[q].index
        /\ calls[q].link = call[q].link
        /\ calls[q].sig = call[q].sig /\ calls[q].scanSig = call[q].scanSig
    BY <1>2, <1>3, <1>4
<1>6. call' = Saved(calls, l, list)
    BY <1>1 DEF calls
<1> QED
    BY <1>1, <1>2, <1>4, <1>5, <1>6, SaveStep

-----------------------------------------------------------------------------
LEMMA ListInvNext ==
    ASSUME ListInv, [Next]_vars
    PROVE  ListInv'
<1>1. CASE UNCHANGED vars
    <2>1. UNCHANGED <<file, cache, index, call, raced>>
        BY <1>1 DEF vars
    <2> QED
        BY <2>1 DEF ListInv, TypeOK, StoredInv, CallInv
<1>2. CASE Next
    <2>1. Listers \subseteq Callers /\ Scanners \subseteq Callers
        BY DEF Callers
    <2> QED
        BY <1>2, <2>1, UpdateKeeps, BeginListKeeps, BeginScanKeeps, ReadSignatureKeeps, ReadCacheKeeps,
           LoadKeeps, ReconcileKeeps, EndKeeps, RefreshKeeps, StoreKeeps, AnswerKeeps, ScanKeeps
        DEF Next
<1> QED
    BY <1>1, <1>2

\* The inductive invariant of load_sessions_for_listing and of the scan index:
\* whatever is stored or about to be stored about a state file is older than the
\* file, or right, or raced.
THEOREM ListInvariant == Spec => []ListInv
BY ListInvInit, ListInvNext, PTL DEF Spec

\* A believed list cache or scan index entry is right unless the link is raced.
THEOREM OnlyRacesPoisonAlways == Spec => []OnlyRacesPoison
<1>1. ListInv => OnlyRacesPoison
    BY DEF ListInv, StoredInv, GoodDoc, GoodEntry, OnlyRacesPoison
<1> QED
    BY <1>1, ListInvariant, PTL

\* No listing shows a worker that the state file did not have during it.
THEOREM NoPhantomsAlways == Spec => []NoPhantoms
<1>1. ListInv => NoPhantoms
    BY DEF ListInv, CallInv, Sane, Listed, Cacheable, NoPhantoms
<1> QED
    BY <1>1, ListInvariant, PTL

-----------------------------------------------------------------------------
(* Skipping *)

\* What a listing puts into the cache: sessions, all of them stopped.
Told(list) == Cacheable(list) /\ list # Empty

\* An entry that is believed has the statuses of the file, or names the stopped ones, so
\* that a scan which could miss something stopped goes on to look.
SafeEntry(f, entry) ==
    f.sig # NoSignature /\ entry.sig = f.sig =>
        entry.statuses \in {Summary(f.sig, f.sessions).statuses, {"stopped"}}

SafeHand(f, c) ==
    c.step \in Listed /\ f.sig # NoSignature /\ c.scanSig = f.sig => c.list = f.sessions \/ Told(c.list)

Tells(c) ==
    /\ c.step = "cache" => c.sig # NoSignature
    /\ c.step \in {"truncate", "write"} => Told(c.list)

SkipInv ==
    /\ \A l \in Links : cache[l].sig # NoSignature => Told(cache[l].sessions)
    /\ \A l \in Links : SafeEntry(file[l], index[l])
    /\ \A p \in Callers :
         /\ Tells(call[p])
         /\ \A l \in Links :
              /\ SafeEntry(file[l], call[p].index[l])
              /\ call[p].link = l => SafeHand(file[l], call[p])

LEMMA ToldMeansStopped ==
    ASSUME NEW sig, NEW list \in Lists, Told(list)
    PROVE  Summary(sig, list).statuses = {"stopped"}
<1>1. PICK s \in Sessions : list[s] # "gone"
    BY DEF Told, Empty, Lists
<1>2. \A t \in Sessions : list[t] \in {"gone", "stopped"}
    BY DEF Told, Cacheable, Candidates, Lists, Statuses
<1> QED
    BY <1>1, <1>2 DEF Summary

LEMMA NothingIsSafe ==
    ASSUME NEW f
    PROVE  /\ SafeEntry(f, NoEntry) /\ \A l \in Links : SafeEntry(f, EmptyIndex[l]) /\ SafeEntry(f, Idle.index[l])
           /\ Tells(Idle)
BY DEF SafeEntry, NoEntry, EmptyIndex, NoSignature, Tells, Idle

\* As with ListInv: what the step stores, and the caller's new state.
LEMMA QuietSkip ==
    ASSUME TypeOK, SkipInv, NEW p \in Callers, NEW c, Quiet(p, c), Tells(c),
           \A l \in Links :
              /\ cache'[l].sig # NoSignature => Told(cache'[l].sessions)
              /\ SafeEntry(file[l], index'[l])
              /\ SafeEntry(file[l], c.index[l])
              /\ c.link = l => SafeHand(file[l], c)
    PROVE  SkipInv'
<1>1. ASSUME NEW q \in Callers
      PROVE  /\ Tells(call'[q])
             /\ \A l \in Links :
                  /\ SafeEntry(file[l], call'[q].index[l])
                  /\ call'[q].link = l => SafeHand(file[l], call'[q])
    <2>1. call'[q] = IF q = p THEN c ELSE call[q]
        BY DEF Quiet, TypeOK
    <2> QED
        BY <2>1 DEF SkipInv
<1> QED
    BY <1>1 DEF SkipInv, Quiet

LEMMA HandSkip ==
    ASSUME TypeOK, SkipInv, NEW p \in Callers, NEW c, Quiet(p, c), UNCHANGED <<cache, index>>,
           c.index = call[p].index, Tells(c), \A l \in Links : c.link = l => SafeHand(file[l], c)
    PROVE  SkipInv'
<1>1. \A l \in Links : SafeEntry(file[l], c.index[l])
    BY DEF SkipInv
<1> QED
    BY <1>1, QuietSkip DEF SkipInv

-----------------------------------------------------------------------------
LEMMA SaveSkip ==
    ASSUME ListInv, SkipInv, NEW l \in Links, NEW list, Save(l, list),
           \A p \in Callers :
              /\ call'[p].index = call[p].index
              /\ call'[p].link = call[p].link
              /\ call'[p].sig = call[p].sig /\ call'[p].scanSig = call[p].scanSig
              /\ \/ call'[p].step = call[p].step /\ call'[p].list = call[p].list
                 \/ call'[p].step = "refresh" /\ call[p].link = l,
           UNCHANGED <<cache, index>>
    PROVE  SkipInv'
<1>1. /\ file[l].sig \in Nat /\ file'[l].sig = file[l].sig + 1
      /\ \A k \in Links : k # l => file'[k] = file[k]
    BY DEF Save, ListInv, TypeOK, Docs
<1>2. ASSUME NEW k \in Links, NEW entry, SafeEntry(file[k], entry), entry.sig \in Nat, entry.sig <= file[k].sig
      PROVE  SafeEntry(file'[k], entry)
    BY <1>1, <1>2 DEF SafeEntry
<1>3. \A k \in Links : SafeEntry(file'[k], index[k])
    BY <1>2 DEF ListInv, TypeOK, Entries, StoredInv, GoodEntry, SkipInv
<1>4. ASSUME NEW p \in Callers, NEW k \in Links PROVE SafeEntry(file'[k], call'[p].index[k])
    <2>1. call[p].index[k] \in Entries /\ GoodEntry(file[k], k \notin raced, call[p].index[k])
        BY DEF ListInv, TypeOK, Calls, CallInv
    <2> QED
        BY <1>2, <2>1 DEF Entries, GoodEntry, SkipInv
<1>5. ASSUME NEW p \in Callers PROVE Tells(call'[p])
    BY DEF SkipInv, Tells
<1>6. ASSUME NEW p \in Callers, NEW k \in Links, call'[p].link = k PROVE SafeHand(file'[k], call'[p])
    <2>1. call[p].link = k /\ call[p] \in Calls /\ GoodHand(file[k], k \notin raced, call[p])
        BY <1>6, CallKnown
    <2>2. CASE k = l
        BY <1>1, <2>1, <2>2 DEF SafeHand, GoodHand, Calls
    <2>3. CASE k # l
        BY <1>1, <1>6, <2>1, <2>3 DEF SafeHand, SkipInv
    <2> QED
        BY <2>2, <2>3
<1> QED
    BY <1>3, <1>4, <1>5, <1>6 DEF SkipInv

\* A save of the file of a link, seen from the callers: at most the list of one that reconciles
\* it changes, and that goes on to its second look.
Storing(l) ==
    \E list \in Lists :
        /\ Save(l, list) /\ UNCHANGED <<cache, index>>
        /\ \A q \in Callers :
             /\ call'[q].index = call[q].index
             /\ call'[q].link = call[q].link
             /\ call'[q].sig = call[q].sig /\ call'[q].scanSig = call[q].scanSig
             /\ \/ call'[q].step = call[q].step /\ call'[q].list = call[q].list
                \/ call'[q].step = "refresh" /\ call[q].link = l

LEMMA SavesAre ==
    ASSUME ListInv, NEW l \in Links,
           (\E list \in Lists : Update(l, list)) \/ (\E p \in Callers : Reconcile(p, l))
    PROVE  Storing(l)
<1>0. call \in [Callers -> Calls]
    BY DEF ListInv, TypeOK
<1>1. ASSUME NEW calls \in [Callers -> Calls], NEW list, call' = Saved(calls, l, list)
      PROVE  \A q \in Callers : /\ call'[q].index = calls[q].index /\ call'[q].link = calls[q].link
                                /\ call'[q].sig = calls[q].sig /\ call'[q].scanSig = calls[q].scanSig
                                /\ call'[q].step = calls[q].step /\ call'[q].list = calls[q].list
    BY <1>1 DEF Saved, Calls
<1>2. ASSUME NEW list \in Lists, Update(l, list) PROVE Storing(l)
    <2>1. /\ Save(l, list) /\ UNCHANGED <<cache, index>>
          /\ \A q \in Callers : /\ call'[q].index = call[q].index /\ call'[q].link = call[q].link
                                /\ call'[q].sig = call[q].sig /\ call'[q].scanSig = call[q].scanSig
                                /\ call'[q].step = call[q].step /\ call'[q].list = call[q].list
        BY <1>0, <1>1, <1>2 DEF Update
    <2> QED
        BY <2>1 DEF Storing
<1>3. ASSUME NEW p \in Callers, Reconcile(p, l) PROVE Storing(l)
    <2>1. PICK list \in Lists :
            /\ Save(l, list)
            /\ call' = Saved([call EXCEPT ![p].step = "refresh", ![p].list = list], l, list)
        BY <1>3 DEF Reconcile
    <2> DEFINE calls == [call EXCEPT ![p].step = "refresh", ![p].list = list]
    <2>2. calls[p] \in Calls /\ calls[p].link = call[p].link /\ calls[p].step = "refresh"
          /\ calls[p].index = call[p].index /\ calls[p].sig = call[p].sig
          /\ calls[p].scanSig = call[p].scanSig
        <3>1. calls[p] = [call[p] EXCEPT !.step = "refresh", !.list = list]
            BY <1>0
        <3>2. call[p] \in Calls /\ list \in Lists
            BY <1>0
        <3> HIDE DEF calls
        <3> QED
            BY <3>1, <3>2 DEF Calls, Steps
    <2>3. calls \in [Callers -> Calls] /\ \A q \in Callers : q # p => calls[q] = call[q]
        BY <1>0, <2>2
    <2> HIDE DEF calls
    <2>4. call' = Saved(calls, l, list) /\ call[p].link = l /\ UNCHANGED <<cache, index>>
        BY <1>3, <2>1 DEF calls, Reconcile, At
    <2>5. \A q \in Callers :
              /\ call'[q].index = call[q].index
              /\ call'[q].link = call[q].link
              /\ call'[q].sig = call[q].sig /\ call'[q].scanSig = call[q].scanSig
              /\ \/ call'[q].step = call[q].step /\ call'[q].list = call[q].list
                 \/ call'[q].step = "refresh" /\ call[q].link = l
        <3>1. \A q \in Callers : /\ call'[q].index = calls[q].index /\ call'[q].link = calls[q].link
                                 /\ call'[q].sig = calls[q].sig /\ call'[q].scanSig = calls[q].scanSig
                                 /\ call'[q].step = calls[q].step /\ call'[q].list = calls[q].list
            BY <1>1, <2>3, <2>4
        <3> QED
            BY <2>2, <2>3, <2>4, <3>1
    <2> QED
        BY <2>1, <2>4, <2>5 DEF Storing
<1> QED
    BY <1>2, <1>3

LEMMA SavesSkip ==
    ASSUME ListInv, SkipInv, NEW l \in Links,
           (\E list \in Lists : Update(l, list)) \/ (\E p \in Callers : Reconcile(p, l))
    PROVE  SkipInv'
<1>1. Storing(l)
    BY SavesAre
<1> QED
    BY <1>1, SaveSkip DEF Storing

LEMMA BeginSkip ==
    ASSUME ListInv, SkipInv, NEW p \in Callers, NEW l \in Links,
           BeginList(p, l) \/ ReadSignature(p, l) \/ SkipLink(p, l) \/ ScanLink(p, l)
    PROVE  SkipInv'
<1> DEFINE list == [call[p] EXCEPT !.step = "signature", !.link = l, !.held = {file[l].sessions}]
           sign == [call[p] EXCEPT !.sig = file[l].sig,
                                   !.step = IF file[l].sig = NoSignature THEN "load" ELSE "cache"]
           skip == [call[p] EXCEPT !.todo = @ \ {l}]
           scan == [call[p] EXCEPT !.step = "signature", !.todo = @ \ {l}, !.link = l,
                                   !.scanSig = file[l].sig, !.held = {file[l].sessions}]
<1>1. TypeOK /\ call[p] \in Calls
    BY DEF ListInv, TypeOK
<1>2. /\ list.step = "signature" /\ list.index = call[p].index
      /\ sign.step \in {"load", "cache"} /\ sign.index = call[p].index
      /\ sign.step = "cache" => sign.sig # NoSignature
      /\ skip.step = call[p].step /\ skip.index = call[p].index
      /\ scan.step = "signature" /\ scan.index = call[p].index
    BY <1>1 DEF Calls
<1>3. ASSUME NEW c, Quiet(p, c), UNCHANGED <<cache, index>>, c.index = call[p].index,
             c.step \in {"signature", "load", "cache", "scan"}, c.step = "cache" => c.sig # NoSignature
      PROVE  SkipInv'
    BY <1>1, <1>3, HandSkip DEF Tells, SafeHand, Listed
<1>4. CASE BeginList(p, l)
    <2>1. Quiet(p, list) /\ UNCHANGED <<cache, index>>
        BY <1>1, <1>4 DEF Quiet, BeginList, TypeOK
    <2> HIDE DEF list
    <2> QED
        BY <1>2, <1>3, <2>1
<1>5. CASE ReadSignature(p, l)
    <2>1. Quiet(p, sign) /\ UNCHANGED <<cache, index>>
        BY <1>1, <1>5 DEF Quiet, ReadSignature, TypeOK
    <2> HIDE DEF sign
    <2> QED
        BY <1>2, <1>3, <2>1
<1>6. CASE SkipLink(p, l)
    <2>1. Quiet(p, skip) /\ UNCHANGED <<cache, index>> /\ call[p].step = "scan"
        BY <1>1, <1>6 DEF Quiet, SkipLink, TypeOK
    <2> HIDE DEF skip
    <2> QED
        BY <1>2, <1>3, <2>1
<1>7. CASE ScanLink(p, l)
    <2>1. Quiet(p, scan) /\ UNCHANGED <<cache, index>>
        BY <1>1, <1>7 DEF Quiet, ScanLink, TypeOK
    <2> HIDE DEF scan
    <2> QED
        BY <1>2, <1>3, <2>1
<1> QED
    BY <1>4, <1>5, <1>6, <1>7

LEMMA ReadSkip ==
    ASSUME ListInv, SkipInv, NEW p \in Callers, NEW l \in Links, ReadCache(p, l) \/ Load(p, l)
    PROVE  SkipInv'
<1> DEFINE hit == [call[p] EXCEPT !.step = "answer", !.list = cache[l].sessions]
           miss == [call[p] EXCEPT !.step = "load"]
           load == [call[p] EXCEPT
            !.list = file[l].sessions,
            !.ids = Candidates(file[l].sessions),
            !.step = IF Candidates(file[l].sessions) = {} THEN "refresh" ELSE "reconcile"]
<1>1. TypeOK /\ call[p] \in Calls /\ call[p].link = l
    BY DEF ListInv, TypeOK, ReadCache, Load, At
<1>2. /\ hit.step = "answer" /\ hit.index = call[p].index /\ hit.link = l /\ hit.list = cache[l].sessions
      /\ miss.step = "load" /\ miss.index = call[p].index
      /\ load.step \in {"refresh", "reconcile"} /\ load.index = call[p].index /\ load.link = l
      /\ load.list = file[l].sessions
    BY <1>1 DEF Calls
<1>3. CASE ReadCache(p, l) /\ cache[l].sig = call[p].sig /\ Cacheable(cache[l].sessions)
    <2>1. Quiet(p, hit) /\ UNCHANGED <<cache, index>>
        BY <1>1, <1>3 DEF Quiet, ReadCache, TypeOK
    <2>2. Told(cache[l].sessions)
        BY <1>3 DEF ReadCache, At, SkipInv, Tells
    <2> HIDE DEF hit
    <2>3. Tells(hit) /\ SafeHand(file[l], hit)
        BY <1>2, <2>2 DEF Tells, SafeHand
    <2> QED
        BY <1>1, <1>2, <2>1, <2>3, HandSkip
<1>4. CASE ReadCache(p, l) /\ ~(cache[l].sig = call[p].sig /\ Cacheable(cache[l].sessions))
    <2>1. Quiet(p, miss) /\ UNCHANGED <<cache, index>>
        BY <1>1, <1>4 DEF Quiet, ReadCache, Goto, TypeOK
    <2> HIDE DEF miss
    <2>2. Tells(miss) /\ \A k \in Links : SafeHand(file[k], miss)
        BY <1>2 DEF Tells, SafeHand, Listed
    <2> QED
        BY <1>1, <1>2, <2>1, <2>2, HandSkip
<1>5. CASE Load(p, l)
    <2>1. Quiet(p, load) /\ UNCHANGED <<cache, index>>
        BY <1>1, <1>5 DEF Quiet, Load, TypeOK
    <2> HIDE DEF load
    <2>2. Tells(load) /\ SafeHand(file[l], load)
        BY <1>2 DEF Tells, SafeHand
    <2> QED
        BY <1>1, <1>2, <2>1, <2>2, HandSkip
<1> QED
    BY <1>3, <1>4, <1>5

\* Only lists that tell something are on their way into the cache.
LEMMA RefreshSkip ==
    ASSUME ListInv, SkipInv, NEW p \in Callers, NEW l \in Links,
           Refresh(p, l) \/ TruncateCache(p, l) \/ WriteCache(p, l)
    PROVE  SkipInv'
<1>1. TypeOK /\ call[p] \in Calls /\ call[p].link = l /\ call[p].step \in {"refresh", "truncate", "write"}
    BY DEF ListInv, TypeOK, Refresh, TruncateCache, WriteCache, At
<1> DEFINE doc == [sig |-> call[p].sig, sessions |-> call[p].list]
           to(step) == [call[p] EXCEPT !.step = step]
           kept == [call[p] EXCEPT !.step = "truncate", !.sig = file[l].sig]
<1>2. /\ \A step : to(step).step = step /\ to(step).link = l /\ to(step).index = call[p].index
                   /\ to(step).scanSig = call[p].scanSig /\ to(step).list = call[p].list
      /\ kept.step = "truncate" /\ kept.link = l /\ kept.index = call[p].index
      /\ kept.scanSig = call[p].scanSig /\ kept.list = call[p].list
    BY <1>1 DEF Calls
<1>3. SafeHand(file[l], call[p]) /\ Tells(call[p])
    BY <1>1 DEF SkipInv
<1>4. ASSUME NEW c, Quiet(p, c), UNCHANGED index, c.step \in {"truncate", "write", "answer"},
             c.step = "answer" \/ Told(call[p].list),
             c.link = l, c.index = call[p].index, c.scanSig = call[p].scanSig, c.list = call[p].list,
             \A k \in Links : cache'[k].sig # NoSignature => Told(cache'[k].sessions)
      PROVE  SkipInv'
    <2>1. Tells(c)
        BY <1>4 DEF Tells
    <2>2. SafeHand(file[l], c)
        BY <1>1, <1>3, <1>4 DEF SafeHand, Listed
    <2> QED
        BY <1>1, <1>4, <2>1, <2>2, QuietSkip DEF SkipInv
<1>5. ASSUME cache' \in {cache, [cache EXCEPT ![l] = Miss]}
      PROVE  \A k \in Links : cache'[k].sig # NoSignature => Told(cache'[k].sessions)
    BY <1>1, <1>5 DEF SkipInv, TypeOK, Miss
<1>6. CASE Refresh(p, l)
    <2>1. CASE cache' \in {cache, [cache EXCEPT ![l] = Miss]} /\ call' = Goto(p, "answer")
        <3>1. Quiet(p, to("answer")) /\ UNCHANGED index
            BY <1>1, <1>6, <2>1 DEF Quiet, Refresh, Goto, TypeOK
        <3> HIDE DEF to
        <3> QED
            BY <1>2, <1>4, <1>5, <2>1, <3>1
    <2>2. CASE /\ call[p].list # Empty /\ Cacheable(call[p].list) /\ UNCHANGED cache
               /\ call' = [call EXCEPT ![p].step = "truncate", ![p].sig = file[l].sig]
        <3>1. Quiet(p, kept) /\ UNCHANGED index
            BY <1>1, <1>6, <2>2 DEF Quiet, Refresh, TypeOK
        <3>2. Told(call[p].list)
            BY <2>2 DEF Told
        <3> HIDE DEF kept
        <3> QED
            BY <1>2, <1>4, <1>5, <2>2, <3>1, <3>2
    <2> QED
        BY <1>6, <2>1, <2>2 DEF Refresh
<1>7. CASE TruncateCache(p, l) \/ WriteCache(p, l)
    <2>1. Told(call[p].list)
        BY <1>3, <1>7 DEF TruncateCache, WriteCache, At, Tells
    <2>2. cache' \in {cache, [cache EXCEPT ![l] = Miss], [cache EXCEPT ![l] = doc]}
        BY <1>7 DEF TruncateCache, WriteCache
    <2>3. \A k \in Links : cache'[k].sig # NoSignature => Told(cache'[k].sessions)
        <3>1. CASE cache' = [cache EXCEPT ![l] = doc]
            BY <1>1, <2>1, <3>1 DEF SkipInv, TypeOK
        <3> QED
            BY <1>5, <2>2, <3>1
    <2>4. PICK step \in {"write", "answer"} : call' = Goto(p, step)
        BY <1>7 DEF TruncateCache, WriteCache
    <2>5. Quiet(p, to(step)) /\ UNCHANGED index
        BY <1>1, <1>7, <2>4 DEF Quiet, TruncateCache, WriteCache, Goto, TypeOK
    <2> HIDE DEF to
    <2> QED
        BY <1>2, <1>4, <2>1, <2>3, <2>5
<1> QED
    BY <1>6, <1>7

LEMMA AnswerSkip ==
    ASSUME ListInv, SkipInv, NEW p \in Callers, NEW l \in Links, Answer(p, l)
    PROVE  SkipInv'
<1> DEFINE entry == Summary(call[p].scanSig, call[p].list)
           e == [call[p] EXCEPT !.index[l] = entry]
           c == Leave(IF call[p].scan /\ call[p].scanSig # NoSignature THEN e ELSE call[p])
<1>1. TypeOK /\ call[p] \in Calls /\ call[p].link = l /\ call[p].step = "answer"
    BY DEF ListInv, TypeOK, Answer, At
<1>2. SafeEntry(file[l], entry)
    <2>1. entry.sig = call[p].scanSig
        BY DEF Summary
    <2>2. ASSUME file[l].sig # NoSignature, call[p].scanSig = file[l].sig
          PROVE  call[p].list = file[l].sessions \/ Told(call[p].list)
        BY <1>1, <2>2 DEF SkipInv, SafeHand, Listed
    <2>3. Told(call[p].list) => entry.statuses = {"stopped"}
        BY <1>1, ToldMeansStopped DEF Calls
    <2> HIDE DEF entry
    <2> QED
        BY <2>1, <2>2, <2>3 DEF SafeEntry, entry
<1>3. entry \in Entries
    BY <1>1, SummaryTyped DEF Calls
<1> HIDE DEF entry
<1>4. e \in Calls /\ e.index = [call[p].index EXCEPT ![l] = entry]
    BY <1>1, <1>3 DEF Calls
<1>5. \A k \in Links : SafeEntry(file[k], call[p].index[k]) /\ SafeEntry(file[k], e.index[k])
    BY <1>1, <1>2, <1>4 DEF SkipInv, Calls
<1>6. Quiet(p, c) /\ UNCHANGED <<cache, index>>
    BY DEF Quiet, Answer, entry
<1> HIDE DEF e
<1>7. c.link \notin Links /\ (c.step = "scan" \/ c = Idle) /\
      (c.index \in {e.index, call[p].index} \/ c = Idle)
    BY <1>1, <1>4, ListAssumption DEF Leave, Calls, Idle
<1> HIDE DEF c
<1>8. \A k \in Links : SafeEntry(file[k], c.index[k])
    BY <1>5, <1>7, NothingIsSafe
<1>9. Tells(c)
    BY <1>7, NothingIsSafe DEF Tells
<1> QED
    BY <1>1, <1>6, <1>7, <1>8, <1>9, QuietSkip DEF SkipInv

LEMMA ScanSkip ==
    ASSUME ListInv, SkipInv, NEW p \in Callers,
           \/ \E filter \in Statuses \union {"all"} : BeginScan(p, filter)
           \/ TruncateIndex(p) \/ PersistIndex(p) \/ Crash(p)
           \/ \E l \in Links : ReconcileFails(p, l)
    PROVE  SkipInv'
<1>1. TypeOK /\ call[p] \in Calls /\ Sane(call[p])
    BY DEF ListInv, TypeOK, CallInv
<1>2. ASSUME NEW c, Quiet(p, c), UNCHANGED cache, index' \in {index, EmptyIndex, call[p].index},
             \/ c.step \in {"scan", "persist"} /\ c.link \notin Links /\ c.index \in {index, call[p].index}
             \/ c = Idle
      PROVE  SkipInv'
    <2>1. Tells(c)
        BY <1>2, NothingIsSafe DEF Tells
    <2>2. c.link \notin Links
        BY <1>2, ListAssumption DEF Idle
    <2>3. \A k \in Links : SafeEntry(file[k], c.index[k]) /\ SafeEntry(file[k], index'[k])
        BY <1>2, NothingIsSafe DEF SkipInv
    <2> QED
        BY <1>1, <1>2, <2>1, <2>2, <2>3, QuietSkip DEF SkipInv
<1>3. ASSUME NEW filter, BeginScan(p, filter) PROVE SkipInv'
    <2> DEFINE c == [call[p] EXCEPT !.step = "scan", !.scan = TRUE, !.filter = filter, !.todo = Links,
                                    !.index = index]
    <2>1. c.step = "scan" /\ c.link = call[p].link /\ c.index = index
        BY <1>1 DEF Calls
    <2>2. call[p].link \notin Links
        BY <1>1, <1>3, ListAssumption DEF BeginScan, Sane
    <2>3. Quiet(p, c) /\ UNCHANGED <<cache, index>>
        BY <1>1, <1>3 DEF Quiet, BeginScan, TypeOK
    <2> HIDE DEF c
    <2> QED
        BY <1>2, <2>1, <2>2, <2>3
<1>4. ASSUME TruncateIndex(p), call' = Goto(p, "persist") PROVE SkipInv'
    <2> DEFINE c == [call[p] EXCEPT !.step = "persist"]
    <2>1. c.step = "persist" /\ c.link = call[p].link /\ c.index = call[p].index
        BY <1>1 DEF Calls
    <2>2. call[p].link \notin Links
        BY <1>1, <1>4, ListAssumption DEF TruncateIndex, Sane
    <2>3. Quiet(p, c) /\ UNCHANGED cache /\ index' \in {index, EmptyIndex}
        BY <1>1, <1>4 DEF Quiet, TruncateIndex, Goto, TypeOK
    <2> HIDE DEF c
    <2> QED
        BY <1>2, <2>1, <2>2, <2>3
<1>5. ASSUME call' = [call EXCEPT ![p] = Idle],
             TruncateIndex(p) \/ PersistIndex(p) \/ Crash(p)
      PROVE  SkipInv'
    <2>1. Quiet(p, Idle) /\ UNCHANGED cache /\ index' \in {index, EmptyIndex, call[p].index}
        BY <1>5 DEF Quiet, TruncateIndex, PersistIndex, Crash
    <2> QED
        BY <1>2, <2>1
<1>6. ASSUME NEW l \in Links, ReconcileFails(p, l) PROVE SkipInv'
    <2> DEFINE c == Leave(call[p])
    <2>1. Quiet(p, c) /\ UNCHANGED <<cache, index>>
        BY <1>6 DEF Quiet, ReconcileFails
    <2>2. (c.step = "scan" /\ c.link \notin Links /\ c.index = call[p].index) \/ c = Idle
        BY <1>1, ListAssumption DEF Leave, Calls
    <2> HIDE DEF c
    <2> QED
        BY <1>2, <2>1, <2>2
<1> QED
    BY <1>3, <1>4, <1>5, <1>6 DEF TruncateIndex, PersistIndex, Crash

LEMMA SkipInvNext ==
    ASSUME ListInv, SkipInv, [Next]_vars
    PROVE  SkipInv'
<1>1. CASE UNCHANGED vars
    BY <1>1 DEF vars, SkipInv
<1>2. CASE Next
    <2>1. Listers \subseteq Callers /\ Scanners \subseteq Callers
        BY DEF Callers
    <2> QED
        BY <1>2, <2>1, SavesSkip, BeginSkip, ReadSkip, RefreshSkip, AnswerSkip, ScanSkip DEF Next
<1> QED
    BY <1>1, <1>2

\* A race may leave a wrong entry in the index, but never one that hides a stopped
\* session: the cache takes no empty list, and only lists where everything is stopped.
THEOREM StoppedNeverSkippedAlways == Spec => []StoppedNeverSkipped
<1>1. Init => SkipInv
    <2> SUFFICES ASSUME Init PROVE SkipInv
        OBVIOUS
    <2>1. \A l \in Links : cache[l].sig = NoSignature /\ index = EmptyIndex
        BY DEF Init, Miss
    <2>2. \A p \in Callers : call[p] = Idle
        BY DEF Init
    <2>3. \A f : SafeHand(f, Idle)
        BY DEF SafeHand, Idle, Listed
    <2> QED
        BY <2>1, <2>2, <2>3, NothingIsSafe DEF SkipInv
<1>2. ListInv /\ SkipInv /\ [Next]_vars => SkipInv'
    BY SkipInvNext
<1>3. ListInv /\ SkipInv => StoppedNeverSkipped
    <2> SUFFICES ASSUME ListInv, SkipInv, NEW p \in Callers, NEW l \in Links, WouldSkip(p, l),
                        call[p].filter \notin Live
                 PROVE  Matches(file[l].sessions, call[p].filter) = {}
        BY DEF StoppedNeverSkipped
    <2> DEFINE entry == call[p].index[l]
               statuses == {file[l].sessions[s] : s \in Sessions} \ {"gone"}
    <2>1. call[p].filter \in {"all", "stopped"}
        BY DEF ListInv, TypeOK, Calls, Statuses
    <2>2. /\ file[l].sig # NoSignature /\ entry.sig = file[l].sig
          /\ entry.statuses = {} \/ (call[p].filter # "all" /\ call[p].filter \notin entry.statuses)
        BY DEF WouldSkip, ShouldSkip
    <2>3. entry.statuses \in {statuses, {"stopped"}}
        BY <2>2 DEF SkipInv, SafeEntry, Summary
    <2>4. statuses = {} \/ (call[p].filter = "stopped" /\ "stopped" \notin statuses)
        BY <2>1, <2>2, <2>3
    <2> QED
        BY <2>1, <2>4 DEF Matches
<1> QED
    BY <1>1, <1>2, <1>3, ListInvariant, PTL DEF Spec

-----------------------------------------------------------------------------
(* Answers *)

\* What a listing answers, when the last signature that it read is still that of the file, is what
\* the file says, unless a save came between its load and its second look.
FreshAnswer ==
    \A p \in Callers, l \in Links :
        At(p, l, "answer") /\ call[p].sig = file[l].sig /\ l \notin raced =>
            call[p].list = file[l].sessions

\* So is every list in hand, whether or not it is to be cached; a file that was never saved says
\* what it always said.
FreshHand(f, calm, c) ==
    /\ c.step = "cache" => c.sig # NoSignature
    /\ c.step \in Listed /\ (f.sig = NoSignature \/ (calm /\ c.sig = f.sig)) => c.list = f.sessions

FreshInv ==
    \A p \in Callers, l \in Links : call[p].link = l => FreshHand(file[l], l \notin raced, call[p])

\* As with ListInv and SkipInv: the caller's new state.
LEMMA QuietFresh ==
    ASSUME ListInv, FreshInv, NEW p \in Callers, NEW c, Quiet(p, c),
           \A l \in Links : c.link = l => FreshHand(file[l], l \notin raced, c)
    PROVE  FreshInv'
<1>1. \A q \in Callers : call'[q] = IF q = p THEN c ELSE call[q]
    BY DEF Quiet, ListInv, TypeOK
<1>2. file' = file /\ raced' = raced
    BY DEF Quiet
<1> QED
    BY <1>1, <1>2 DEF FreshInv

\* A save gives the file a signature that nobody has read.
LEMMA SavesFresh ==
    ASSUME ListInv, FreshInv, NEW l \in Links, Storing(l)
    PROVE  FreshInv'
<1>1. /\ file[l].sig \in Nat /\ file'[l].sig = file[l].sig + 1
      /\ \A k \in Links : k # l => file'[k] = file[k] /\ (k \in raced' <=> k \in raced)
    BY DEF Storing, Save, ListInv, TypeOK, Docs
<1>2. ASSUME NEW p \in Callers, NEW k \in Links, call'[p].link = k
      PROVE  FreshHand(file'[k], k \notin raced', call'[p])
    <2>1. /\ call[p].link = k /\ call'[p].sig = call[p].sig
          /\ \/ call'[p].step = call[p].step /\ call'[p].list = call[p].list
             \/ call'[p].step = "refresh" /\ k = l
        BY <1>2 DEF Storing
    <2>2. FreshHand(file[k], k \notin raced, call[p])
        BY <2>1 DEF FreshInv
    <2>3. CASE k = l
        <3>1. call[p].sig \in Nat /\ call[p].sig <= file[l].sig
            BY <2>1, <2>3, CallKnown DEF GoodHand, Calls
        <3>2. file'[k].sig # NoSignature /\ call'[p].sig # file'[k].sig
            BY <1>1, <2>1, <2>3, <3>1 DEF NoSignature
        <3>3. call'[p].step = "cache" => call'[p].sig # NoSignature
            BY <2>1, <2>2 DEF FreshHand
        <3> QED
            BY <3>2, <3>3 DEF FreshHand
    <2>4. CASE k # l
        BY <1>1, <2>1, <2>2, <2>4 DEF FreshHand
    <2> QED
        BY <2>3, <2>4
<1> QED
    BY <1>2 DEF FreshInv

LEMMA BeginFresh ==
    ASSUME ListInv, FreshInv, NEW p \in Callers, NEW l \in Links,
           BeginList(p, l) \/ ReadSignature(p, l) \/ SkipLink(p, l) \/ ScanLink(p, l)
    PROVE  FreshInv'
<1> DEFINE list == [call[p] EXCEPT !.step = "signature", !.link = l, !.held = {file[l].sessions}]
           sign == [call[p] EXCEPT !.sig = file[l].sig,
                                   !.step = IF file[l].sig = NoSignature THEN "load" ELSE "cache"]
           skip == [call[p] EXCEPT !.todo = @ \ {l}]
           scan == [call[p] EXCEPT !.step = "signature", !.todo = @ \ {l}, !.link = l,
                                   !.scanSig = file[l].sig, !.held = {file[l].sessions}]
<1>1. TypeOK /\ call[p] \in Calls
    BY DEF ListInv, TypeOK
<1>2. /\ list.step = "signature" /\ sign.step \in {"load", "cache"} /\ skip.step = call[p].step
      /\ scan.step = "signature"
      /\ sign.step = "cache" => sign.sig # NoSignature
    BY <1>1 DEF Calls
<1>3. ASSUME NEW c, Quiet(p, c), c.step \in {"signature", "load", "cache", "scan"},
             c.step = "cache" => c.sig # NoSignature
      PROVE  FreshInv'
    BY <1>3, QuietFresh DEF FreshHand, Listed
<1>4. CASE BeginList(p, l)
    <2>1. Quiet(p, list)
        BY <1>1, <1>4 DEF Quiet, BeginList, TypeOK
    <2> HIDE DEF list
    <2> QED
        BY <1>2, <1>3, <2>1
<1>5. CASE ReadSignature(p, l)
    <2>1. Quiet(p, sign)
        BY <1>1, <1>5 DEF Quiet, ReadSignature, TypeOK
    <2> HIDE DEF sign
    <2> QED
        BY <1>2, <1>3, <2>1
<1>6. CASE SkipLink(p, l)
    <2>1. Quiet(p, skip) /\ call[p].step = "scan"
        BY <1>1, <1>6 DEF Quiet, SkipLink, TypeOK
    <2> HIDE DEF skip
    <2> QED
        BY <1>2, <1>3, <2>1
<1>7. CASE ScanLink(p, l)
    <2>1. Quiet(p, scan)
        BY <1>1, <1>7 DEF Quiet, ScanLink, TypeOK
    <2> HIDE DEF scan
    <2> QED
        BY <1>2, <1>3, <2>1
<1> QED
    BY <1>4, <1>5, <1>6, <1>7

\* A cache that is believed is right, and the load reads the file as it is.
LEMMA ReadFresh ==
    ASSUME ListInv, FreshInv, NEW p \in Callers, NEW l \in Links, ReadCache(p, l) \/ Load(p, l)
    PROVE  FreshInv'
<1> DEFINE hit == [call[p] EXCEPT !.step = "answer", !.list = cache[l].sessions]
           miss == [call[p] EXCEPT !.step = "load"]
           load == [call[p] EXCEPT
            !.list = file[l].sessions,
            !.ids = Candidates(file[l].sessions),
            !.step = IF Candidates(file[l].sessions) = {} THEN "refresh" ELSE "reconcile"]
<1>1. TypeOK /\ call[p] \in Calls /\ call[p].link = l /\ file[l] \in Docs
    BY DEF ListInv, TypeOK, ReadCache, Load, At
<1>2. /\ hit.step = "answer" /\ hit.link = l /\ hit.list = cache[l].sessions /\ hit.sig = call[p].sig
      /\ miss.step = "load"
      /\ load.step \in {"refresh", "reconcile"} /\ load.link = l /\ load.list = file[l].sessions
    BY <1>1 DEF Calls
<1>3. CASE ReadCache(p, l) /\ cache[l].sig = call[p].sig /\ Cacheable(cache[l].sessions)
    <2>1. Quiet(p, hit)
        BY <1>1, <1>3 DEF Quiet, ReadCache, TypeOK
    <2>2. call[p].sig # NoSignature /\ call[p].sig \in Nat /\ file[l].sig \in Nat
        <3>1. call[p].step = "cache" /\ FreshHand(file[l], l \notin raced, call[p])
            BY <1>1, <1>3 DEF ReadCache, At, FreshInv
        <3> QED
            BY <1>1, <3>1 DEF FreshHand, Calls, Docs
    <2>3. call[p].sig <= file[l].sig /\ GoodDoc(file[l], l \notin raced, cache[l])
        BY <1>1, CallKnown DEF GoodHand
    <2>4. file[l].sig # NoSignature
        BY <2>2, <2>3 DEF NoSignature
    <2> HIDE DEF hit
    <2>5. FreshHand(file[l], l \notin raced, hit)
        BY <1>2, <1>3, <2>3, <2>4 DEF FreshHand, GoodDoc
    <2> QED
        BY <1>2, <2>1, <2>5, QuietFresh
<1>4. CASE ReadCache(p, l) /\ ~(cache[l].sig = call[p].sig /\ Cacheable(cache[l].sessions))
    <2>1. Quiet(p, miss)
        BY <1>1, <1>4 DEF Quiet, ReadCache, Goto, TypeOK
    <2> HIDE DEF miss
    <2> QED
        BY <1>2, <2>1, QuietFresh DEF FreshHand, Listed
<1>5. CASE Load(p, l)
    <2>1. Quiet(p, load)
        BY <1>1, <1>5 DEF Quiet, Load, TypeOK
    <2> HIDE DEF load
    <2>2. FreshHand(file[l], l \notin raced, load)
        BY <1>2 DEF FreshHand
    <2> QED
        BY <1>2, <2>1, <2>2, QuietFresh
<1> QED
    BY <1>3, <1>4, <1>5

\* The second look takes the new signature only for a list that can be cached, which is still
\* that of the file when nothing was saved since the load.
LEMMA RefreshFresh ==
    ASSUME ListInv, FreshInv, NEW p \in Callers, NEW l \in Links,
           Refresh(p, l) \/ TruncateCache(p, l) \/ WriteCache(p, l)
    PROVE  FreshInv'
<1>1. TypeOK /\ call[p] \in Calls /\ call[p].link = l /\ call[p].step \in {"refresh", "truncate", "write"}
    BY DEF ListInv, TypeOK, Refresh, TruncateCache, WriteCache, At
<1> DEFINE to(step) == [call[p] EXCEPT !.step = step]
           kept == [call[p] EXCEPT !.step = "truncate", !.sig = file[l].sig]
<1>2. /\ \A step : to(step).step = step /\ to(step).link = l /\ to(step).sig = call[p].sig
                   /\ to(step).list = call[p].list
      /\ kept.step = "truncate" /\ kept.link = l /\ kept.list = call[p].list
    BY <1>1 DEF Calls
<1>3. FreshHand(file[l], l \notin raced, call[p]) /\ GoodHand(file[l], l \notin raced, call[p])
    BY <1>1, CallKnown DEF FreshInv
<1>4. ASSUME NEW step \in {"write", "answer"}, call' = Goto(p, step), file' = file, raced' = raced
      PROVE  FreshInv'
    <2>1. Quiet(p, to(step))
        BY <1>4 DEF Quiet, Goto
    <2> HIDE DEF to
    <2>2. FreshHand(file[l], l \notin raced, to(step))
        BY <1>1, <1>2, <1>3 DEF FreshHand, Listed
    <2> QED
        BY <1>2, <2>1, <2>2, QuietFresh
<1>5. CASE Refresh(p, l)
    <2>1. CASE call' = Goto(p, "answer")
        BY <1>4, <1>5, <2>1 DEF Refresh
    <2>2. CASE /\ Cacheable(call[p].list) /\ file[l].sig # NoSignature
               /\ call' = [call EXCEPT ![p].step = "truncate", ![p].sig = file[l].sig]
        <3>1. Quiet(p, kept)
            BY <1>1, <1>5, <2>2 DEF Quiet, Refresh, TypeOK
        <3>2. l \notin raced => call[p].list = file[l].sessions
            BY <1>3, <1>5, <2>2 DEF Refresh, At, GoodHand
        <3> HIDE DEF kept
        <3>3. FreshHand(file[l], l \notin raced, kept)
            BY <1>2, <2>2, <3>2 DEF FreshHand
        <3> QED
            BY <1>2, <3>1, <3>3, QuietFresh
    <2> QED
        BY <1>5, <2>1, <2>2 DEF Refresh
<1>6. CASE TruncateCache(p, l) \/ WriteCache(p, l)
    BY <1>4, <1>6 DEF TruncateCache, WriteCache
<1> QED
    BY <1>5, <1>6

\* A caller without a link has nothing in hand.
LEMMA RestFresh ==
    ASSUME ListInv, FreshInv, NEW p \in Callers,
           \/ \E filter \in Statuses \union {"all"} : BeginScan(p, filter)
           \/ TruncateIndex(p) \/ PersistIndex(p) \/ Crash(p)
           \/ \E l \in Links : ReconcileFails(p, l) \/ Answer(p, l)
    PROVE  FreshInv'
<1>1. TypeOK /\ call[p] \in Calls /\ Sane(call[p])
    BY DEF ListInv, TypeOK, CallInv
<1>2. ASSUME NEW c, Quiet(p, c), c.link \notin Links
      PROVE  FreshInv'
    BY <1>2, QuietFresh
<1>3. ASSUME NEW filter, BeginScan(p, filter) PROVE FreshInv'
    <2> DEFINE c == [call[p] EXCEPT !.step = "scan", !.scan = TRUE, !.filter = filter, !.todo = Links,
                                    !.index = index]
    <2>1. c.link = call[p].link /\ call[p].link \notin Links
        BY <1>1, <1>3, ListAssumption DEF BeginScan, Sane, Calls
    <2>2. Quiet(p, c)
        BY <1>1, <1>3 DEF Quiet, BeginScan, TypeOK
    <2> HIDE DEF c
    <2> QED
        BY <1>2, <2>1, <2>2
<1>4. ASSUME TruncateIndex(p), call' = Goto(p, "persist") PROVE FreshInv'
    <2> DEFINE c == [call[p] EXCEPT !.step = "persist"]
    <2>1. c.link = call[p].link /\ call[p].link \notin Links
        BY <1>1, <1>4, ListAssumption DEF TruncateIndex, Sane, Calls
    <2>2. Quiet(p, c)
        BY <1>1, <1>4 DEF Quiet, TruncateIndex, Goto, TypeOK
    <2> HIDE DEF c
    <2> QED
        BY <1>2, <2>1, <2>2
<1>5. ASSUME call' = [call EXCEPT ![p] = Idle], TruncateIndex(p) \/ PersistIndex(p) \/ Crash(p)
      PROVE  FreshInv'
    <2>1. Quiet(p, Idle) /\ Idle.link \notin Links
        BY <1>5, ListAssumption DEF Quiet, TruncateIndex, PersistIndex, Crash, Idle
    <2> QED
        BY <1>2, <2>1
<1>6. ASSUME NEW l \in Links, ReconcileFails(p, l) \/ Answer(p, l) PROVE FreshInv'
    <2>1. PICK e : call' = [call EXCEPT ![p] = Leave(e)] /\ e \in {call[p], [call[p] EXCEPT !.index[l] = Summary(call[p].scanSig, call[p].list)]}
        BY <1>6 DEF ReconcileFails, Answer
    <2>2. Quiet(p, Leave(e))
        BY <1>6, <2>1 DEF Quiet, ReconcileFails, Answer
    <2>3. Leave(e).link \notin Links
        BY <1>1, <2>1, ListAssumption DEF Leave, Calls, Idle
    <2> QED
        BY <1>2, <2>2, <2>3
<1> QED
    BY <1>3, <1>4, <1>5, <1>6 DEF TruncateIndex, PersistIndex, Crash

LEMMA FreshInvNext ==
    ASSUME ListInv, FreshInv, [Next]_vars
    PROVE  FreshInv'
<1>1. CASE UNCHANGED vars
    BY <1>1 DEF vars, FreshInv
<1>2. CASE Next
    <2>1. Listers \subseteq Callers /\ Scanners \subseteq Callers
        BY DEF Callers
    <2> QED
        BY <1>2, <2>1, SavesAre, SavesFresh, BeginFresh, ReadFresh, RefreshFresh, RestFresh DEF Next
<1> QED
    BY <1>1, <1>2

\* A listing that no save disturbs answers what is in the state file, whether it took the cache or
\* loaded the file, for any number of workspaces and of callers.
THEOREM FreshAnswerAlways == Spec => []FreshAnswer
<1>1. Init => FreshInv
    <2> SUFFICES ASSUME Init PROVE FreshInv
        OBVIOUS
    <2>1. \A p \in Callers : call[p] = Idle
        BY DEF Init
    <2>2. Idle.link \notin Links
        BY ListAssumption DEF Idle
    <2> QED
        BY <2>1, <2>2 DEF FreshInv
<1>2. ListInv /\ FreshInv /\ [Next]_vars => FreshInv'
    BY FreshInvNext
<1>3. FreshInv => FreshAnswer
    BY DEF FreshInv, FreshHand, FreshAnswer, At, Listed
<1> QED
    BY <1>1, <1>2, <1>3, ListInvariant, PTL DEF Spec
=============================================================================
