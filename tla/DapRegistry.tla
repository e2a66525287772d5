---------------------------- MODULE DapRegistry -----------------------------
(***************************************************************************)
(* The registry of debug connections that the HTTP threads share: one       *)
(* proxy per session, found by the endpoint in the session's record, with   *)
(* the retries, the bootstrap of an adapter and the adoption of a debug     *)
(* subprocess.  DapChannel is one connection; here a request on one is a    *)
(* single step with its outcome.                                            *)
(*                                                                          *)
(* Adapters come and go by themselves and may take a port another one had.  *)
(* An adapter that hangs up closes all connections it has, which makes a    *)
(* connection the value [port, life, epoch]; it is open while that adapter  *)
(* lives and has not hung up since.                                         *)
(***************************************************************************)
EXTENDS Naturals, Sequences, FiniteSets

CONSTANTS
    Callers,      \* the HTTP threads
    Sessions,     \* sessions that were started with a debug port
    Children,     \* session ids that adoptions may take
    Ports, NoPort,
    StartPort,    \* where the adapter of each session listens at first
    Routes,       \* the calls that are made: an operation (request, handshake, batch,
                  \* events or adopt) on a session
    MaxLives,     \* bound on the adapters there ever are
    MaxTroubles   \* bound on the deaths, hang-ups, late answers and unwarranted refusals

Orphan == "an adapter no session owns"

Operations == {"request", "handshake", "batch", "events", "adopt"}

ASSUME RegistryAssumption ==
    /\ IsFiniteSet(Callers) /\ IsFiniteSet(Sessions) /\ IsFiniteSet(Children)
    /\ Sessions \intersect Children = {} /\ Orphan \notin Sessions \union Children
    /\ Routes \subseteq [op : Operations, session : Sessions \union Children]
    /\ Ports = 1 .. Cardinality(Ports) /\ NoPort \notin Ports
    /\ {StartPort[s] : s \in Sessions} = 1 .. Cardinality(Sessions)
    /\ StartPort \in [Sessions -> Ports]
    /\ \A s, t \in Sessions : s # t => StartPort[s] # StartPort[t]
    /\ MaxLives \in Nat /\ MaxTroubles \in Nat

VARIABLES
    goRuntime,     \* the sessions of the Go runtime; the others are Python
    endpoint,      \* the port in the record of each session
    adapter,       \* the adapter that listens on each port, 0 if none does
    lives,         \* what is known of each adapter there has been
    registry,      \* proxies
    bootstrapped,
    attach,        \* the latest debugpyAttach event in the queue of each connection that has
                   \* one: the connection, and the port of the child
    troubles,      \* of the adapters, so far
    call,          \* the operation of each caller
    again          \* the callers that may bootstrap an adapter once more: it had been when their
                   \* call began but the session was not marked so, or another call has since
                   \* bootstrapped it or removed the mark

dapVars == <<goRuntime, endpoint, adapter, lives, registry, bootstrapped, attach, troubles, call, again>>

Ids == Sessions \union Children

NoConn == [port |-> NoPort, life |-> 0, epoch |-> 0]

Lives == DOMAIN lives

\* What is left of an adapter that has exited
Gone == [session |-> Orphan, ready |-> FALSE, epoch |-> 0]

Connection(p) == [port |-> p, life |-> adapter[p], epoch |-> lives[adapter[p]].epoch]

\* The reader thread of an open connection has met no end of file: not is_closed.
Up(k) == k # NoConn /\ adapter[k.port] = k.life /\ lives[k.life].epoch = k.epoch

Alive(s) ==
    /\ endpoint[s] # NoPort
    /\ adapter[endpoint[s]] # 0
    /\ lives[adapter[endpoint[s]]].session = s

-----------------------------------------------------------------------------
(* Calls *)

\* The adapter has been bootstrapped, and yet the next request will bootstrap it.
Unflagged(s) ==
    s \in goRuntime /\ s \notin bootstrapped /\ Alive(s) /\ lives[adapter[endpoint[s]]].ready

Fault(r) == [r EXCEPT !.fault = TRUE, !.ran = 0]

\* The callers other than c that have a call on s under way
Rivals(c, s) == {d \in Callers \ {c} : call[d].step \notin {"idle", "done"} /\ call[d].session = s}

Disturbed(s) == [c \in Callers |->
    IF call[c].step \notin {"idle", "done"} /\ call[c].session = s THEN Fault(call[c]) ELSE call[c]]

At(c, step) == call[c].step = step

\* A thread is about to register a connection that has been closed since it was made.
StaleInsert(s) == \E d \in Callers : At(d, "insert") /\ call[d].session = s /\ ~Up(call[d].conn)

\* `fault': the adapter was not there, died, hung up or was late since the call
\* began, or a closed connection was about to be registered then.  `ran': how often
\* adapters have carried out the request itself, up to 2.
Calling(op, s) ==
    [op |-> op, session |-> s, step |-> "lookup",
     level |-> 1, try |-> 1, boot |-> "no", port |-> NoPort, conn |-> NoConn, error |-> "no",
     fault |-> ~Alive(s) \/ StaleInsert(s), ran |-> 0]

Idle == [step |-> "idle"]

Become(c, r) == call' = [call EXCEPT ![c] = r]

Ended(r, result) ==
    [step |-> "done", result |-> result, fault |-> r.fault, ran |-> r.ran,
     child |-> IF r.boot = "child" THEN {r.session} ELSE {}]

Begin(c, op, s) ==
    /\ At(c, "idle")
    /\ Become(c, Calling(op, s))
    /\ again' = IF Unflagged(s) THEN again \union {c} ELSE again
    /\ UNCHANGED <<goRuntime, endpoint, adapter, lives, registry, bootstrapped, attach, troubles>>

Plain(r, step) == [r EXCEPT !.step = step, !.port = NoPort, !.conn = NoConn, !.error = "no"]

Looked(r) == [Plain(r, "lookup") EXCEPT !.try = 1]

LateBootstrap(r) == [Looked(r) EXCEPT !.boot = "late", !.level = 3]

\* The next attempt of send_request_with_retry
NextLevel(r, level) == [Looked(r) EXCEPT !.level = level, !.boot = "no"]

\* Mutant: a broken connection is tried again until it works.
AfterErrorForever(r, kind) ==
    IF kind = "broken" /\ r.boot = "no" THEN NextLevel(r, 1) ELSE Ended(r, kind)

\* What follows an error of proxy_for_session, or of the second attempt on a proxy.
AfterError(r, kind) ==
    CASE r.boot = "child" -> [Looked(r) EXCEPT !.step = "unregister", !.error = kind]
      [] r.op \in {"request", "handshake"} /\ r.boot # "late" /\ r.level = 1 /\ kind = "broken" -> NextLevel(r, 2)
      [] r.op = "request" /\ r.boot # "late" /\ r.level < 3 /\ kind = "timeout" -> LateBootstrap(r)
      [] OTHER -> Ended(r, kind)

\* Mutant: an adapter that says it is not available is not bootstrapped.
AfterAnswerAsIs(r, answer) ==
    IF r.boot \in {"eager", "late"} THEN Plain(r, "flag") ELSE Ended(r, answer)

\* Mutant: the adapter is bootstrapped whatever it says.
AfterAnswerAnyway(r, answer) ==
    IF r.boot \in {"eager", "late"} THEN Plain(r, "flag")
    ELSE IF r.op = "request" /\ r.level < 3 THEN LateBootstrap(r)
    ELSE Ended(r, answer)

\* What follows a response: the end of a bootstrap, or should_bootstrap_after_response.
AfterAnswer(r, answer) ==
    IF r.boot \in {"eager", "late"} THEN Plain(r, "flag")
    ELSE IF answer = "unavailable" /\ r.op = "request" /\ r.level < 3 THEN LateBootstrap(r)
    ELSE Ended(r, answer)

\* What follows a refusal: only a bootstrap looks at the responses of its batch.
AfterRefusal(r) == Ended(r, IF r.boot \in {"eager", "late"} THEN "refused" ELSE "ok")

\* Mutant: the session is not marked as bootstrapped.
FlagForgotten(c) ==
    /\ At(c, "flag")
    /\ Become(c, NextLevel(call[c], call[c].level))
    /\ UNCHANGED <<goRuntime, endpoint, adapter, lives, registry, bootstrapped, attach, troubles, again>>

\* The last step of bootstrap_session, then the request the bootstrap was for.
Flag(c) ==
    /\ At(c, "flag")
    /\ bootstrapped' = bootstrapped \union {call[c].session}
    /\ Become(c, NextLevel(call[c], call[c].level))
    /\ UNCHANGED <<goRuntime, endpoint, adapter, lives, registry, attach, troubles, again>>

-----------------------------------------------------------------------------
(* proxy_for_session: the record, the registry, the connection *)

HaveProxy(r, k) == [r EXCEPT !.conn = k, !.step =
    IF r.op = "events" \/ (r.op = "adopt" /\ r.boot = "no") THEN "pop" ELSE "send"]

\* Mutant: a proxy is used again wherever it leads.
MatchesAnything(k, p) == k # NoConn

\* matches; a closed proxy is as good as an open one.
Matches(k, p) == k # NoConn /\ k.port = p

\* ensure_bootstrap_for_command: only for a session of the Go runtime, once
NeedsBootstrap(r) ==
    r.op = "request" /\ r.boot = "no" /\ r.try = 1 /\ r.session \in goRuntime /\ r.session \notin bootstrapped

\* The record is read here; the connection is made, and inserted, in steps of their own.
Lookup(c) ==
    /\ At(c, "lookup")
    /\ LET r == IF NeedsBootstrap(call[c]) THEN [call[c] EXCEPT !.boot = "eager"] ELSE call[c]
           p == endpoint[r.session]
           k == registry[r.session] IN
         Become(c, IF p = NoPort THEN AfterError(r, "not found")
                   ELSE IF Matches(k, p) THEN HaveProxy(r, k)
                   ELSE [r EXCEPT !.step = "connect", !.port = p])
    /\ UNCHANGED <<goRuntime, endpoint, adapter, lives, registry, bootstrapped, attach, troubles, again>>

\* A refused connection is an error of the kind that is tried again.
Connect(c) ==
    /\ At(c, "connect")
    /\ LET p == call[c].port IN
         Become(c, IF adapter[p] = 0 THEN AfterError(call[c], "broken")
                   ELSE [call[c] EXCEPT !.step = "insert", !.port = NoPort, !.conn = Connection(p)])
    /\ UNCHANGED <<goRuntime, endpoint, adapter, lives, registry, bootstrapped, attach, troubles, again>>

\* The last thread to connect replaces the proxy of one that did before.
Insert(c) ==
    /\ At(c, "insert")
    /\ registry' = [registry EXCEPT ![call[c].session] = call[c].conn]
    /\ Become(c, HaveProxy(call[c], call[c].conn))
    /\ UNCHANGED <<goRuntime, endpoint, adapter, lives, bootstrapped, attach, troubles, again>>

-----------------------------------------------------------------------------
(* send_request_transport_with_retry and send_batch_with_retry *)

Bootstraps(r) == r.boot # "no" \/ r.op = "batch"

Ready(r) == lives[r.conn.life].ready

\* What the adapter does with a request it gets: it counts those it carries out.
Counted(r) ==
    IF Bootstraps(r) \/ ~Ready(r) \/ r.op # "request" THEN r
    ELSE [r EXCEPT !.ran = IF r.ran = 0 THEN 1 ELSE 2]

Answer(r) == IF Bootstraps(r) \/ Ready(r) \/ r.op = "handshake" THEN "ok" ELSE "unavailable"

\* On the first error of a proxy that is closed it is dropped and another one tried;
\* after the second try it is dropped in any case.
FailedSend(r, kind) ==
    IF r.try = 2 \/ kind = "broken" THEN [Plain(r, "drop") EXCEPT !.error = kind]
    ELSE AfterError(r, kind)

\* To attach to what is "already being debugged" is no refusal.
SendAnswered(c) ==
    /\ At(c, "send") /\ Up(call[c].conn)
    /\ LET r == call[c]
           l == r.conn.life IN
         /\ Become(c, AfterAnswer(Counted(r), Answer(r)))
         /\ IF Bootstraps(r)
            THEN /\ lives' = [lives EXCEPT ![l].ready = TRUE]
                 /\ again' = again \union Rivals(c, lives[l].session)
            ELSE UNCHANGED <<lives, again>>
    /\ UNCHANGED <<goRuntime, endpoint, adapter, registry, bootstrapped, attach, troubles>>

\* The adapter refuses initialize, attach or configurationDone.  One that has been
\* bootstrapped may do so by right; for one that has not it is a fault.
SendRefused(c) ==
    /\ At(c, "send") /\ Up(call[c].conn) /\ Bootstraps(call[c])
    /\ IF Ready(call[c])
       THEN Become(c, AfterRefusal(call[c])) /\ UNCHANGED troubles
       ELSE /\ troubles < MaxTroubles /\ troubles' = troubles + 1
            /\ Become(c, AfterRefusal(Fault(call[c])))
    /\ UNCHANGED <<goRuntime, endpoint, adapter, lives, registry, bootstrapped, attach, again>>

SendTimesOut(c) ==
    /\ At(c, "send") /\ Up(call[c].conn)
    /\ troubles < MaxTroubles
    /\ troubles' = troubles + 1
    /\ Become(c, FailedSend(Fault(call[c]), "timeout"))
    /\ UNCHANGED <<goRuntime, endpoint, adapter, lives, registry, bootstrapped, attach, again>>

SendFails(c) ==
    /\ At(c, "send") /\ ~Up(call[c].conn)
    /\ Become(c, FailedSend(call[c], "broken"))
    /\ UNCHANGED <<goRuntime, endpoint, adapter, lives, registry, bootstrapped, attach, troubles, again>>

\* drop_session: whatever proxy the session has by now
DropSession(c) ==
    /\ At(c, "drop")
    /\ LET r == call[c] IN
         /\ registry' = [registry EXCEPT ![r.session] = NoConn]
         /\ bootstrapped' = bootstrapped \ {r.session}
         /\ again' = IF r.session \in goRuntime THEN again \union Rivals(c, r.session) ELSE again
         /\ Become(c, IF r.try = 2 THEN AfterError(r, r.error) ELSE [Looked(r) EXCEPT !.try = 2])
    /\ UNCHANGED <<goRuntime, endpoint, adapter, lives, attach, troubles>>

-----------------------------------------------------------------------------
(* Events and the adoption of a subprocess *)

\* handle_dap_events, or the events adopt_debugpy_subprocess looks at.
PopEvents(c) ==
    /\ At(c, "pop")
    /\ LET r == call[c]
           mine == {e \in attach : e.conn = r.conn} IN
         /\ attach' = attach \ mine
         /\ IF r.op = "events" THEN Become(c, Ended(r, "ok"))
            ELSE IF mine = {} THEN Become(c, Ended(r, "no event"))
            ELSE \E latest \in mine :
                   Become(c, [Looked(r) EXCEPT !.step = "register", !.port = latest.port])
    /\ UNCHANGED <<goRuntime, endpoint, adapter, lives, registry, bootstrapped, troubles, again>>

\* register_subprocess_session: one update, under an id nobody has.
RegisterChild(c) ==
    /\ At(c, "register")
    /\ LET r == call[c]
           free == {k \in Children : endpoint[k] = NoPort} IN
         IF endpoint[r.session] = NoPort \/ free = {}
         THEN Become(c, Ended(r, "no id")) /\ UNCHANGED <<goRuntime, endpoint, lives>>
         ELSE \E k \in free :
                /\ endpoint' = [endpoint EXCEPT ![k] = r.port]
                /\ lives' = [l \in Lives |->
                     IF l = adapter[r.port] /\ lives[l].session = Orphan
                     THEN [lives[l] EXCEPT !.session = k] ELSE lives[l]]
                /\ Become(c, [Looked(r) EXCEPT !.session = k, !.boot = "child", !.fault =
                     \/ r.fault \/ StaleInsert(k)
                     \/ adapter[r.port] = 0 \/ lives[adapter[r.port]].session # Orphan])
    /\ UNCHANGED <<goRuntime, adapter, registry, bootstrapped, attach, troubles, again>>

\* Mutant: the record of a child that could not be attached to stays.
KeepChild(c) ==
    /\ At(c, "unregister")
    /\ Become(c, Ended(call[c], call[c].error))
    /\ UNCHANGED <<goRuntime, endpoint, adapter, lives, registry, bootstrapped, attach, troubles, again>>

UnregisterChild(c) ==
    /\ At(c, "unregister")
    /\ endpoint' = [endpoint EXCEPT ![call[c].session] = NoPort]
    /\ call' = [Disturbed(call[c].session) EXCEPT ![c] = Ended(call[c], call[c].error)]
    /\ UNCHANGED <<goRuntime, adapter, lives, registry, bootstrapped, attach, troubles, again>>

-----------------------------------------------------------------------------
(* The debug adapters *)

\* What goes wrong with the adapter of s is held against the calls on s under way.
Trouble(s) ==
    /\ troubles < MaxTroubles
    /\ troubles' = troubles + 1
    /\ call' = Disturbed(s)

\* The worker dies, or is stopped; the record keeps the port.
AdapterExits(p) ==
    /\ adapter[p] # 0
    /\ Trouble(lives[adapter[p]].session)
    /\ adapter' = [adapter EXCEPT ![p] = 0]
    /\ lives' = [lives EXCEPT ![adapter[p]] = Gone]
    /\ UNCHANGED <<goRuntime, endpoint, registry, bootstrapped, attach, again>>

HangsUp(p) ==
    /\ adapter[p] # 0
    /\ Trouble(lives[adapter[p]].session)
    /\ lives' = [lives EXCEPT ![adapter[p]].epoch = @ + 1]
    /\ UNCHANGED <<goRuntime, endpoint, adapter, registry, bootstrapped, attach, again>>

\* An adapter of s begins to listen on p.
NewLife(p, s) ==
    /\ Len(lives) < MaxLives
    /\ adapter[p] = 0
    /\ adapter' = [adapter EXCEPT ![p] = Len(lives) + 1]
    /\ lives' = Append(lives, [session |-> s, ready |-> FALSE, epoch |-> 0])

\* A start or a restart by whom it may be, also by the reconcile of a lookup: the port of
\* before or, where something listens on it, one where nothing does by then ...
ResolvesPort(s) ==
    /\ ~Alive(s)
    /\ adapter[endpoint[s]] # 0
    /\ \E p \in Ports : adapter[p] = 0 /\ endpoint' = [endpoint EXCEPT ![s] = p]
    /\ UNCHANGED <<goRuntime, adapter, lives, registry, bootstrapped, attach, troubles, call, again>>

\* ... and some time later the worker listens there.
Listens(s) ==
    /\ ~Alive(s)
    /\ NewLife(endpoint[s], s)
    /\ UNCHANGED <<goRuntime, endpoint, registry, bootstrapped, attach, troubles, call, again>>

\* Another program, or the worker of another session, takes the port of a session.
Occupied(p) ==
    /\ \E s \in Sessions : endpoint[s] = p
    /\ NewLife(p, Orphan)
    /\ UNCHANGED <<goRuntime, endpoint, registry, bootstrapped, attach, troubles, call, again>>

\* A debuggee forks, and debugpy offers the subprocess on a connection.  Only the latest offer
\* of a queue is ever taken: latest_debugpy_attach_target.
OffersSubprocess(k) ==
    /\ Up(k)
    /\ \E p \in Ports :
         /\ NewLife(p, Orphan)
         /\ attach' = {e \in attach : e.conn # k} \union {[conn |-> k, port |-> p]}
    /\ UNCHANGED <<goRuntime, endpoint, registry, bootstrapped, troubles, call, again>>

-----------------------------------------------------------------------------

\* The sessions have been started, and their adapters listen.
DapInit ==
    /\ goRuntime \in SUBSET Sessions
    /\ endpoint = [s \in Ids |-> IF s \in Sessions THEN StartPort[s] ELSE NoPort]
    /\ lives = [l \in {StartPort[s] : s \in Sessions} |->
                  [session |-> CHOOSE s \in Sessions : StartPort[s] = l, ready |-> FALSE, epoch |-> 0]]
    /\ adapter = [p \in Ports |-> IF p \in DOMAIN lives THEN p ELSE 0]
    /\ registry = [s \in Ids |-> NoConn]
    /\ bootstrapped = {}
    /\ attach = {}
    /\ troubles = 0
    /\ call = [c \in Callers |-> Idle]
    /\ again = {}

CallStep(c) ==
    \/ Flag(c) \/ Lookup(c) \/ Connect(c) \/ Insert(c)
    \/ SendAnswered(c) \/ SendRefused(c) \/ SendTimesOut(c) \/ SendFails(c) \/ DropSession(c)
    \/ PopEvents(c) \/ RegisterChild(c) \/ UnregisterChild(c)

Adapters ==
    \/ \E p \in Ports : AdapterExits(p) \/ HangsUp(p) \/ Occupied(p)
    \/ \E s \in Sessions : ResolvesPort(s) \/ Listens(s)
    \/ \E s \in Sessions \ goRuntime : OffersSubprocess(registry[s])
=============================================================================
