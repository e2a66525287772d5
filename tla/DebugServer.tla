----------------------------- MODULE DebugServer -----------------------------
(***************************************************************************)
(* The HTTP server at work on debug sessions: its worker threads are the    *)
(* callers of the registry, and a request is handled when the calls it      *)
(* makes have come to an end.  The server implements HttpServer, which      *)
(* takes for granted that they do.                                          *)
(***************************************************************************)
EXTENDS HttpServer, DapRegistry

ASSUME DebugAssumption == Callers = Workers

vars == <<httpVars, dapVars>>

\* The worker picks up the request it has taken and calls the registry.
Dispatch(w) ==
    /\ worker[w] = "handle"
    /\ \E r \in Routes : Begin(w, r.op, r.session)
    /\ UNCHANGED httpVars

AnswerOther(w) == Handled(w) /\ At(w, "idle") /\ UNCHANGED dapVars

\* Mutant: the worker keeps what the call has returned.
AnswerCallAndKeep(w) ==
    /\ At(w, "done")
    /\ Handled(w)
    /\ UNCHANGED dapVars

\* http_json or http_json_error of what the call has returned
AnswerCall(w) ==
    /\ At(w, "done")
    /\ Handled(w)
    /\ Become(w, Idle)
    /\ again' = again \ {w}
    /\ UNCHANGED <<goRuntime, endpoint, adapter, lives, registry, bootstrapped, attach, troubles>>

Serve(w) ==
    \/ (LockReceiver(w) \/ Take(w) \/ Respond(w) \/ Leave(w)) /\ UNCHANGED dapVars
    \/ Dispatch(w) \/ AnswerOther(w) \/ AnswerCall(w)
    \/ CallStep(w) /\ UNCHANGED httpVars

Init == HttpInit /\ DapInit

Next ==
    \/ (Accept \/ CountRefused \/ CloseQueue) /\ UNCHANGED dapVars
    \/ \E w \in Workers : Serve(w)
    \/ Adapters /\ UNCHANGED httpVars

Fairness == \A w \in Workers : WF_vars(Serve(w))

Spec == Init /\ [][Next]_vars /\ Fairness

-----------------------------------------------------------------------------

H == INSTANCE HttpServer

\* The server answers as HttpServer says it does, whatever the adapters do.
ImplementsHttpServer == H!HttpSpec

DebugTypeOK ==
    /\ HttpTypeOK
    /\ endpoint \in [Ids -> Ports \union {NoPort}]
    /\ adapter \in [Ports -> {0} \union Lives]
    /\ bootstrapped \subseteq Ids
    /\ \A w \in Workers : call[w] # Idle => worker[w] = "handle"

\* A request that has arrived waits, is with one worker or has one answer; the metrics count
\* the answers; and when the workers have been joined every request has been answered.
ServerInv == DebugTypeOK /\ EachRequestOnce /\ MetricsAddUp /\ DrainedWhenJoined

\* A call during which the adapter of its session was there, did not hang up and was not
\* late succeeds, whatever happened before it and whatever the other threads do: a closed or
\* misplaced proxy is replaced, an adapter that is not ready is bootstrapped, and a proxy
\* another thread replaces or drops costs nobody's request.  Two things may fail it: a
\* thread that is about to register a closed connection when the call begins, or its child
\* is registered; and an adapter that refuses to be bootstrapped a second time.  That
\* happens to a request alone, when two threads bootstrap one adapter at once or the
\* registry has forgotten that it has been, as it does with each proxy of a Go session it drops.
SteadyCallSucceeds ==
    \A w \in Workers :
      LET r == call[w] IN
      At(w, "done") /\ ~r.fault
        => r.result \in {"ok", "no event", "no id"} \/ (r.result = "refused" /\ w \in again)

\* A request is only sent to the adapter of another session when that of its own has gone
\* away since the call began, and its port is taken.
NeverMisdirected ==
    \A w \in Workers :
      At(w, "send") /\ Up(call[w].conn) /\ ~call[w].fault
        => lives[call[w].conn.life].session = call[w].session

\* The retries do not make an adapter carry out a request twice, unless a connection broke
\* or an answer was late.
RanOnceWithoutFault ==
    \A w \in Workers : At(w, "done") /\ ~call[w].fault => call[w].ran <= 1

\* An adoption that fails has taken back the record of the child by the time it answers.  One
\* whose requests the adapter of the child refuses does not fail: nobody looks at the answers.
FailedAdoptionLeavesNoChild ==
    [][\A w \in Workers :
         LET r == call'[w] IN
         call[w] # r /\ r.step = "done" /\ r.result # "ok" => \A k \in r.child : endpoint'[k] = NoPort]_vars
=============================================================================
