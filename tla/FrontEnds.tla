------------------------------ MODULE FrontEnds ------------------------------
(***************************************************************************)
(* The two ways to ask the program for something: the routes of the HTTP    *)
(* server and the command line, which clap parses.  Each checks what it is  *)
(* given and fills in the defaults in code of its own; both then call the   *)
(* same functions and turn what these return into a status or an exit code. *)
(*                                                                          *)
(* A request names a command and gives each of its fields a value, of which *)
(* only the class matters here: "good" is any that is in order.             *)
(***************************************************************************)
EXTENDS Naturals, Sequences, FiniteSets, FiniteSetsExt, Maps

CONSTANTS
    ThreadLists,      \* the lists of threads an adapter may report: sequences of ids
    MaxUnusual        \* bound on the fields that are neither absent nor good

VARIABLES
    request,    \* the command, its fields, and what a client of the server sends besides
    answer,     \* what each call returns, the same for both, or Unasked
    front       \* how far each front end has come, what it has called, and its reply

frontVars == <<request, answer, front>>

FrontEnd == {"http", "cli"}
Unasked == "unasked"
Omitted == "omitted"

Field(kind, default) == [kind |-> kind, absent |-> default]
Optional(kind) == Field(kind, Omitted)

Timeout == [timeout_ms |-> Field("natural", "1500")]
OnThread == [threadId |-> Optional("positive")] ++ Timeout
Flag == Field("flag", "false")
NoFields == [c \in {"suspend", "resume"} |-> [f \in {} |-> Flag]]

-----------------------------------------------------------------------------
(* The routes of the server, with the fields they read and their defaults.  *)

SessionRoutes ==
    [stop |-> [force |-> Flag, grace_timeout_ms |-> Field("natural", "1500")],
     restart |-> [force |-> Field("flag", "true"), grace_timeout_ms |-> Field("natural", "150")],
     cleanup |-> [statuses |-> Field("statuses", "stopped_unknown"), dry_run |-> Flag]]

BreakpointRoutes ==
    [setBreakpoints |-> [path |-> Optional("text"), lines |-> Optional("lines")] ++ Timeout,
     setExceptionBreakpoints |-> [filters |-> Field("filters", "none")] ++ Timeout]

EvaluateRoutes ==
    [evaluate |-> [expression |-> Optional("text"), frameId |-> Optional("positive"),
                   context |-> Optional("word")] ++ Timeout,
     setVariable |-> [variablesReference |-> Optional("reference"), name |-> Optional("text"),
                      value |-> Optional("value")] ++ Timeout]

ThreadRoutes ==
    [c \in {"continue", "pause", "next", "stepIn", "stepOut"} |-> OnThread]
    ++ [threads |-> [timeout_ms |-> Field("query", "1500")]]

ControlRoutes ==
    [disconnect |-> [terminateDebuggee |-> Flag, suspendDebuggee |-> Flag] ++ Timeout,
     terminate |-> [restart |-> Flag] ++ Timeout,
     adopt |-> [bootstrap_timeout_ms |-> Field("natural", "5000"), max_events |-> Field("count", "50"),
                childSessionId |-> Optional("id")] ++ Timeout]

DapRoutes ==
    [events |-> [max |-> Field("limit", "50"), timeout_ms |-> Field("query", "0")],
     request |-> [command |-> Optional("text"), arguments |-> Field("object", "empty_object")] ++ Timeout,
     batch |-> [batch |-> Optional("items"), command |-> Optional("excluded")] ++ Timeout]

HttpFields ==
    SessionRoutes ++ BreakpointRoutes ++ EvaluateRoutes ++ ThreadRoutes ++ ControlRoutes ++ DapRoutes ++ NoFields
    ++ [inspect |-> [tail |-> Field("tail", "50")]]

-----------------------------------------------------------------------------
(* The subcommands, with their options and defaults.                        *)

\* Mutant: a restart is as gentle as a stop.
GentleOptions ==
    [c \in {"stop", "restart"} |-> [force |-> Flag, grace_timeout_ms |-> Field("plain", "1500")]]

LifecycleOptions ==
    [stop |-> [force |-> Flag, grace_timeout_ms |-> Field("plain", "1500")],
     restart |-> [force |-> Field("setting", "true"), grace_timeout_ms |-> Field("plain", "150")]]

CleanupOptions == [cleanup |-> [statuses |-> Field("statuses", "stopped_unknown"), dry_run |-> Flag]]

RequestOptions ==
    [request |-> [command |-> Optional("text"), arguments |-> Field("object", "empty_object")] ++ Timeout,
     batch |-> [batch |-> Optional("items")] ++ Timeout,
     setBreakpoints |-> [path |-> Optional("text"), lines |-> Optional("lines")] ++ Timeout,
     continue |-> OnThread,
     setExceptionBreakpoints |-> [filters |-> Field("filters", "none")] ++ Timeout,
     evaluate |-> [expression |-> Optional("text"), frameId |-> Optional("positive"),
                   context |-> Optional("word")] ++ Timeout]

ControlOptions ==
    [setVariable |-> [variablesReference |-> Optional("reference"), name |-> Optional("text"),
                      value |-> Optional("value")] ++ Timeout,
     pause |-> OnThread, next |-> OnThread, stepIn |-> OnThread, stepOut |-> OnThread,
     disconnect |-> [terminateDebuggee |-> Flag, suspendDebuggee |-> Flag] ++ Timeout,
     terminate |-> [restart |-> Flag] ++ Timeout,
     adopt |-> [bootstrap_timeout_ms |-> Field("natural", "5000"), max_events |-> Field("limit", "50"),
                childSessionId |-> Optional("id")] ++ Timeout]

InspectOptions ==
    [threads |-> Timeout,
     events |-> [max |-> Field("limit", "50"), timeout_ms |-> Field("natural", "0")],
     stackTrace |-> [startFrame |-> Optional("plain"), levels |-> Optional("positive")] ++ OnThread,
     scopes |-> [frameId |-> Optional("reference")] ++ Timeout,
     variables |-> [variablesReference |-> Optional("reference"), filter |-> Optional("word"),
                    start |-> Optional("plain"), count |-> Optional("plain")] ++ Timeout]

CliFields ==
    LifecycleOptions ++ CleanupOptions ++ RequestOptions ++ ControlOptions ++ InspectOptions ++ NoFields
    ++ [inspect |-> [tail |-> Field("tail", "50")]]

-----------------------------------------------------------------------------
(* What a kind of field can be given, what is refused with which code, and  *)
(* what is put in place of some values.                                     *)

Kind(says, code, refused, means) ==
    [says |-> {"absent", "good"} \union says \union refused \union DOMAIN means,
     refuses |-> [c \in refused |-> code], means |-> means]

Same == [c \in {} |-> Omitted]
OnOff == [good |-> "true", off |-> "false"]

\* The fields of a JSON body, which may hold anything.
BodyKinds ==
    LET Json(says, refused, means) == Kind({"null", "wrong"} \union says, 400, refused, means)
        Not(refused) == {"null", "wrong"} \union refused
    IN [text |-> Json({}, Not({"absent", "blank"}), Same),
        value |-> Json({"blank"}, Not({"absent"}), Same),
        word |-> Json({"other"}, Not({}), Same),
        positive |-> Json({}, Not({"zero"}), Same),
        reference |-> Json({}, Not({"absent", "zero"}), Same),
        natural |-> Json({"zero"}, Not({}), [big |-> "60000"]),
        flag |-> Json({}, Not({}), OnOff),
        object |-> Json({}, {"wrong", "blank", "garbled"}, [null |-> "empty_object"]),
        lines |-> Json({}, Not({"absent", "empty", "zero"}), Same),
        filters |-> Json({}, Not({}), Same),
        count |-> Json({"big"}, Not({}), [zero |-> "1"]),
        id |-> Json({}, Not({}), [blank |-> Omitted]),
        items |-> Json({}, Not({"absent", "empty", "many", "bad_item"}), Same),
        excluded |-> Json({}, Not({"good"}), Same),
        statuses |-> Json({}, Not({"empty", "other"}), Same)]

QueryKinds ==
    [query |-> Kind({"zero"}, 400, {"wrong"}, [big |-> "60000"]),
     limit |-> Kind({}, 400, {"wrong", "zero", "big"}, Same),
     tail |-> Kind({"zero"}, 400, {"wrong", "big"}, Same)]

Also(kind, code, refused) ==
    [says |-> kind.says \union refused, refuses |-> kind.refuses ++ [c \in refused |-> code],
     means |-> kind.means]

\* clap refuses with 2, the handlers with 5 as any error of DAP, or 1 as what is not JSON.
OptionKinds ==
    LET Clap(says, refused, means) == Kind(says, 2, refused, means)
    IN [text |-> Also(Clap({}, {"absent"}, Same), 5, {"blank"}),
        value |-> Clap({"blank"}, {"absent"}, Same),
        word |-> Clap({}, {"other"}, Same),
        positive |-> Clap({}, {"wrong", "zero"}, Same),
        reference |-> Clap({}, {"absent", "wrong", "zero"}, Same),
        natural |-> Clap({"zero"}, {"wrong"}, [big |-> "60000"]),
        plain |-> Clap({"zero", "big"}, {"wrong"}, Same),
        flag |-> Clap({}, {}, [good |-> "true"]),
        setting |-> Clap({}, {"wrong"}, OnOff),
        object |-> Also(Also(Clap({}, {}, [null |-> "empty_object", blank |-> "empty_object"]), 5, {"wrong"}), 1, {"garbled"}),
        lines |-> Also(Clap({}, {"wrong", "zero"}, Same), 5, {"absent"}),
        filters |-> Clap({}, {}, Same),
        limit |-> Also(Clap({}, {"wrong"}, Same), 5, {"zero", "big"}),
        id |-> Clap({"blank"}, {}, Same),
        items |-> Also(Also(Clap({}, {"absent"}, Same), 5, {"empty", "many", "bad_item"}), 1, {"null", "wrong"}),
        statuses |-> Clap({}, {"other"}, Same),
        tail |-> Clap({"zero"}, {"wrong"}, [big |-> "5000"])]

Fields(v) == IF v = "http" THEN HttpFields ELSE CliFields
KindOf(v, c, f) == (IF v = "http" THEN BodyKinds ++ QueryKinds ELSE OptionKinds)[Fields(v)[c][f].kind]

Commands == DOMAIN HttpFields \union DOMAIN CliFields
FieldsOf(c) == UNION {DOMAIN Fields(v)[c] : v \in {w \in FrontEnd : c \in DOMAIN Fields(w)}}

\* The values a field of the command can be given on this front end.
Says(v, c, f) ==
    IF c \in DOMAIN Fields(v) /\ f \in DOMAIN Fields(v)[c] THEN KindOf(v, c, f).says ELSE {"absent"}

\* The request can be put to the front end: a route that is missing answers all the same.
CanSay(v) ==
    \/ v = "http" /\ request.command \notin DOMAIN HttpFields
    \/ /\ request.command \in DOMAIN Fields(v)
       /\ \A f \in DOMAIN request.fields : request.fields[f] \in Says(v, request.command, f)

Refused(v) ==
    {f \in DOMAIN Fields(v)[request.command] :
        request.fields[f] \in DOMAIN KindOf(v, request.command, f).refuses}

RefusalCodes(v) ==
    {KindOf(v, request.command, f).refuses[request.fields[f]] : f \in Refused(v)}

\* The value of a field as it is passed on.
Value(v, f) ==
    LET given == request.fields[f]
        kind == KindOf(v, request.command, f)
    IN IF given = "absent" THEN Fields(v)[request.command][f].absent
       ELSE IF given \in DOMAIN kind.means THEN kind.means[given]
       ELSE given

Arguments(v) ==
    LET all == [f \in DOMAIN Fields(v)[request.command] |-> Value(v, f)]
    IN [f \in {g \in DOMAIN all : all[g] # Omitted} |-> all[f]]

-----------------------------------------------------------------------------
(* What the calls return, and what becomes of it.                           *)

Lifecycle == {"stop", "restart", "suspend", "resume", "cleanup", "inspect"}
NoResponse == {"adopt", "events"}
Lookups == {"threads", "stackTrace", "scopes", "variables"}
Raw == {"request", "batch"}
\* "State" stands for the errors that neither side has a code of its own for.
DapErrors ==
    {"SessionNotFound", "SessionIdAmbiguous", "SessionMissingDebugMeta", "UnsupportedDapRuntime", "Dap", "State"}
LifecycleErrors ==
    {"SessionNotFound", "SessionIdAmbiguous", "SessionMissingPid", "SessionStateChanged", "StopTimeout",
     "PythonDebugpyUnavailable", "GoDlvUnavailable", "UnsupportedDebugRuntime", "State"}
Errors == DapErrors \union LifecycleErrors

\* The names of the lists are none of the other answers, and an id is never negative.
ASSUME FrontAssumption ==
    /\ MaxUnusual \in Nat
    /\ DOMAIN ThreadLists \cap (DapErrors \union {"failed", Unasked}) = {}
    /\ \A a \in DOMAIN ThreadLists : ThreadLists[a] \in Seq(Nat)

\* A response of an adapter that says that the request failed is "failed".
Answers(c) ==
    IF c \in Lifecycle THEN {"ok"} \union LifecycleErrors
    ELSE DapErrors \union (IF c \in NoResponse THEN {"ok"} ELSE {"ok", "failed"})

\* Mutant: the server has a status only for a session it does not find, and for the adapter.
StatusOfFew(error) ==
    CASE error = "SessionNotFound" -> 404
      [] error = "Dap" -> 502
      [] OTHER -> 500

HttpStatus(error) ==
    CASE error = "SessionNotFound" -> 404
      [] error \in {"SessionMissingPid", "SessionMissingDebugMeta", "SessionStateChanged",
                    "StopTimeout"} -> 409
      [] error \in {"PythonDebugpyUnavailable", "GoDlvUnavailable"} -> 412
      [] error \in {"UnsupportedDapRuntime", "UnsupportedDebugRuntime"} -> 422
      [] error = "Dap" -> 502
      [] OTHER -> 500

ExitCode(error) ==
    CASE error \in {"UnsupportedDapRuntime", "UnsupportedDebugRuntime"} -> 2
      [] error \in {"SessionNotFound", "SessionIdAmbiguous", "SessionMissingPid",
                    "SessionMissingDebugMeta", "SessionStateChanged"} -> 3
      [] error \in {"PythonDebugpyUnavailable", "GoDlvUnavailable"} -> 4
      [] error = "Dap" -> 5
      [] OTHER -> 1

Code(v, error) == IF v = "http" THEN HttpStatus(error) ELSE ExitCode(error)
Success(v) == IF v = "http" THEN 200 ELSE 0

Call(what, arguments) == [what |-> what, with |-> arguments]
At(v, step) == front[v].at = step
Reply(v, code) == front' = [front EXCEPT ![v].at = "end", ![v].code = code]

\* A response that failed is handed to a client of the server, and an error on the command line.
ReplyTo(v, f, answered) ==
    [f EXCEPT !.at = "end", !.answer = answered,
              !.code = CASE answered = "ok" -> Success(v)
                         [] answered = "failed" -> IF v = "http" THEN 200 ELSE ExitCode("Dap")
                         [] OTHER -> Code(v, answered)]

\* What a call returns does not depend on who makes it.
Ask(what, a) == answer[what] \in {Unasked, a} /\ answer' = [answer EXCEPT ![what] = a]

-----------------------------------------------------------------------------

Unauthorized ==
    /\ At("http", "new") /\ ~request.authorized
    /\ Reply("http", 401)
    /\ UNCHANGED <<request, answer>>

NoRoute ==
    /\ At("http", "new") /\ request.authorized
    /\ request.command \notin DOMAIN HttpFields
    /\ Reply("http", 404)
    /\ UNCHANGED <<request, answer>>

\* Threads, events and an inspection are asked for without a body.
HasBody == request.command \notin {"threads", "events", "inspect"}

BadBody ==
    /\ At("http", "new") /\ request.authorized
    /\ request.command \in DOMAIN HttpFields /\ HasBody
    /\ request.body # "object"
    /\ Reply("http", IF request.body = "too_large" THEN 413 ELSE 400)
    /\ UNCHANGED <<request, answer>>

\* The request has come to the checks of its fields.
ToCheck(v) ==
    /\ At(v, "new") /\ CanSay(v)
    /\ request.command \in DOMAIN Fields(v)
    /\ v = "http" => request.authorized /\ (HasBody => request.body = "object")

\* clap looks at all the options before a handler does.
Refuse(v) ==
    /\ ToCheck(v)
    /\ \E code \in RefusalCodes(v) :
         /\ 2 \in RefusalCodes(v) => code = 2
         /\ Reply(v, code)
    /\ UNCHANGED <<request, answer>>

NeedsThread == "threadId" \in DOMAIN request.fields /\ request.fields.threadId = "absent"

Accept(v) ==
    /\ ToCheck(v) /\ Refused(v) = {}
    /\ front' = [front EXCEPT ![v].at = IF NeedsThread THEN "threads" ELSE "call"]
    /\ UNCHANGED <<request, answer>>

\* Mutant: the first id that is reported, whatever it is.
FirstOfAny(threads) == {threads[i] : i \in {1} \cap DOMAIN threads}

\* The first id that is positive, if there is one.
FirstThread(threads) ==
    LET positive == {i \in DOMAIN threads : threads[i] > 0}
    IN {threads[Min(positive)] : i \in positive}

\* A failed response brings no threads, which the command line notices first.
AskThreads(v) ==
    /\ At(v, "threads")
    /\ \E a \in DapErrors \union {"failed"} \union DOMAIN ThreadLists :
         /\ Ask("threads", a)
         /\ LET f == [front[v] EXCEPT
                        !.calls = Append(@, Call("threads", [timeout_ms |-> Value(v, "timeout_ms")]))]
                first == IF a \in DOMAIN ThreadLists THEN FirstThread(ThreadLists[a]) ELSE {}
            IN front' = [front EXCEPT ![v] =
                 IF a \in DapErrors THEN ReplyTo(v, f, a)
                 ELSE IF first = {}
                 THEN [f EXCEPT !.at = "end", !.code = IF v = "http" THEN 409 ELSE ExitCode("Dap")]
                 ELSE [f EXCEPT !.at = "call", !.thread = first]]
    /\ UNCHANGED request

\* The arguments of the call: those of the request, and the thread that was found.
CallArguments(v) == Arguments(v) ++ [t \in {"threadId" : i \in front[v].thread} |-> front[v].thread]

MakeCall(v, kind) ==
    /\ At(v, "call") /\ request.command \in kind
    /\ \E a \in Answers(request.command) :
         /\ Ask("command", a)
         /\ LET f == [front[v] EXCEPT !.calls = Append(@, Call(request.command, CallArguments(v)))]
            IN front' = [front EXCEPT ![v] = ReplyTo(v, f, a)]
    /\ UNCHANGED request

Manage(v) == MakeCall(v, Lifecycle)
Send(v) == MakeCall(v, Commands \ (Lifecycle \union NoResponse \union Lookups \union Raw))
LookUp(v) == MakeCall(v, Lookups)
SendRaw(v) == MakeCall(v, Raw)
ReadEvents(v) == MakeCall(v, {"events"})
Adopt(v) == MakeCall(v, {"adopt"})

-----------------------------------------------------------------------------

\* The values that any front end can give to a field.
Values(c, f) == UNION {Says(v, c, f) : v \in FrontEnd}

Unusual(fields) == {f \in DOMAIN fields : fields[f] \notin {"absent", "good"}}

RequestsOf(c) ==
    {[command |-> c, fields |-> fields, authorized |-> TRUE, body |-> "object"] :
        fields \in {g \in [FieldsOf(c) -> UNION {Values(c, f) : f \in FieldsOf(c)}] :
                      /\ \A f \in FieldsOf(c) : g[f] \in Values(c, f)
                      /\ Cardinality(Unusual(g)) <= MaxUnusual}}

\* What only a client of the server can get wrong, on a request that is in order.
Unsound(c) ==
    {[command |-> c, fields |-> [f \in FieldsOf(c) |-> "absent"], authorized |-> a, body |-> b] :
        a \in BOOLEAN, b \in {"object", "too_large", "not_an_object"}}

FrontInit ==
    /\ \E c \in Commands : request \in RequestsOf(c) \union Unsound(c)
    /\ answer = [w \in {"threads", "command"} |-> Unasked]
    /\ front = [v \in FrontEnd |->
                  [at |-> "new", calls |-> <<>>, thread |-> {}, answer |-> Unasked, code |-> 0]]

FrontNext ==
    \/ Unauthorized \/ NoRoute \/ BadBody
    \/ \E v \in FrontEnd :
         \/ Refuse(v) \/ Accept(v) \/ AskThreads(v)
         \/ Manage(v) \/ Send(v) \/ LookUp(v) \/ SendRaw(v) \/ ReadEvents(v) \/ Adopt(v)

FrontSpec == FrontInit /\ [][FrontNext]_frontVars

-----------------------------------------------------------------------------

\* Where the two are known to differ: the server takes any context and any number of events
\* for an adoption, and refuses long tails and blank arguments; the command line does not
\* cap the grace timeout and takes a blank id of a child as it is.
Differences ==
    {<<"context", "other">>, <<"max_events", "zero">>, <<"max_events", "big">>, <<"tail", "big">>,
     <<"arguments", "blank">>, <<"grace_timeout_ms", "big">>, <<"childSessionId", "blank">>}

\* The errors that one of the two blames on the user and the other on the program: a process
\* that does not stop in time is a conflict (409) and yet exit code 1; an id that more than
\* one session begins with is exit code 3 and yet an internal error of the server (500).
BlamedDifferently == {"StopTimeout", "SessionIdAmbiguous"}

AtFault(v) == IF v = "http" THEN front[v].code \in 400..499 ELSE front[v].code \in 2..4

\* Whatever is asked, the two front ends come to the same: both refuse it or both accept it,
\* they make the same calls with the same arguments, no call names a thread that cannot
\* exist, and both succeed or fail.  An error of a call is the fault of the user for both or
\* for none, but for those BlamedDifferently.  The clause is about errors of calls only: a
\* refused field is 400 and exit code 2, or 5 or 1 where a handler refuses it, and the lack of a
\* thread to act on is 409 and exit code 5.
FrontEndsAgree ==
    LET common == /\ \A v \in FrontEnd : At(v, "end")
                  /\ request.authorized /\ request.body = "object"
                  /\ request.command \in DOMAIN HttpFields
                  /\ \A f \in DOMAIN request.fields : <<f, request.fields[f]>> \notin Differences
    IN /\ common =>
            /\ front["http"].calls = front["cli"].calls
            /\ front["http"].answer = front["cli"].answer
            /\ front["http"].answer \in Errors \ BlamedDifferently => (AtFault("http") <=> AtFault("cli"))
            /\ front["cli"].code = 0 => front["http"].code = 200
            /\ front["http"].code = 200 => front["cli"].code = 0 \/ front["http"].answer = "failed"
       /\ \A v \in FrontEnd : 0 \notin front[v].thread
=============================================================================
