----------------------------- MODULE HttpServer ------------------------------
(***************************************************************************)
(* The HTTP server of `lcode serve': one thread accepts requests and puts   *)
(* them into a bounded channel or, when that is full, answers that the      *)
(* server is overloaded; worker threads take turns at the receiving end,    *)
(* which a mutex guards, and answer what they take.  When no more requests  *)
(* come the channel is closed and the workers are joined.                   *)
(*                                                                          *)
(* Requests are numbered as they arrive.                                    *)
(***************************************************************************)
EXTENDS Naturals, Sequences, FiniteSets

CONSTANTS
    Workers, NoWorker,
    Capacity,      \* queue_capacity; 0 hands over to a worker that waits
    MaxRequests    \* bound on the requests

ASSUME ServerAssumption ==
    /\ IsFiniteSet(Workers) /\ Workers # {}
    /\ NoWorker \notin Workers
    /\ Capacity \in Nat
    /\ MaxRequests \in Nat

VARIABLES
    arrived,    \* requests so far
    acceptor,   \* accepts, counts a request it has refused, or has dropped the sending end
    queue,      \* the channel
    receiver,   \* the worker that holds the mutex, and waits for a request
    worker,     \* what each worker is doing
    serving,    \* the request each worker has, or 0
    answered,   \* the answer of each request that has one
    counted     \* the requests in the metrics

httpVars == <<arrived, acceptor, queue, receiver, worker, serving, answered, counted>>

Reply(n, a) == answered' = [i \in DOMAIN answered \union {n} |-> IF i = n THEN a ELSE answered[i]]

\* try_send succeeds: a place in the channel or, without places, a worker that waits.
HasRoom == Len(queue) < Capacity \/ (Capacity = 0 /\ queue = <<>> /\ receiver # NoWorker)

\* Mutant: a request that is refused is served as well.
AcceptTwice ==
    /\ acceptor = "accept" /\ arrived < MaxRequests
    /\ arrived' = arrived + 1
    /\ IF HasRoom THEN UNCHANGED <<acceptor, answered>>
       ELSE Reply(arrived + 1, "overloaded") /\ acceptor' = "count"
    /\ queue' = Append(queue, arrived + 1)
    /\ UNCHANGED <<receiver, worker, serving, counted>>

Accept ==
    /\ acceptor = "accept" /\ arrived < MaxRequests
    /\ arrived' = arrived + 1
    /\ IF HasRoom
       THEN queue' = Append(queue, arrived + 1) /\ UNCHANGED <<acceptor, answered>>
       ELSE Reply(arrived + 1, "overloaded") /\ acceptor' = "count" /\ UNCHANGED queue
    /\ UNCHANGED <<receiver, worker, serving, counted>>

\* A request that is refused is counted when its answer has been sent.
CountRefused ==
    /\ acceptor = "count"
    /\ acceptor' = "accept"
    /\ counted' = counted + 1
    /\ UNCHANGED <<arrived, queue, receiver, worker, serving, answered>>

\* The loop over incoming requests ends, and the sending end is dropped.
CloseQueue ==
    /\ acceptor = "accept"
    /\ acceptor' = "gone"
    /\ UNCHANGED <<arrived, queue, receiver, worker, serving, answered, counted>>

LockReceiver(w) ==
    /\ worker[w] = "idle" /\ receiver = NoWorker
    /\ receiver' = w
    /\ UNCHANGED <<arrived, acceptor, queue, worker, serving, answered, counted>>

\* recv; the guard is dropped with the block, before the request is handled.
Take(w) ==
    /\ receiver = w /\ queue # <<>>
    /\ queue' = Tail(queue)
    /\ serving' = [serving EXCEPT ![w] = Head(queue)]
    /\ worker' = [worker EXCEPT ![w] = "handle"]
    /\ receiver' = NoWorker
    /\ UNCHANGED <<arrived, acceptor, answered, counted>>

\* Mutant: a worker leaves as soon as the channel is closed.
LeaveAtOnce(w) ==
    /\ receiver = w /\ acceptor = "gone"
    /\ worker' = [worker EXCEPT ![w] = "gone"]
    /\ receiver' = NoWorker
    /\ UNCHANGED <<arrived, acceptor, queue, serving, answered, counted>>

\* recv fails when the channel is closed and empty.
Leave(w) ==
    /\ receiver = w /\ acceptor = "gone" /\ queue = <<>>
    /\ worker' = [worker EXCEPT ![w] = "gone"]
    /\ receiver' = NoWorker
    /\ UNCHANGED <<arrived, acceptor, queue, serving, answered, counted>>

\* Mutant: the acceptor's own answers are all that is counted.
HandledUncounted(w) ==
    /\ worker[w] = "handle"
    /\ worker' = [worker EXCEPT ![w] = "respond"]
    /\ UNCHANGED <<arrived, acceptor, queue, receiver, serving, answered, counted>>

\* response_for_request has its response, and counts it before it is sent.
Handled(w) ==
    /\ worker[w] = "handle"
    /\ worker' = [worker EXCEPT ![w] = "respond"]
    /\ counted' = counted + 1
    /\ UNCHANGED <<arrived, acceptor, queue, receiver, serving, answered>>

\* Whether the client is still there to read it does not matter.
Respond(w) ==
    /\ worker[w] = "respond"
    /\ worker' = [worker EXCEPT ![w] = "idle"]
    /\ Reply(serving[w], "served")
    /\ serving' = [serving EXCEPT ![w] = 0]
    /\ UNCHANGED <<arrived, acceptor, queue, receiver, counted>>

Joined == acceptor = "gone" /\ \A w \in Workers : worker[w] = "gone"

HttpInit ==
    /\ arrived = 0 /\ acceptor = "accept" /\ queue = <<>> /\ receiver = NoWorker
    /\ worker = [w \in Workers |-> "idle"]
    /\ serving = [w \in Workers |-> 0]
    /\ answered = [n \in {} |-> "none"]
    /\ counted = 0

HttpWork(w) == LockReceiver(w) \/ Take(w) \/ Handled(w) \/ Respond(w) \/ Leave(w)

HttpNext == Accept \/ CountRefused \/ CloseQueue \/ \E w \in Workers : HttpWork(w)

\* A worker goes on, and what handles a request comes to an end; nobody has to send
\* requests or to end the server.
HttpFairness == \A w \in Workers : WF_httpVars(HttpWork(w))

HttpSpec == HttpInit /\ [][HttpNext]_httpVars /\ HttpFairness

-----------------------------------------------------------------------------

HttpTypeOK ==
    /\ arrived \in 0 .. MaxRequests
    /\ acceptor \in {"accept", "count", "gone"}
    /\ queue \in Seq(1 .. arrived)
    /\ receiver \in Workers \union {NoWorker}
    /\ worker \in [Workers -> {"idle", "handle", "respond", "gone"}]
    /\ serving \in [Workers -> 0 .. arrived]
    /\ answered \in [DOMAIN answered -> {"served", "overloaded"}]
    /\ DOMAIN answered \subseteq 1 .. arrived
    /\ counted \in Nat

Queued(n) == \E i \in DOMAIN queue : queue[i] = n

InHand(n) == \E w \in Workers : serving[w] = n

\* A request that has arrived waits in the channel, is with one worker or has its answer,
\* and only one of the three: none is lost between the threads, none is served twice, and
\* one that is refused as one too many is not served.
EachRequestOnce ==
    /\ \A n \in 1 .. arrived :
         /\ Queued(n) \/ InHand(n) \/ n \in DOMAIN answered
         /\ ~(Queued(n) /\ InHand(n))
         /\ n \in DOMAIN answered => ~Queued(n) /\ ~InHand(n)
    /\ \A i, j \in DOMAIN queue : i < j => queue[i] < queue[j]
    /\ \A v, w \in Workers : v # w /\ serving[v] # 0 => serving[v] # serving[w]

\* The metrics of a server count every answer, but a refusal that has only just been sent, and
\* those that are about to be sent.
MetricsAddUp ==
    counted = Cardinality({n \in DOMAIN answered : acceptor # "count" \/ n # arrived})
                + Cardinality({w \in Workers : worker[w] = "respond"})

\* When the workers have been joined, every request that came has been answered.
DrainedWhenJoined == Joined => DOMAIN answered = 1 .. arrived

=============================================================================
