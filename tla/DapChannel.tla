----------------------------- MODULE DapChannel -----------------------------
(***************************************************************************)
(* One connection to a debug adapter: TcpDapProxy, or StdioAdapterDapProxy *)
(* for an adapter that is a child process.  Threads of the HTTP server     *)
(* send requests, one or a batch at a time, and poll events; a reader      *)
(* thread hands each response to the request it answers, queues events and *)
(* refuses the adapter's own requests.                                     *)
(*                                                                         *)
(* Every lock of the code is held for one statement, so one locked         *)
(* statement is one step, and so are a write and a read of a message.      *)
(* Requests are told apart by the caller that sent them, events by their   *)
(* number.  The receiving end of a request's mpsc channel is `answers'; its *)
(* sending end is in `waiters' or in the reader's hand (`delivering').     *)
(*                                                                         *)
(* A definition whose comment starts with "Mutant" is not the code: it is  *)
(* a slip one could make there, kept to show that a property notices it.   *)
(***************************************************************************)
EXTENDS Naturals, Sequences, FiniteSets

CONSTANTS
    Callers,       \* threads that use the connection
    NoCaller,
    MaxBatch,      \* most requests of a batch
    QueueLen,      \* MAX_EVENT_QUEUE_LEN
    KillsAdapter,  \* the adapter is a child process, which the reader kills
    MaxSeq,        \* bound on the sequence numbers
    MaxEvents      \* bound on the events of the adapter

ASSUME ChannelAssumption ==
    /\ NoCaller \notin Callers
    /\ IsFiniteSet(Callers)
    /\ MaxBatch \in Nat \ {0}
    /\ QueueLen \in Nat \ {0}
    /\ KillsAdapter \in BOOLEAN
    /\ MaxSeq \in Nat
    /\ MaxEvents \in Nat

VARIABLES
    nextSeq,
    waiters,     \* sequence numbers with a waiter
    closed,
    queue,       \* queued events
    call,        \* the operation of each caller
    answers,     \* responses in the channels of pending requests
    delivering,  \* the response for which the reader has taken out the waiter
    adapterUp,   \* the adapter reads what is written
    unanswered,  \* requests the adapter has and has not answered
    arrived,     \* history: the number of events read
    handed,      \* history: the events polls have answered, in order
    orphans      \* history: sequence numbers registered after the close

inner == <<waiters, closed>>
events == <<queue, arrived, handed>>
vars == <<nextSeq, inner, events, call, answers, delivering, adapterUp, unanswered, orphans>>

-----------------------------------------------------------------------------
(* Calls *)

Seqs == Nat \ {0}

Messages == [seq : Seqs, of : Callers]

NoMessage == [seq |-> 0, of |-> NoCaller]

Idle == [step |-> "idle", batch |-> FALSE, todo |-> 0, pending |-> {}, current |-> 0, max |-> 0]

At(c, step) == call[c].step = step

Become(c, r) == call' = [call EXCEPT ![c] = r]

\* A call that returns drops the receivers of all its requests, with what is in them.
Finish(c) ==
    /\ Become(c, Idle)
    /\ answers' = {m \in answers : m.seq \notin call[c].pending}

Begin(c, r) == At(c, "idle") /\ Become(c, r)

\* The bound on sequence numbers: with n of them taken, there is still one for every
\* request that has begun.
Room(n) == nextSeq + n + MaxBatch * Cardinality(Callers) <= MaxSeq + 1

-----------------------------------------------------------------------------
(* Requests *)

SendRequest(c) ==
    /\ Room(0)
    /\ Begin(c, [Idle EXCEPT !.step = "start", !.todo = 1])
    /\ UNCHANGED <<nextSeq, inner, events, answers, delivering, adapterUp, unanswered, orphans>>

SendBatch(c) ==
    /\ Room(0)
    /\ \E n \in 1 .. MaxBatch :
         Begin(c, [Idle EXCEPT !.step = "start", !.batch = TRUE, !.todo = n])
    /\ UNCHANGED <<nextSeq, inner, events, answers, delivering, adapterUp, unanswered, orphans>>

\* Mutant: the sequence number is read and not advanced.
RegisterSameSeq(c) ==
    /\ At(c, "start")
    /\ waiters' = waiters \union {nextSeq}
    /\ orphans' = IF closed THEN orphans \union {nextSeq} ELSE orphans
    /\ Become(c, [call[c] EXCEPT !.step = "write", !.todo = @ - 1,
                                 !.pending = @ \union {nextSeq}, !.current = nextSeq])
    /\ UNCHANGED <<nextSeq, closed, events, answers, delivering, adapterUp, unanswered>>

\* start_request, up to the insertion of the waiter; nothing looks at closed.
Register(c) ==
    /\ At(c, "start")
    /\ nextSeq' = nextSeq + 1
    /\ waiters' = waiters \union {nextSeq}
    /\ orphans' = IF closed THEN orphans \union {nextSeq} ELSE orphans
    /\ Become(c, [call[c] EXCEPT !.step = "write", !.todo = @ - 1,
                                 !.pending = @ \union {nextSeq}, !.current = nextSeq])
    /\ UNCHANGED <<closed, events, answers, delivering, adapterUp, unanswered>>

\* The next request of a batch, or the wait for the responses in order.
AfterWrite(r) ==
    IF r.todo > 0 THEN [r EXCEPT !.step = "start"]
    ELSE IF r.batch THEN [r EXCEPT !.step = "check"]
    ELSE [r EXCEPT !.step = "wait"]

\* What is written to an adapter that is gone is lost, or the write fails.
Write(c) ==
    /\ At(c, "write")
    /\ \/ /\ Become(c, AfterWrite(call[c]))
          /\ unanswered' = IF adapterUp
                             THEN unanswered \union {[seq |-> call[c].current, of |-> c]}
                             ELSE unanswered
       \/ ~adapterUp /\ Become(c, [call[c] EXCEPT !.step = "unregister"]) /\ UNCHANGED unanswered
    /\ UNCHANGED <<nextSeq, inner, events, answers, delivering, adapterUp, orphans>>

\* Mutant: the request is written first, and its waiter inserted then.
WriteFirst(c) ==
    \/ /\ At(c, "start")
       /\ nextSeq' = nextSeq + 1
       /\ Become(c, [call[c] EXCEPT !.step = "write", !.todo = @ - 1,
                                    !.pending = @ \union {nextSeq}, !.current = nextSeq])
       /\ unanswered' = IF adapterUp
                          THEN unanswered \union {[seq |-> nextSeq, of |-> c]}
                          ELSE unanswered
       /\ UNCHANGED <<inner, events, answers, delivering, adapterUp, orphans>>
    \/ /\ At(c, "write")
       /\ Become(c, AfterWrite(call[c]))
       /\ waiters' = waiters \union {call[c].current}
       /\ orphans' = IF closed THEN orphans \union {call[c].current} ELSE orphans
       /\ UNCHANGED <<nextSeq, closed, events, answers, delivering, adapterUp, unanswered>>

StartRequest(c) == Register(c) \/ Write(c)

\* A failed write takes its own waiter back, and the call returns the error.
Unregister(c) ==
    /\ At(c, "unregister")
    /\ waiters' = waiters \ {call[c].current}
    /\ Finish(c)
    /\ UNCHANGED <<nextSeq, closed, events, delivering, adapterUp, unanswered, orphans>>

\* A batch looks at its deadline before it waits for the next response in order.
CheckDeadline(c) ==
    /\ At(c, "check")
    /\ \E n \in call[c].pending :
         /\ \A k \in call[c].pending : n <= k
         /\ \E step \in {"wait", "remove"} :
              Become(c, [call[c] EXCEPT !.step = step, !.current = n])
    /\ UNCHANGED <<nextSeq, inner, events, answers, delivering, adapterUp, unanswered, orphans>>

Answered(n) == \E m \in answers : m.seq = n

\* The sending end of the channel of n is gone.
Disconnected(n) == n \notin waiters /\ delivering.seq # n /\ ~Answered(n)

\* recv_timeout of DapPendingRequest::wait, which answers first of all what is there.
Receive(c) ==
    /\ At(c, "wait")
    /\ Answered(call[c].current)
    /\ LET left == call[c].pending \ {call[c].current} IN
         IF left = {} THEN Finish(c)
         ELSE /\ Become(c, [call[c] EXCEPT !.step = "check", !.pending = left])
              /\ answers' = {m \in answers : m.seq # call[c].current}
    /\ UNCHANGED <<nextSeq, inner, events, delivering, adapterUp, unanswered, orphans>>

ReceiveDisconnected(c) ==
    /\ At(c, "wait")
    /\ Disconnected(call[c].current)
    /\ Finish(c)
    /\ UNCHANGED <<nextSeq, inner, events, delivering, adapterUp, unanswered, orphans>>

ReceiveTimeout(c) ==
    /\ At(c, "wait")
    /\ ~Answered(call[c].current) /\ ~Disconnected(call[c].current)
    /\ Become(c, [call[c] EXCEPT !.step = "remove"])
    /\ UNCHANGED <<nextSeq, inner, events, answers, delivering, adapterUp, unanswered, orphans>>

\* Mutant: a timeout returns and leaves its waiter.
RemoveNothing(c) ==
    /\ At(c, "remove")
    /\ Finish(c)
    /\ UNCHANGED <<nextSeq, inner, events, delivering, adapterUp, unanswered, orphans>>

\* remove_waiter after a timeout, and the cancel of a batch that is late.
RemoveWaiter(c) ==
    /\ At(c, "remove")
    /\ waiters' = waiters \ {call[c].current}
    /\ Finish(c)
    /\ UNCHANGED <<nextSeq, closed, events, delivering, adapterUp, unanswered, orphans>>

-----------------------------------------------------------------------------
(* Events *)

Least(a, b) == IF a <= b THEN a ELSE b

\* Mutant: the newest events first.
TakeNewest(max) ==
    LET n == Least(max, Len(queue)) IN
    /\ handed' = handed \o SubSeq(queue, Len(queue) - n + 1, Len(queue))
    /\ queue' = SubSeq(queue, 1, Len(queue) - n)

Take(max) ==
    LET n == Least(max, Len(queue)) IN
    /\ handed' = handed \o SubSeq(queue, 1, n)
    /\ queue' = SubSeq(queue, n + 1, Len(queue))

\* pop_events with events queued, with no timeout or on a closed connection.
PopEvents(c, max) ==
    /\ At(c, "idle")
    /\ Take(max)
    /\ UNCHANGED <<nextSeq, inner, call, answers, delivering, adapterUp, unanswered, arrived, orphans>>

PopEventsWait(c, max) ==
    /\ queue = <<>> /\ ~closed
    /\ Begin(c, [Idle EXCEPT !.step = "poll", !.max = max])
    /\ UNCHANGED <<nextSeq, inner, events, answers, delivering, adapterUp, unanswered, orphans>>

\* One wake-up ends the wait, a notification's or the timeout's; another poll may
\* have the events by then.
PopEventsWake(c) ==
    /\ At(c, "poll")
    /\ Take(call[c].max)
    /\ Become(c, Idle)
    /\ UNCHANGED <<nextSeq, inner, answers, delivering, adapterUp, unanswered, arrived, orphans>>

-----------------------------------------------------------------------------
(* The reader thread *)

Reading == ~closed /\ delivering = NoMessage

\* The waiter is taken out under the lock, the response sent after it.
ReadResponse(m) ==
    /\ Reading
    /\ m \in unanswered
    /\ unanswered' = unanswered \ {m}
    /\ waiters' = waiters \ {m.seq}
    /\ delivering' = IF m.seq \in waiters THEN m ELSE NoMessage
    /\ UNCHANGED <<nextSeq, closed, events, call, answers, adapterUp, orphans>>

\* Sending to a receiver that was dropped has no effect.
Deliver ==
    /\ delivering # NoMessage
    /\ answers' = IF \E c \in Callers : delivering.seq \in call[c].pending
                    THEN answers \union {delivering}
                    ELSE answers
    /\ delivering' = NoMessage
    /\ UNCHANGED <<nextSeq, inner, events, call, adapterUp, unanswered, orphans>>

\* Mutant: an event that finds the queue full is not queued.
PushEventUnlessFull(q, e) == IF Len(q) < QueueLen THEN Append(q, e) ELSE q

\* push_event: the oldest event makes room.
PushEvent(q, e) == IF Len(q) < QueueLen THEN Append(q, e) ELSE Tail(Append(q, e))

ReadEvent ==
    /\ Reading
    /\ arrived < MaxEvents
    /\ arrived' = arrived + 1
    /\ queue' = PushEvent(queue, arrived + 1)
    /\ UNCHANGED <<nextSeq, inner, handed, call, answers, delivering, adapterUp, unanswered, orphans>>

\* A request of the adapter is refused, with a sequence number of its own.
ReadRequest ==
    /\ Reading
    /\ Room(1)
    /\ nextSeq' = nextSeq + 1
    /\ UNCHANGED <<inner, events, call, answers, delivering, adapterUp, unanswered, orphans>>

\* Mutant: the waiters are left to their timeouts.
CloseOnly ==
    /\ Reading
    /\ closed' = TRUE
    /\ adapterUp' = (adapterUp /\ ~KillsAdapter)
    /\ UNCHANGED <<nextSeq, waiters, events, call, answers, delivering, unanswered, orphans>>

\* End of file, or a message that cannot be read; the adapter may still be there.
Close ==
    /\ Reading
    /\ closed' = TRUE
    /\ waiters' = {}
    /\ adapterUp' = (adapterUp /\ ~KillsAdapter)
    /\ UNCHANGED <<nextSeq, events, call, answers, delivering, unanswered, orphans>>

-----------------------------------------------------------------------------
(* The adapter; what it has sent can be read after its end *)

AdapterGone ==
    /\ adapterUp
    /\ adapterUp' = FALSE
    /\ UNCHANGED <<nextSeq, inner, events, call, answers, delivering, unanswered, orphans>>

-----------------------------------------------------------------------------

Init ==
    /\ nextSeq = 1
    /\ waiters = {}
    /\ closed = FALSE
    /\ queue = <<>> /\ arrived = 0 /\ handed = <<>>
    /\ call = [c \in Callers |-> Idle]
    /\ answers = {}
    /\ delivering = NoMessage
    /\ adapterUp = TRUE
    /\ unanswered = {}
    /\ orphans = {}

Await(c) == Receive(c) \/ ReceiveDisconnected(c) \/ ReceiveTimeout(c) \/ RemoveWaiter(c)

\* More than the queue holds is as much as it holds.
Poll(c) == (\E max \in 1 .. QueueLen : PopEvents(c, max) \/ PopEventsWait(c, max)) \/ PopEventsWake(c)

Caller(c) ==
    \/ SendRequest(c) \/ SendBatch(c)
    \/ StartRequest(c) \/ Unregister(c)
    \/ CheckDeadline(c) \/ Await(c)
    \/ Poll(c)

ReaderLoop ==
    \/ \E m \in unanswered : ReadResponse(m)
    \/ Deliver \/ ReadEvent \/ ReadRequest \/ Close

Next == (\E c \in Callers : Caller(c)) \/ ReaderLoop \/ AdapterGone

Spec == Init /\ [][Next]_vars

-----------------------------------------------------------------------------
(* Properties *)

Steps == {"idle", "start", "write", "unregister", "check", "wait", "remove", "poll"}

Calls == [step : Steps, batch : BOOLEAN, todo : Nat, pending : SUBSET Seqs,
          current : Nat, max : Nat]

\* Every variable keeps its type.
TypeOK ==
    /\ nextSeq \in Seqs
    /\ waiters \subseteq Seqs
    /\ closed \in BOOLEAN
    /\ queue \in Seq(Nat) /\ arrived \in Nat /\ handed \in Seq(Nat)
    /\ call \in [Callers -> Calls]
    /\ answers \subseteq Messages
    /\ delivering \in Messages \union {NoMessage}
    /\ adapterUp \in BOOLEAN
    /\ unanswered \subseteq Messages
    /\ orphans \subseteq Seqs

\* Callers that share a connection get the responses to their own requests, in
\* whatever order they come, late ones and the adapter's own requests among them.
OwnAnswer ==
    \A c \in Callers, m \in answers : m.seq \in call[c].pending => m.of = c

Written(c) ==
    IF call[c].step \in {"write", "unregister"} THEN call[c].pending \ {call[c].current}
    ELSE call[c].pending

\* A response is never thrown away while its caller is still in the call: unless the
\* connection ends, a written request is with the adapter, or its response has
\* reached the caller.
AnswerNotLost ==
    \A c \in Callers : \A n \in Written(c) :
        \/ closed \/ ~adapterUp
        \/ \E m \in unanswered \union {delivering} \union answers : m.seq = n

\* The end of the connection answers every request that was waiting, at once; only
\* one that begins after it waits for its timeout.
ClosedAnswersAll ==
    closed => \A c \in Callers :
        At(c, "wait") /\ call[c].current \notin orphans =>
            Answered(call[c].current) \/ Disconnected(call[c].current)

\* A call takes its waiters with it, however it ends.  The exception is a batch that
\* gives up: the waiters of its other requests stay until a response or the close.
OnlyFailedBatchLeaves ==
    [][\A c \in Callers : ~At(c, "idle") /\ At(c, "idle")' =>
         \A n \in waiters' \intersect call[c].pending :
            call[c].batch /\ n # call[c].current]_vars

\* Polls together see the events in the order they came, none of them twice.
EventsInOrder ==
    LET seen == handed \o queue IN
    \A i, j \in 1 .. Len(seen) : i < j => seen[i] < seen[j]

\* An event that no poll gets was the oldest of a full queue.
EventsKept ==
    [][\A e \in 1 .. arrived + 1 :
         LET Seen(q) == \E i \in 1 .. Len(q) : q[i] = e IN
         (e <= arrived => Seen(queue)) /\ e <= arrived' /\ ~Seen(queue') /\ ~Seen(handed')
            => Len(queue) = QueueLen /\ e = Head(queue)]_vars
=============================================================================
