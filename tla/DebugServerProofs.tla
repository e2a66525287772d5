--------------------------- MODULE DebugServerProofs ---------------------------
(***************************************************************************)
(* Proofs that the server answers every request once, that its metrics add  *)
(* up and that it is drained when its workers have left, for any number of  *)
(* workers and requests and any capacity of the queue; and that the server  *)
(* at work on debug sessions takes no step that HttpServer does not take,   *)
(* so that all this stays true whatever the adapters do, and that its calls *)
(* reach the adapter of their session, once, and leave no child of a failed *)
(* adoption.                                                                *)
(***************************************************************************)
EXTENDS DebugServer, FiniteSetTheorems, TLAPS

-----------------------------------------------------------------------------
(* HttpServer: the inductive invariant *)

\* A worker has a request from the time it takes it until it has sent the answer.
Holds == \A w \in Workers : serving[w] # 0 <=> worker[w] \in {"handle", "respond"}

\* The worker that waits for a request has none.
Waits == receiver # NoWorker => worker[receiver] = "idle"

\* Workers leave when the channel is closed and empty.
LeaveLast == \A w \in Workers : worker[w] = "gone" => acceptor = "gone" /\ queue = <<>>

\* A refusal is counted after it has been sent.
RefusedLast == acceptor = "count" => arrived \in DOMAIN answered

HttpInv ==
    /\ HttpTypeOK
    /\ EachRequestOnce
    /\ Holds
    /\ Waits
    /\ LeaveLast
    /\ RefusedLast
    /\ MetricsAddUp

-----------------------------------------------------------------------------
(* HttpServer: lemmas *)

\* What Append does to a queue of numbers below n.
LEMMA AppendQueue ==
    ASSUME NEW m \in Nat, NEW q \in Seq(1 .. m)
    PROVE  /\ Append(q, m + 1) \in Seq(1 .. (m + 1))
           /\ \A n \in 1 .. (m + 1) :
                (\E i \in DOMAIN Append(q, m + 1) : Append(q, m + 1)[i] = n)
                  <=> n = m + 1 \/ \E i \in DOMAIN q : q[i] = n
           /\ (\A i, j \in DOMAIN q : i < j => q[i] < q[j])
                => \A i, j \in DOMAIN Append(q, m + 1) :
                     i < j => Append(q, m + 1)[i] < Append(q, m + 1)[j]
<1> DEFINE r == Append(q, m + 1)
<1>1. q \in Seq(1 .. (m + 1))
  OBVIOUS
<1>2. /\ r \in Seq(1 .. (m + 1)) /\ DOMAIN r = 1 .. (Len(q) + 1) /\ DOMAIN q = 1 .. Len(q)
      /\ Len(q) \in Nat
      /\ \A i \in DOMAIN q : r[i] = q[i] /\ q[i] \in 1 .. m
      /\ r[Len(q) + 1] = m + 1
  BY <1>1
<1> HIDE DEF r
<1> DEFINE last == Len(q) + 1
<1>3. /\ DOMAIN r = DOMAIN q \union {last} /\ last \notin DOMAIN q
      /\ \A i \in DOMAIN q : i < last /\ ~(last < i) /\ ~(last < last)
  BY <1>2
<1>4. \A i \in DOMAIN q : r[i] = q[i] /\ q[i] < m + 1
  BY <1>2
<1>5. r[last] = m + 1
  BY <1>2
<1> HIDE DEF last
<1>6. \A n \in 1 .. (m + 1) :
        (\E i \in DOMAIN r : r[i] = n) <=> n = m + 1 \/ \E i \in DOMAIN q : q[i] = n
  BY <1>3, <1>4, <1>5
<1>7. ASSUME \A i, j \in DOMAIN q : i < j => q[i] < q[j],
             NEW i \in DOMAIN r, NEW j \in DOMAIN r, i < j
      PROVE  r[i] < r[j]
  <2>1. i \in DOMAIN q
    BY <1>3, <1>7
  <2>2. CASE j = last
    BY <2>1, <2>2, <1>4, <1>5
  <2>3. CASE j \in DOMAIN q
    BY <2>1, <2>3, <1>4, <1>7
  <2> QED
    BY <2>2, <2>3, <1>3
<1> QED
  BY <1>2, <1>6, <1>7 DEF r

\* What Tail takes away from a queue whose numbers grow: its head, wherever it was.
LEMMA TailQueue ==
    ASSUME NEW m \in Nat, NEW q \in Seq(1 .. m), q # <<>>,
           \A i, j \in DOMAIN q : i < j => q[i] < q[j]
    PROVE  /\ Tail(q) \in Seq(1 .. m)
           /\ Head(q) \in 1 .. m
           /\ \E i \in DOMAIN q : q[i] = Head(q)
           /\ \A n \in 1 .. m :
                (\E i \in DOMAIN Tail(q) : Tail(q)[i] = n)
                  <=> n # Head(q) /\ \E i \in DOMAIN q : q[i] = n
           /\ \A i, j \in DOMAIN Tail(q) : i < j => Tail(q)[i] < Tail(q)[j]
<1> DEFINE r == Tail(q)
<1>1. /\ r \in Seq(1 .. m) /\ DOMAIN q = 1 .. Len(q) /\ DOMAIN r = 1 .. (Len(q) - 1)
      /\ Len(q) \in Nat /\ Len(q) > 0
      /\ \A i \in DOMAIN r : r[i] = q[i + 1]
      /\ \A i \in DOMAIN q : q[i] \in 1 .. m
      /\ Head(q) = q[1]
  OBVIOUS
<1> DEFINE n == Len(q)
<1>n. n \in Nat /\ n > 0 /\ DOMAIN q = 1 .. n /\ DOMAIN r = 1 .. (n - 1)
  BY <1>1
<1> HIDE DEF r, n
<1>2. ASSUME NEW i \in DOMAIN r
      PROVE  i + 1 \in DOMAIN q /\ r[i] = q[i + 1] /\ r[i] # Head(q)
  <2>1. i \in Nat /\ 1 \in DOMAIN q /\ i + 1 \in DOMAIN q /\ 1 < i + 1
    BY <1>n
  <2>2. q[1] < q[i + 1]
    BY <2>1
  <2>3. q[1] # q[i + 1]
    <3>1. q[1] \in 1 .. m
      BY <2>1, <1>1
    <3>2. \A a \in 1 .. m : ~(a < a)
      OBVIOUS
    <3> QED
      BY <2>2, <3>1, <3>2
  <2> QED
    BY <2>1, <2>3, <1>1
<1>3. ASSUME NEW i \in DOMAIN q, q[i] # Head(q)
      PROVE  i - 1 \in DOMAIN r /\ r[i - 1] = q[i]
  <2>1. i # 1 /\ i \in 1 .. n
    BY <1>1, <1>3, <1>n
  <2>2. i - 1 \in 1 .. (n - 1) /\ (i - 1) + 1 = i
    BY <2>1, <1>n
  <2>3. i - 1 \in DOMAIN r
    BY <2>2, <1>n
  <2> QED
    BY <2>2, <2>3, <1>1
<1>4. \A k \in 1 .. m :
        (\E i \in DOMAIN r : r[i] = k) <=> k # Head(q) /\ \E i \in DOMAIN q : q[i] = k
  BY <1>2, <1>3
<1>5. \A i, j \in DOMAIN r : i < j => r[i] < r[j]
  BY <1>1, <1>2
<1>6. Head(q) \in 1 .. m /\ \E i \in DOMAIN q : q[i] = Head(q)
  BY <1>1
<1> QED
  BY <1>1, <1>4, <1>5, <1>6 DEF r

\* The answers that have been counted, and those that have been counted and are about to be sent.
Sent == {n \in DOMAIN answered : acceptor # "count" \/ n # arrived}
Sending == {w \in Workers : worker[w] = "respond"}

LEMMA Counts ==
    ASSUME HttpTypeOK
    PROVE  /\ IsFiniteSet(Sent) /\ Cardinality(Sent) \in Nat
           /\ IsFiniteSet(Sending) /\ Cardinality(Sending) \in Nat
           /\ MetricsAddUp <=> counted = Cardinality(Sent) + Cardinality(Sending)
<1>1. arrived \in Nat
  BY ServerAssumption DEF HttpTypeOK
<1>2. IsFiniteSet(1 .. arrived)
  BY <1>1, FS_Interval
<1>3. IsFiniteSet(Sent)
  BY <1>2, FS_Subset DEF HttpTypeOK, Sent
<1>4. IsFiniteSet(Sending)
  BY ServerAssumption, FS_Subset DEF Sending
<1> QED
  BY <1>3, <1>4, FS_CardinalityType DEF MetricsAddUp, Sent, Sending

\* An answer to a request that had none.
LEMMA ReplyType ==
    ASSUME HttpTypeOK, NEW n, NEW a \in {"served", "overloaded"}, Reply(n, a)
    PROVE  /\ DOMAIN answered' = DOMAIN answered \union {n}
           /\ answered' \in [DOMAIN answered' -> {"served", "overloaded"}]
  BY DEF HttpTypeOK, Reply

-----------------------------------------------------------------------------
(* HttpServer: the steps *)

LEMMA AcceptKeeps ==
    ASSUME HttpInv, Accept
    PROVE  HttpInv'
<1> DEFINE n == arrived + 1
<1>1. /\ arrived \in Nat /\ n \in 1 .. MaxRequests /\ arrived' = n /\ acceptor = "accept"
      /\ 1 .. n = 1 .. arrived \union {n} /\ n \notin 1 .. arrived
  BY ServerAssumption DEF HttpInv, HttpTypeOK, Accept
<1>2. /\ ~Queued(n) /\ ~InHand(n) /\ n \notin DOMAIN answered
      /\ \A w \in Workers : serving[w] \in 0 .. n
  BY <1>1 DEF HttpInv, HttpTypeOK, Queued, InHand
<1>3. \/ queue' = Append(queue, n) /\ UNCHANGED <<acceptor, answered>>
      \/ Reply(n, "overloaded") /\ acceptor' = "count" /\ UNCHANGED queue
  BY DEF Accept
<1>4. UNCHANGED <<receiver, worker, serving, counted>>
  BY DEF Accept
<1>5. CASE queue' = Append(queue, n) /\ UNCHANGED <<acceptor, answered>>
  <2>1. /\ queue' \in Seq(1 .. n)
        /\ \A i \in 1 .. n : Queued(i)' <=> i = n \/ Queued(i)
        /\ \A i, j \in DOMAIN queue' : i < j => queue'[i] < queue'[j]
    <3>1. /\ queue \in Seq(1 .. arrived)
          /\ \A i, j \in DOMAIN queue : i < j => queue[i] < queue[j]
      BY DEF HttpInv, HttpTypeOK, EachRequestOnce
    <3>2. /\ Append(queue, n) \in Seq(1 .. n)
          /\ \A i \in 1 .. n :
               (\E k \in DOMAIN Append(queue, n) : Append(queue, n)[k] = i)
                 <=> i = n \/ \E k \in DOMAIN queue : queue[k] = i
          /\ \A i, j \in DOMAIN Append(queue, n) : i < j => Append(queue, n)[i] < Append(queue, n)[j]
      BY <1>1, <3>1, AppendQueue
    <3>3. queue' = Append(queue, n)
      BY <1>5
    <3> QED
      BY <3>2, <3>3, Zenon DEF Queued
  <2>2. HttpTypeOK'
    BY <1>1, <1>2, <1>4, <1>5, <2>1 DEF HttpInv, HttpTypeOK
  <2>3. EachRequestOnce'
    BY <1>1, <1>2, <1>4, <1>5, <2>1 DEF HttpInv, EachRequestOnce, InHand
  <2>4. Sent' = Sent /\ Sending' = Sending
    BY <1>1, <1>2, <1>4, <1>5 DEF Sent, Sending
  <2>5. (Holds /\ Waits /\ LeaveLast /\ RefusedLast)'
    BY <1>1, <1>4, <1>5 DEF HttpInv, Holds, Waits, LeaveLast, RefusedLast
  <2> QED
    BY <1>4, <2>2, <2>3, <2>4, <2>5 DEF HttpInv, MetricsAddUp, Sent, Sending
<1>6. CASE Reply(n, "overloaded") /\ acceptor' = "count" /\ UNCHANGED queue
  <2>1. /\ DOMAIN answered' = DOMAIN answered \union {n}
        /\ answered' \in [DOMAIN answered' -> {"served", "overloaded"}]
    BY <1>6, ReplyType DEF HttpInv
  <2>2. HttpTypeOK'
    BY <1>1, <1>2, <1>4, <1>6, <2>1 DEF HttpInv, HttpTypeOK
  <2>3. EachRequestOnce'
    BY <1>1, <1>2, <1>4, <1>6, <2>1 DEF HttpInv, EachRequestOnce, InHand, Queued
  <2>4. Sent' = Sent /\ Sending' = Sending
    BY <1>1, <1>2, <1>4, <1>6, <2>1 DEF Sent, Sending
  <2>5. (Holds /\ Waits /\ LeaveLast /\ RefusedLast)'
    BY <1>1, <1>4, <1>6, <2>1 DEF HttpInv, Holds, Waits, LeaveLast, RefusedLast
  <2> QED
    BY <1>4, <2>2, <2>3, <2>4, <2>5 DEF HttpInv, MetricsAddUp, Sent, Sending
<1> QED
  BY <1>3, <1>5, <1>6

LEMMA CountRefusedKeeps ==
    ASSUME HttpInv, CountRefused
    PROVE  HttpInv'
<1>1. /\ acceptor = "count" /\ acceptor' = "accept" /\ counted' = counted + 1
      /\ UNCHANGED <<arrived, queue, receiver, worker, serving, answered>>
  BY DEF CountRefused
<1>2. HttpTypeOK'
  BY <1>1 DEF HttpInv, HttpTypeOK
<1>3. Sent' = Sent \union {arrived} /\ arrived \notin Sent /\ Sending' = Sending
  BY <1>1 DEF HttpInv, RefusedLast, Sent, Sending
<1>4. Cardinality(Sent') = Cardinality(Sent) + 1
  BY <1>3, Counts, FS_AddElement DEF HttpInv
<1>5. MetricsAddUp'
  BY <1>1, <1>3, <1>4, Counts DEF HttpInv, MetricsAddUp, Sent, Sending
<1> QED
  BY <1>1, <1>2, <1>5
  DEF HttpInv, EachRequestOnce, Queued, InHand, Holds, Waits, LeaveLast, RefusedLast

LEMMA CloseQueueKeeps ==
    ASSUME HttpInv, CloseQueue
    PROVE  HttpInv'
<1>1. /\ acceptor = "accept" /\ acceptor' = "gone"
      /\ UNCHANGED <<arrived, queue, receiver, worker, serving, answered, counted>>
  BY DEF CloseQueue
<1>2. HttpTypeOK'
  BY <1>1 DEF HttpInv, HttpTypeOK
<1>3. Sent' = Sent /\ Sending' = Sending
  BY <1>1 DEF Sent, Sending
<1>4. MetricsAddUp'
  BY <1>1, <1>3 DEF HttpInv, MetricsAddUp, Sent, Sending
<1> QED
  BY <1>1, <1>2, <1>4
  DEF HttpInv, EachRequestOnce, Queued, InHand, Holds, Waits, LeaveLast, RefusedLast

LEMMA LockReceiverKeeps ==
    ASSUME HttpInv, NEW w \in Workers, LockReceiver(w)
    PROVE  HttpInv'
<1>1. /\ worker[w] = "idle" /\ receiver' = w
      /\ UNCHANGED <<arrived, acceptor, queue, worker, serving, answered, counted>>
  BY DEF LockReceiver
<1> QED
  BY <1>1
  DEF HttpInv, HttpTypeOK, EachRequestOnce, Queued, InHand, Holds, Waits, LeaveLast, RefusedLast, MetricsAddUp

LEMMA TakeKeeps ==
    ASSUME HttpInv, NEW w \in Workers, Take(w)
    PROVE  HttpInv'
<1> DEFINE n == Head(queue)
<1>1. /\ receiver = w /\ queue # <<>> /\ queue' = Tail(queue) /\ receiver' = NoWorker
      /\ serving' = [serving EXCEPT ![w] = n] /\ worker' = [worker EXCEPT ![w] = "handle"]
      /\ UNCHANGED <<arrived, acceptor, answered, counted>>
  BY DEF Take
<1>2. /\ worker[w] = "idle" /\ serving[w] = 0 /\ arrived \in Nat
      /\ worker \in [Workers -> {"idle", "handle", "respond", "gone"}]
      /\ serving \in [Workers -> 0 .. arrived]
  BY <1>1, ServerAssumption DEF HttpInv, HttpTypeOK, Waits, Holds
<1>3. /\ queue' \in Seq(1 .. arrived) /\ n \in 1 .. arrived /\ Queued(n)
      /\ \A i \in 1 .. arrived : Queued(i)' <=> i # n /\ Queued(i)
      /\ \A i, j \in DOMAIN queue' : i < j => queue'[i] < queue'[j]
  <2>1. /\ queue \in Seq(1 .. arrived)
        /\ \A i, j \in DOMAIN queue : i < j => queue[i] < queue[j]
    BY DEF HttpInv, HttpTypeOK, EachRequestOnce
  <2>2. /\ Tail(queue) \in Seq(1 .. arrived)
        /\ Head(queue) \in 1 .. arrived
        /\ \E k \in DOMAIN queue : queue[k] = Head(queue)
        /\ \A i \in 1 .. arrived :
             (\E k \in DOMAIN Tail(queue) : Tail(queue)[k] = i)
               <=> i # Head(queue) /\ \E k \in DOMAIN queue : queue[k] = i
        /\ \A i, j \in DOMAIN Tail(queue) : i < j => Tail(queue)[i] < Tail(queue)[j]
    BY <1>1, <1>2, <2>1, TailQueue
  <2>3. queue' = Tail(queue)
    BY <1>1
  <2> QED
    BY <2>2, <2>3, Zenon DEF Queued
<1>4. ~InHand(n) /\ \A i \in 1 .. arrived : InHand(i)' <=> i = n \/ InHand(i)
  BY <1>1, <1>2, <1>3 DEF HttpInv, EachRequestOnce, InHand
<1>5. HttpTypeOK'
  BY <1>1, <1>2, <1>3 DEF HttpInv, HttpTypeOK
<1>6. EachRequestOnce'
  <2>1. \A i \in 1 .. arrived :
          /\ Queued(i)' \/ InHand(i)' \/ i \in DOMAIN answered
          /\ ~(Queued(i)' /\ InHand(i)')
          /\ i \in DOMAIN answered => ~Queued(i)' /\ ~InHand(i)'
    BY <1>3, <1>4 DEF HttpInv, EachRequestOnce
  <2>2. \A u, v \in Workers : u # v /\ serving'[u] # 0 => serving'[u] # serving'[v]
    BY <1>1, <1>2, <1>3, <1>4 DEF HttpInv, EachRequestOnce, InHand
  <2> QED
    BY <1>1, <1>3, <2>1, <2>2 DEF EachRequestOnce
<1>7. (Holds /\ Waits)'
  BY <1>1, <1>2, <1>3, ServerAssumption DEF HttpInv, Holds, Waits
<1>8. (LeaveLast /\ RefusedLast)'
  BY <1>1, <1>2 DEF HttpInv, LeaveLast, RefusedLast
<1>9. Sent' = Sent /\ Sending' = Sending
  BY <1>1, <1>2 DEF Sent, Sending
<1>10. MetricsAddUp'
  BY <1>1, <1>9 DEF HttpInv, MetricsAddUp, Sent, Sending
<1> QED
  BY <1>5, <1>6, <1>7, <1>8, <1>10 DEF HttpInv

LEMMA LeaveKeeps ==
    ASSUME HttpInv, NEW w \in Workers, Leave(w)
    PROVE  HttpInv'
<1>1. /\ receiver = w /\ acceptor = "gone" /\ queue = <<>> /\ receiver' = NoWorker
      /\ worker' = [worker EXCEPT ![w] = "gone"]
      /\ UNCHANGED <<arrived, acceptor, queue, serving, answered, counted>>
  BY DEF Leave
<1>2. worker[w] = "idle" /\ worker \in [Workers -> {"idle", "handle", "respond", "gone"}]
  BY <1>1, ServerAssumption DEF HttpInv, HttpTypeOK, Waits
<1>3. HttpTypeOK'
  BY <1>1, <1>2 DEF HttpInv, HttpTypeOK
<1>4. (EachRequestOnce /\ RefusedLast)'
  BY <1>1 DEF HttpInv, EachRequestOnce, Queued, InHand, RefusedLast
<1>5. (Holds /\ Waits /\ LeaveLast)'
  BY <1>1, <1>2 DEF HttpInv, Holds, Waits, LeaveLast
<1>6. Sent' = Sent /\ Sending' = Sending
  BY <1>1, <1>2 DEF Sent, Sending
<1>7. MetricsAddUp'
  BY <1>1, <1>6 DEF HttpInv, MetricsAddUp, Sent, Sending
<1> QED
  BY <1>3, <1>4, <1>5, <1>7 DEF HttpInv

LEMMA HandledKeeps ==
    ASSUME HttpInv, NEW w \in Workers, Handled(w)
    PROVE  HttpInv'
<1>1. /\ worker[w] = "handle" /\ worker' = [worker EXCEPT ![w] = "respond"] /\ counted' = counted + 1
      /\ UNCHANGED <<arrived, acceptor, queue, receiver, serving, answered>>
  BY DEF Handled
<1>2. worker \in [Workers -> {"idle", "handle", "respond", "gone"}]
  BY DEF HttpInv, HttpTypeOK
<1>3. HttpTypeOK'
  BY <1>1, <1>2 DEF HttpInv, HttpTypeOK
<1>4. (EachRequestOnce /\ RefusedLast)'
  BY <1>1 DEF HttpInv, EachRequestOnce, Queued, InHand, RefusedLast
<1>5. (Holds /\ Waits /\ LeaveLast)'
  BY <1>1, <1>2 DEF HttpInv, Holds, Waits, LeaveLast
<1>6. Sent' = Sent /\ Sending' = Sending \union {w} /\ w \notin Sending
  BY <1>1, <1>2 DEF Sent, Sending
<1>7. Cardinality(Sending') = Cardinality(Sending) + 1
  BY <1>6, Counts, FS_AddElement DEF HttpInv
<1>8. MetricsAddUp'
  BY <1>1, <1>6, <1>7, Counts DEF HttpInv, MetricsAddUp, Sent, Sending
<1> QED
  BY <1>3, <1>4, <1>5, <1>8 DEF HttpInv

LEMMA RespondKeeps ==
    ASSUME HttpInv, NEW w \in Workers, Respond(w)
    PROVE  HttpInv'
<1> DEFINE n == serving[w]
<1>1. /\ worker[w] = "respond" /\ worker' = [worker EXCEPT ![w] = "idle"] /\ Reply(n, "served")
      /\ serving' = [serving EXCEPT ![w] = 0]
      /\ UNCHANGED <<arrived, acceptor, queue, receiver, counted>>
  BY DEF Respond
<1>2. /\ worker \in [Workers -> {"idle", "handle", "respond", "gone"}]
      /\ serving \in [Workers -> 0 .. arrived] /\ arrived \in Nat
      /\ n \in 1 .. arrived /\ InHand(n) /\ n \notin DOMAIN answered /\ ~Queued(n)
  <2>1. /\ serving \in [Workers -> 0 .. arrived] /\ arrived \in Nat
        /\ worker \in [Workers -> {"idle", "handle", "respond", "gone"}]
    BY ServerAssumption DEF HttpInv, HttpTypeOK
  <2>2. n # 0
    BY <1>1 DEF HttpInv, Holds
  <2>3. n \in 1 .. arrived /\ InHand(n)
    BY <2>1, <2>2 DEF InHand
  <2> QED
    BY <2>1, <2>3 DEF HttpInv, EachRequestOnce
<1>3. /\ DOMAIN answered' = DOMAIN answered \union {n}
      /\ answered' \in [DOMAIN answered' -> {"served", "overloaded"}]
  BY <1>1, ReplyType DEF HttpInv
<1>4. \A i \in 1 .. arrived : InHand(i)' <=> i # n /\ InHand(i)
  BY <1>1, <1>2 DEF HttpInv, EachRequestOnce, InHand
<1>5. HttpTypeOK'
  BY <1>1, <1>2, <1>3 DEF HttpInv, HttpTypeOK
<1>6. EachRequestOnce'
  <2>1. \A i \in 1 .. arrived :
          /\ Queued(i) \/ InHand(i)' \/ i \in DOMAIN answered'
          /\ ~(Queued(i) /\ InHand(i)')
          /\ i \in DOMAIN answered' => ~Queued(i) /\ ~InHand(i)'
    BY <1>2, <1>3, <1>4 DEF HttpInv, EachRequestOnce
  <2>2. \A u, v \in Workers : u # v /\ serving'[u] # 0 => serving'[u] # serving'[v]
    BY <1>1, <1>2 DEF HttpInv, EachRequestOnce
  <2> QED
    BY <1>1, <2>1, <2>2 DEF HttpInv, EachRequestOnce, Queued
<1>7. (Holds /\ Waits)'
  BY <1>1, <1>2, ServerAssumption DEF HttpInv, Holds, Waits
<1>8. (LeaveLast /\ RefusedLast)'
  BY <1>1, <1>2, <1>3 DEF HttpInv, LeaveLast, RefusedLast
<1>9. /\ Sent' = Sent \union {n} /\ n \notin Sent
      /\ Sending = Sending' \union {w} /\ w \notin Sending'
  BY <1>1, <1>2, <1>3 DEF HttpInv, RefusedLast, Sent, Sending
<1>10. Cardinality(Sent') = Cardinality(Sent) + 1
  BY <1>9, Counts, FS_AddElement DEF HttpInv
<1>11. IsFiniteSet(Sending')
  BY <1>9, Counts, FS_Subset DEF HttpInv
<1>12. Cardinality(Sending) = Cardinality(Sending') + 1 /\ Cardinality(Sending') \in Nat
  BY <1>9, <1>11, FS_AddElement, FS_CardinalityType
<1>13. MetricsAddUp'
  BY <1>1, <1>10, <1>12, Counts DEF HttpInv, MetricsAddUp, Sent, Sending
<1> QED
  BY <1>5, <1>6, <1>7, <1>8, <1>13 DEF HttpInv

-----------------------------------------------------------------------------
(* HttpServer: the theorems *)

LEMMA InitHolds ==
    ASSUME HttpInit
    PROVE  HttpInv
<1>1. HttpTypeOK /\ DOMAIN answered = {} /\ arrived = 0
  BY ServerAssumption DEF HttpInit, HttpTypeOK
<1>2. Sent = {} /\ Sending = {}
  BY <1>1 DEF HttpInit, Sent, Sending
<1>3. MetricsAddUp
  BY <1>2, FS_EmptySet DEF HttpInit, MetricsAddUp, Sent, Sending
<1> QED
  BY <1>1, <1>3
  DEF HttpInit, HttpInv, EachRequestOnce, Queued, InHand, Holds, Waits, LeaveLast, RefusedLast

LEMMA NextKeeps ==
    ASSUME HttpInv, [HttpNext]_httpVars
    PROVE  HttpInv'
<1>1. CASE Accept
  BY <1>1, AcceptKeeps
<1>2. CASE CountRefused
  BY <1>2, CountRefusedKeeps
<1>3. CASE CloseQueue
  BY <1>3, CloseQueueKeeps
<1>4. ASSUME NEW w \in Workers, HttpWork(w)
      PROVE  HttpInv'
  BY <1>4, LockReceiverKeeps, TakeKeeps, HandledKeeps, RespondKeeps, LeaveKeeps DEF HttpWork
<1>5. CASE UNCHANGED httpVars
  BY <1>5
  DEF httpVars, HttpInv, HttpTypeOK, EachRequestOnce, Queued, InHand, Holds, Waits, LeaveLast,
      RefusedLast, MetricsAddUp
<1> QED
  BY <1>1, <1>2, <1>3, <1>4, <1>5 DEF HttpNext

\* The steps of the server without its fairness: what a specification that refines it takes.
HttpSteps == HttpInit /\ [][HttpNext]_httpVars

THEOREM HttpInvariant == HttpSteps => []HttpInv
<1>1. HttpInit => HttpInv
  BY InitHolds
<1> QED
  BY <1>1, NextKeeps, PTL DEF HttpSteps

\* Every request that has arrived waits, is with one worker or has one answer, whatever the
\* acceptor and the workers do in between: handle_serve, and the loop of its workers.
THEOREM RequestsOnce == HttpSpec => []EachRequestOnce
<1>1. HttpInv => EachRequestOnce
  BY DEF HttpInv
<1> QED
  BY <1>1, HttpInvariant, PTL DEF HttpSpec, HttpSteps

\* The metrics count each answer once: record_http_metrics, which acceptor and workers call.
THEOREM MetricsAlwaysAddUp == HttpSpec => []MetricsAddUp
<1>1. HttpInv => MetricsAddUp
  BY DEF HttpInv
<1> QED
  BY <1>1, HttpInvariant, PTL DEF HttpSpec, HttpSteps

LEMMA DrainedByThen ==
    ASSUME HttpInv
    PROVE  DrainedWhenJoined
<1>1. SUFFICES ASSUME Joined, NEW n \in 1 .. arrived
               PROVE  n \in DOMAIN answered
  BY DEF DrainedWhenJoined, HttpInv, HttpTypeOK
<1>2. PICK w \in Workers : worker[w] = "gone"
  BY <1>1, ServerAssumption DEF Joined
<1>3. ~Queued(n)
  BY <1>2 DEF HttpInv, LeaveLast, Queued
<1>4. ~InHand(n)
  BY <1>1 DEF HttpInv, Holds, Joined, InHand
<1> QED
  BY <1>3, <1>4 DEF HttpInv, EachRequestOnce

\* When the workers have been joined, nobody is left without an answer: the end of handle_serve.
THEOREM DrainedAlways == HttpSpec => []DrainedWhenJoined
  BY HttpInvariant, DrainedByThen, PTL DEF HttpSpec, HttpSteps

-----------------------------------------------------------------------------
(* DebugServer: the inductive invariant *)

Real == [port : Ports, life : Nat \ {0}, epoch : Nat]

Adapter == [session : Ids \union {Orphan}, ready : BOOLEAN, epoch : Nat]

\* What is known of the sessions and the adapters; no adapter listens on two ports.
World ==
    /\ endpoint \in [Ids -> Ports \union {NoPort}]
    /\ \A s \in Sessions : endpoint[s] # NoPort
    /\ lives \in Seq(Adapter)
    /\ adapter \in [Ports -> {0} \union Lives]
    /\ \A p, q \in Ports : adapter[p] = adapter[q] /\ adapter[p] # 0 => p = q
    /\ registry \in [Ids -> Real \union {NoConn}]
    /\ bootstrapped \subseteq Ids
    /\ \A e \in attach : e.port \in Ports

Errors == {"broken", "timeout", "not found"}

\* A call under way; none has been carried out before it ends.
Fields ==
    [op : Operations, session : Ids,
     step : {"lookup", "connect", "insert", "send", "drop", "pop", "register", "unregister", "flag"},
     level : 1 .. 3, try : {1, 2}, boot : {"no", "eager", "late", "child"},
     port : Ports \union {NoPort}, conn : Real \union {NoConn},
     error : {"no"} \union Errors, fault : BOOLEAN, ran : {0}]

\* Only a request bootstraps an adapter, and only an adoption has a child to take back.
Shape(r) ==
    /\ r.boot \in {"eager", "late"} => r.op = "request"
    /\ r.boot = "child" => r.session \in Children /\ r.op = "adopt"
    /\ r.step = "pop" => r.op \in {"events", "adopt"} /\ r.boot = "no"
    /\ r.step = "register" => r.op = "adopt" /\ r.boot = "no"
    /\ r.step = "unregister" => r.boot = "child"
    /\ r.step \in {"connect", "register"} => r.port \in Ports
    /\ r.step \in {"drop", "unregister"} => r.error # "no"

Active == {r \in Fields : Shape(r)}

Finished ==
    [step : {"done"}, result : {"ok", "no event", "no id", "unavailable", "refused"} \union Errors,
     fault : BOOLEAN, ran : {0, 1}, child : SUBSET Children]

\* The adapter of a session listens where its record says: Alive, of any records and adapters.
Reaches(s, e, a, l) == e[s] # NoPort /\ a[e[s]] # 0 /\ l[a[e[s]]].session = s

\* The adapter of a call without a fault is there, and the call is on its way to it.
Steady(r, e, a, l) ==
    r \in Active /\ ~r.fault =>
      /\ Reaches(r.session, e, a, l)
      /\ r.step = "connect" => r.port = e[r.session]
      /\ r.step \in {"insert", "send"} => r.conn.port = e[r.session]

Calls ==
    /\ call \in [Workers -> {Idle} \union Active \union Finished]
    /\ \A w \in Workers : Steady(call[w], endpoint, adapter, lives)

Busy == \A w \in Workers : call[w] # Idle => worker[w] = "handle"

DapInv == World /\ Calls /\ Busy

-----------------------------------------------------------------------------
(* What becomes of a call *)

\* A call has ended, with a child only if it succeeded, or it goes on with the same session from a
\* place where it has neither a port nor a connection; a fault it had it still has.
Follows(q, r) ==
    \/ q \in Finished /\ (q.result = "ok" \/ q.child = {}) /\ (r.fault => q.fault)
    \/ /\ q \in Active /\ q.session = r.session /\ (r.fault => q.fault)
       /\ q.step \notin {"connect", "insert", "send"}

LEMMA ByStep ==
    ASSUME NEW r \in {Idle} \union Active \union Finished
    PROVE  /\ r \in Active <=> r.step \notin {"idle", "done"}
           /\ r \in Finished <=> r.step = "done"
           /\ r = Idle <=> r.step = "idle"
<1>1. Idle.step = "idle"
  BY DEF Idle
<1>2. \A q \in Active : q.step \notin {"idle", "done"}
  BY DEF Active, Fields
<1>3. \A q \in Finished : q.step = "done"
  BY DEF Finished
<1> QED
  BY <1>1, <1>2, <1>3

\* Plain and Looked keep everything but the place.
LEMMA PlainKeeps ==
    ASSUME NEW r \in Active, NEW step \in {"lookup", "flag"}
    PROVE  /\ Plain(r, step) \in Active
           /\ Plain(r, step).step = step
           /\ Plain(r, step).op = r.op
           /\ Plain(r, step).session = r.session
           /\ Plain(r, step).boot = r.boot
           /\ Plain(r, step).fault = r.fault
           /\ Plain(r, step).level = r.level /\ Plain(r, step).try = r.try
<1> DEFINE q == Plain(r, step)
<1>0. Plain(r, step) = q
  OBVIOUS
<1>1. r \in Fields /\ Shape(r)
  BY DEF Active
<1>2. q \in Fields
  BY <1>1 DEF Plain, Fields
<1>3. q.step = step /\ q.op = r.op /\ q.session = r.session /\ q.boot = r.boot /\ q.fault = r.fault
      /\ q.level = r.level /\ q.try = r.try
  BY <1>1 DEF Plain, Fields
<1> HIDE DEF q
<1>4. Shape(q)
  BY <1>1, <1>3 DEF Shape
<1> QED
  BY <1>0, <1>2, <1>3, <1>4 DEF Active

LEMMA LookedKeeps ==
    ASSUME NEW r \in Active
    PROVE  /\ Looked(r) \in Active
           /\ Looked(r).step = "lookup"
           /\ Looked(r).op = r.op
           /\ Looked(r).session = r.session
           /\ Looked(r).boot = r.boot
           /\ Looked(r).fault = r.fault
           /\ Looked(r).level = r.level /\ Looked(r).try = 1
<1> DEFINE x == Plain(r, "lookup")
<1>1. x \in Active /\ x.step = "lookup" /\ x.op = r.op /\ x.session = r.session
      /\ x.boot = r.boot /\ x.fault = r.fault /\ x.level = r.level
  BY PlainKeeps
<1>2. Looked(r) = [x EXCEPT !.try = 1]
  BY DEF Looked
<1> HIDE DEF x
<1> QED
  BY <1>1, <1>2 DEF Active, Fields, Shape

LEMMA LateKeeps ==
    ASSUME NEW r \in Active, r.op = "request"
    PROVE  /\ LateBootstrap(r) \in Active
           /\ LateBootstrap(r).step = "lookup" /\ LateBootstrap(r).try = 1
           /\ LateBootstrap(r).boot = "late"
           /\ LateBootstrap(r).session = r.session /\ LateBootstrap(r).fault = r.fault
<1> DEFINE x == Looked(r)
<1>1. x \in Active /\ x.step = "lookup" /\ x.op = r.op /\ x.session = r.session
      /\ x.boot = r.boot /\ x.fault = r.fault /\ x.try = 1
  BY LookedKeeps
<1> DEFINE level == 3
           q == [x EXCEPT !.boot = "late", !.level = level]
<1>2. LateBootstrap(r) = q
  BY DEF LateBootstrap
<1>3. level \in 1 .. 3
  OBVIOUS
<1> HIDE DEF x, level
<1>4. x \in Fields
  BY <1>1 DEF Active
<1>5. q \in Fields
  BY <1>3, <1>4 DEF Fields
<1>6. q.step = "lookup" /\ q.try = 1 /\ q.boot = "late" /\ q.op = r.op
      /\ q.session = r.session /\ q.fault = r.fault
  BY <1>1, <1>4 DEF Fields
<1> HIDE DEF q
<1>7. Shape(q)
  BY <1>6 DEF Shape
<1> QED
  BY <1>2, <1>5, <1>6, <1>7 DEF Active

LEMMA LateFollows ==
    ASSUME NEW r \in Active, r.op = "request"
    PROVE  Follows(LateBootstrap(r), r)
  BY LateKeeps DEF Follows

LEMMA NextLevelKeeps ==
    ASSUME NEW r \in Active, NEW level \in 1 .. 3
    PROVE  /\ NextLevel(r, level) \in Active
           /\ NextLevel(r, level).step = "lookup" /\ NextLevel(r, level).try = 1
           /\ NextLevel(r, level).boot = "no" /\ NextLevel(r, level).level = level
           /\ NextLevel(r, level).session = r.session /\ NextLevel(r, level).fault = r.fault
<1> DEFINE x == Looked(r)
<1>1. x \in Active /\ x.step = "lookup" /\ x.op = r.op /\ x.session = r.session
      /\ x.boot = r.boot /\ x.fault = r.fault /\ x.try = 1
  BY LookedKeeps
<1> DEFINE q == [x EXCEPT !.level = level, !.boot = "no"]
<1>2. NextLevel(r, level) = q
  BY DEF NextLevel
<1> HIDE DEF x
<1>3. x \in Fields
  BY <1>1 DEF Active
<1>4. q \in Fields
  BY <1>3 DEF Fields
<1>5. q.step = "lookup" /\ q.try = 1 /\ q.boot = "no" /\ q.level = level
      /\ q.session = r.session /\ q.fault = r.fault
  BY <1>1, <1>3 DEF Fields
<1> HIDE DEF q
<1>6. Shape(q)
  BY <1>5 DEF Shape
<1> QED
  BY <1>2, <1>4, <1>5, <1>6 DEF Active

LEMMA NextLevelFollows ==
    ASSUME NEW r \in Active, NEW level \in 1 .. 3
    PROVE  Follows(NextLevel(r, level), r)
  BY NextLevelKeeps DEF Follows

LEMMA EndedFollows ==
    ASSUME NEW r \in Active, NEW result \in {"ok", "no event", "no id", "unavailable", "refused"} \union Errors,
           result = "ok" \/ r.boot # "child"
    PROVE  Follows(Ended(r, result), r)
  BY DEF Follows, Ended, Active, Fields, Shape, Finished

LEMMA AfterErrorFollows ==
    ASSUME NEW r \in Active, NEW kind \in Errors
    PROVE  Follows(AfterError(r, kind), r)
<1>1. CASE r.boot = "child"
  <2> DEFINE x == Looked(r)
  <2>1. x \in Active /\ x.step = "lookup" /\ x.op = r.op /\ x.session = r.session
        /\ x.boot = r.boot /\ x.fault = r.fault
    BY LookedKeeps
  <2>2. r.op = "adopt"
    BY <1>1 DEF Active, Shape
  <2> DEFINE q == [x EXCEPT !.step = "unregister", !.error = kind]
  <2>3. AfterError(r, kind) = q
    BY <1>1, <2>2 DEF AfterError
  <2> HIDE DEF x
  <2>4. x \in Fields /\ Shape(x)
    BY <2>1 DEF Active
  <2>5. q \in Fields
    BY <2>4 DEF Fields
  <2>6. q.step = "unregister" /\ q.error = kind /\ q.boot = "child" /\ q.op = x.op
        /\ q.session = r.session /\ q.fault = r.fault
    BY <1>1, <2>1, <2>4 DEF Fields
  <2> HIDE DEF q
  <2>7. Shape(q)
    BY <1>1, <2>1, <2>4, <2>6 DEF Shape, Errors
  <2> QED
    BY <2>3, <2>5, <2>6, <2>7 DEF Follows, Active
<1>2. CASE r.boot # "child"
  <2>1. \/ AfterError(r, kind) = NextLevel(r, 2)
        \/ AfterError(r, kind) = LateBootstrap(r) /\ r.op = "request"
        \/ AfterError(r, kind) = Ended(r, kind)
    BY <1>2 DEF AfterError
  <2>2. Follows(Ended(r, kind), r)
    BY <1>2, EndedFollows
  <2>3. Follows(NextLevel(r, 2), r)
    BY NextLevelFollows
  <2> QED
    BY <2>1, <2>2, <2>3, LateFollows
<1> QED
  BY <1>1, <1>2

LEMMA AfterAnswerFollows ==
    ASSUME NEW r \in Active
    PROVE  Follows(AfterAnswer(Counted(r), Answer(r)), r)
<1>1. CASE ~Bootstraps(r) /\ Ready(r) /\ r.op = "request"
  <2>1. Answer(r) = "ok" /\ r.boot = "no" /\ Counted(r) = [r EXCEPT !.ran = 1]
    BY <1>1 DEF Answer, Counted, Bootstraps, Active, Fields
  <2>2. Ended([r EXCEPT !.ran = 1], "ok") =
          [step |-> "done", result |-> "ok", fault |-> r.fault, ran |-> 1, child |-> {}]
    BY <2>1 DEF Ended, Active, Fields
  <2>3. AfterAnswer(Counted(r), Answer(r)) = Ended([r EXCEPT !.ran = 1], "ok")
    BY <2>1 DEF AfterAnswer, Active, Fields
  <2> QED
    <3>1. r.fault \in BOOLEAN
      BY DEF Active, Fields
    <3>2. [step |-> "done", result |-> "ok", fault |-> r.fault, ran |-> 1, child |-> {}] \in Finished
      BY <3>1 DEF Finished
    <3> QED
      BY <2>2, <2>3, <3>2 DEF Follows
<1>2. CASE ~(~Bootstraps(r) /\ Ready(r) /\ r.op = "request")
  <2>1. Counted(r) = r
    BY <1>2 DEF Counted
  <2>2. Answer(r) \in {"ok", "unavailable"} /\ (Bootstraps(r) => Answer(r) = "ok")
    BY DEF Answer
  <2>3. \/ AfterAnswer(r, Answer(r)) = Plain(r, "flag")
        \/ AfterAnswer(r, Answer(r)) = LateBootstrap(r) /\ r.op = "request"
        \/ AfterAnswer(r, Answer(r)) = Ended(r, Answer(r))
    BY DEF AfterAnswer
  <2>4. Follows(Plain(r, "flag"), r)
    BY PlainKeeps DEF Follows
  <2>5. Follows(Ended(r, Answer(r)), r)
    BY <2>2, EndedFollows DEF Bootstraps
  <2> QED
    BY <2>1, <2>3, <2>4, <2>5, LateFollows
<1> QED
  BY <1>1, <1>2

LEMMA AfterRefusalFollows ==
    ASSUME NEW r \in Active
    PROVE  Follows(AfterRefusal(r), r)
<1>1. Ended(r, "ok").result = "ok" /\ Follows(Ended(r, "ok"), r)
  BY EndedFollows DEF Ended
<1>2. r.boot # "child" => Follows(Ended(r, "refused"), r)
  BY EndedFollows
<1> QED
  BY <1>1, <1>2 DEF AfterRefusal

LEMMA FailedSendFollows ==
    ASSUME NEW r \in Active, NEW kind \in Errors
    PROVE  Follows(FailedSend(r, kind), r)
<1>1. Follows([Plain(r, "drop") EXCEPT !.error = kind], r)
  <2> DEFINE x == Plain(r, "lookup")
  <2>1. x \in Active /\ x.step = "lookup" /\ x.op = r.op /\ x.session = r.session
        /\ x.boot = r.boot /\ x.fault = r.fault
    BY PlainKeeps
  <2> DEFINE q == [x EXCEPT !.step = "drop", !.error = kind]
  <2>2. [Plain(r, "drop") EXCEPT !.error = kind] = q
    BY DEF Plain, Active, Fields
  <2> HIDE DEF x
  <2>3. x \in Fields /\ Shape(x)
    BY <2>1 DEF Active
  <2>4. q \in Fields
    BY <2>3 DEF Fields
  <2>5. q.step = "drop" /\ q.error = kind /\ q.boot = x.boot /\ q.op = x.op
        /\ q.session = r.session /\ q.fault = r.fault /\ q.session = x.session
    BY <2>1, <2>3 DEF Fields
  <2> HIDE DEF q
  <2>6. Shape(q)
    BY <2>3, <2>5 DEF Shape, Errors
  <2> QED
    BY <2>2, <2>4, <2>5, <2>6 DEF Follows, Active
<1> QED
  BY <1>1, AfterErrorFollows DEF FailedSend

LEMMA FaultKeeps ==
    ASSUME NEW r \in Active
    PROVE  /\ Fault(r) \in Active /\ Fault(r).fault
           /\ Fault(r).session = r.session /\ Fault(r).step = r.step /\ Fault(r).conn = r.conn
<1>1. r \in Fields /\ Shape(r)
  BY DEF Active
<1>2. /\ Fault(r).op = r.op /\ Fault(r).session = r.session /\ Fault(r).step = r.step
      /\ Fault(r).boot = r.boot /\ Fault(r).port = r.port /\ Fault(r).error = r.error
      /\ Fault(r).conn = r.conn
      /\ Fault(r).fault = TRUE
  BY <1>1 DEF Fault, Fields
<1>3. Fault(r) \in Fields
  BY <1>1 DEF Fault, Fields
<1>4. Shape(Fault(r))
  BY <1>1, <1>2 DEF Shape
<1> QED
  BY <1>2, <1>3, <1>4 DEF Active

\* A connection has been found or made.
LEMMA HaveProxyKeeps ==
    ASSUME NEW r \in Active, NEW k \in Real \union {NoConn}
    PROVE  /\ HaveProxy(r, k) \in Active
           /\ HaveProxy(r, k).step \in {"pop", "send"}
           /\ HaveProxy(r, k).session = r.session
           /\ HaveProxy(r, k).fault = r.fault
           /\ HaveProxy(r, k).conn = k
           /\ HaveProxy(r, k).op = r.op /\ HaveProxy(r, k).boot = r.boot
           /\ HaveProxy(r, k).level = r.level /\ HaveProxy(r, k).try = r.try
           /\ HaveProxy(r, k).step = "send" => r.op # "events" /\ (r.op = "adopt" => r.boot = "child")
<1> DEFINE next == IF r.op = "events" \/ (r.op = "adopt" /\ r.boot = "no") THEN "pop" ELSE "send"
       q == [r EXCEPT !.conn = k, !.step = next]
<1>1. HaveProxy(r, k) = q
  BY DEF HaveProxy
<1>2. /\ next \in {"pop", "send"}
      /\ next = "pop" => r.op \in {"events", "adopt"} /\ r.boot = "no"
      /\ next = "send" => r.op # "events" /\ (r.op = "adopt" => r.boot = "child")
  BY DEF Active, Fields, Shape
<1> HIDE DEF next
<1>3. r \in Fields /\ Shape(r)
  BY DEF Active
<1>4. q \in Fields
  BY <1>2, <1>3 DEF Fields
<1>5. q.conn = k /\ q.step = next /\ q.session = r.session /\ q.fault = r.fault /\ q.op = r.op
      /\ q.boot = r.boot /\ q.level = r.level /\ q.try = r.try
  BY <1>3 DEF Fields
<1> HIDE DEF q
<1>6. Shape(q)
  BY <1>2, <1>3, <1>5 DEF Shape
<1> QED
  BY <1>1, <1>2, <1>4, <1>5, <1>6 DEF Active

-----------------------------------------------------------------------------
(* The steps of a call *)

\* Who reaches an adapter still reaches it there.
KeepsAlive ==
    \A s \in Ids : Reaches(s, endpoint, adapter, lives) =>
      Reaches(s, endpoint', adapter', lives') /\ endpoint'[s] = endpoint[s]

\* What FailedAdoptionLeavesNoChild says of a step.
Clean ==
    \A w \in Workers :
      LET r == call'[w] IN
      call[w] # r /\ r.step = "done" /\ r.result # "ok" => \A k \in r.child : endpoint'[k] = NoPort

Kept == World' /\ Calls' /\ Busy' /\ Clean

LEMMA CallAt ==
    ASSUME DapInv, NEW c \in Workers, NEW step, At(c, step), step \notin {"idle", "done"}
    PROVE  /\ call[c] \in Active /\ call[c].step = step /\ worker[c] = "handle"
           /\ Steady(call[c], endpoint, adapter, lives)
<1>1. call[c] \in {Idle} \union Active \union Finished
  BY DEF DapInv, Calls
<1>2. call[c] \in Active /\ call[c] # Idle
  BY <1>1, ByStep DEF At
<1> QED
  BY <1>2 DEF DapInv, Calls, Busy, At

LEMMA CallMoves ==
    ASSUME DapInv, KeepsAlive, NEW c \in Workers, worker[c] = "handle", NEW q \in Active \union Finished,
           Steady(q, endpoint', adapter', lives'), call' = [call EXCEPT ![c] = q], UNCHANGED worker
    PROVE  Calls' /\ Busy' /\ (q \in Active => Clean)
<1>1. call' \in [Workers -> {Idle} \union Active \union Finished]
  BY DEF DapInv, Calls
<1>2. ASSUME NEW w \in Workers, w # c
      PROVE  Steady(call'[w], endpoint', adapter', lives')
  <2>1. call'[w] = call[w] /\ Steady(call[w], endpoint, adapter, lives)
    BY <1>2 DEF DapInv, Calls
  <2>2. call[w] \in Active => call[w].session \in Ids
    BY DEF Active, Fields
  <2> QED
    BY <2>1, <2>2 DEF KeepsAlive, Steady
<1>3. call'[c] = q
  BY DEF DapInv, Calls
<1>4. Busy'
  BY <1>3 DEF DapInv, Calls, Busy
<1>5. q \in Active => Clean
  <2>1. \A w \in Workers : call[w] # call'[w] => call'[w] = q
    BY DEF DapInv, Calls
  <2>2. q \in Active => q.step # "done"
    BY DEF Active, Fields
  <2> QED
    BY <2>1, <2>2 DEF Clean
<1> QED
  BY <1>1, <1>2, <1>3, <1>4, <1>5 DEF Calls

LEMMA CallFollows ==
    ASSUME DapInv, KeepsAlive, NEW c \in Workers, call[c] \in Active, worker[c] = "handle", NEW q,
           Follows(q, call[c]), call' = [call EXCEPT ![c] = q], UNCHANGED worker
    PROVE  Calls' /\ Busy' /\ Clean
<1>1. q \in Active \union Finished
  BY DEF Follows
<1>2. Steady(q, endpoint', adapter', lives')
  <2>1. SUFFICES ASSUME q \in Active, ~q.fault
                 PROVE  Steady(q, endpoint', adapter', lives')
    BY DEF Steady
  <2>2. q \notin Finished
    BY <2>1 DEF Active, Fields, Finished
  <2>3. /\ q.session = call[c].session /\ ~call[c].fault
        /\ q.step \notin {"connect", "insert", "send"}
    BY <2>1, <2>2 DEF Follows
  <2>4. Reaches(q.session, endpoint, adapter, lives)
    BY <2>1, <2>3 DEF DapInv, Calls, Steady
  <2>5. q.session \in Ids
    BY <2>1 DEF Active, Fields
  <2> QED
    BY <2>3, <2>4, <2>5 DEF KeepsAlive, Steady
<1>3. Calls' /\ Busy'
  BY <1>1, <1>2, CallMoves
<1>4. Clean
  <2>1. \A w \in Workers : call[w] # call'[w] => w = c /\ call'[w] = q
    BY DEF DapInv, Calls
  <2>2. q.step = "done" => q \in Finished /\ (q.result = "ok" \/ q.child = {})
    BY DEF Follows, Active, Fields
  <2> QED
    BY <2>1, <2>2 DEF Clean
<1> QED
  BY <1>3, <1>4

\* The world stays as it is.
LEMMA WorldStays ==
    ASSUME World, UNCHANGED <<endpoint, adapter, lives, registry, bootstrapped, attach>>
    PROVE  World' /\ KeepsAlive
  BY DEF World, KeepsAlive, Lives

LEMMA FlagKeeps ==
    ASSUME DapInv, NEW c \in Workers, Flag(c), UNCHANGED worker
    PROVE  Kept
<1>1. call[c] \in Active /\ worker[c] = "handle"
  BY CallAt DEF Flag
<1>2. call[c].level \in 1 .. 3 /\ call[c].session \in Ids
  BY <1>1 DEF Active, Fields
<1>3. World' /\ KeepsAlive
  BY <1>2 DEF DapInv, World, Flag, KeepsAlive, Lives
<1>4. Follows(NextLevel(call[c], call[c].level), call[c])
  BY <1>1, <1>2, NextLevelFollows
<1>5. call' = [call EXCEPT ![c] = NextLevel(call[c], call[c].level)]
  BY DEF Flag, Become
<1>6. Calls' /\ Busy' /\ Clean
  BY <1>1, <1>3, <1>4, <1>5, CallFollows
<1> QED
  BY <1>3, <1>6 DEF Kept

LEMMA LookupKeeps ==
    ASSUME DapInv, NEW c \in Workers, Lookup(c), UNCHANGED worker
    PROVE  Kept
<1> DEFINE old == call[c]
           r == IF NeedsBootstrap(old) THEN [old EXCEPT !.boot = "eager"] ELSE old
           p == endpoint[r.session]
           k == registry[r.session]
<1>1. /\ old \in Active /\ old.step = "lookup" /\ worker[c] = "handle"
      /\ Steady(old, endpoint, adapter, lives)
  BY CallAt DEF Lookup
<1>2. /\ r \in Active /\ r.step = "lookup" /\ r.session = old.session /\ r.fault = old.fault
  BY <1>1 DEF NeedsBootstrap, Active, Fields, Shape
<1>3. old.session \in Ids /\ p \in Ports \union {NoPort} /\ k \in Real \union {NoConn}
  BY <1>1, <1>2 DEF Active, Fields, DapInv, World
<1>4. UNCHANGED <<endpoint, adapter, lives, registry, bootstrapped, attach>>
  BY DEF Lookup
<1>5. World' /\ KeepsAlive
  BY <1>4, WorldStays DEF DapInv
<1>6. call' = [call EXCEPT ![c] =
        IF p = NoPort THEN AfterError(r, "not found")
        ELSE IF Matches(k, p) THEN HaveProxy(r, k)
        ELSE [r EXCEPT !.step = "connect", !.port = p]]
  BY DEF Lookup, Become
<1> HIDE DEF r
<1>7. CASE p = NoPort
  <2>1. Follows(AfterError(r, "not found"), old)
    BY <1>2, AfterErrorFollows DEF Follows, Errors
  <2> QED
    BY <1>1, <1>5, <1>6, <1>7, <2>1, CallFollows DEF Kept
<1>8. CASE p # NoPort /\ Matches(k, p)
  <2> DEFINE q == HaveProxy(r, k)
  <2>1. q \in Active /\ q.step \in {"pop", "send"} /\ q.session = old.session /\ q.fault = old.fault
        /\ q.conn = k
    BY <1>2, <1>3, HaveProxyKeeps
  <2>2. call' = [call EXCEPT ![c] = q]
    BY <1>6, <1>8
  <2> HIDE DEF q
  <2>3. Steady(q, endpoint', adapter', lives')
    BY <1>1, <1>2, <1>4, <1>8, <2>1 DEF Steady, Matches
  <2> QED
    BY <1>1, <1>5, <2>1, <2>2, <2>3, CallMoves DEF Kept
<1>9. CASE p # NoPort /\ ~Matches(k, p)
  <2> DEFINE q == [r EXCEPT !.step = "connect", !.port = p]
  <2>1. q \in Active /\ q.step = "connect" /\ q.session = old.session /\ q.fault = old.fault
        /\ q.port = p
    <3>1. r \in Fields /\ Shape(r)
      BY <1>2, <1>3, <1>9 DEF Active
    <3>2. q \in Fields
      BY <1>2, <1>3, <1>9, <3>1 DEF Fields
    <3>3. /\ q.step = "connect" /\ q.session = old.session /\ q.fault = old.fault /\ q.port = p
          /\ q.op = r.op /\ q.boot = r.boot /\ q.session = r.session /\ q.error = r.error
      BY <1>2, <1>3, <1>9, <3>1 DEF Fields
    <3> HIDE DEF q
    <3>4. Shape(q)
      BY <1>2, <1>3, <1>9, <3>1, <3>3 DEF Shape
    <3> QED
      BY <3>2, <3>3, <3>4 DEF Active
  <2>2. call' = [call EXCEPT ![c] = q]
    BY <1>6, <1>9
  <2> HIDE DEF q
  <2>3. Steady(q, endpoint', adapter', lives')
    BY <1>1, <1>2, <1>4, <2>1 DEF Steady
  <2> QED
    BY <1>1, <1>5, <2>1, <2>2, <2>3, CallMoves DEF Kept
<1> QED
  BY <1>7, <1>8, <1>9

LEMMA ConnectKeeps ==
    ASSUME DapInv, NEW c \in Workers, Connect(c), UNCHANGED worker
    PROVE  Kept
<1> DEFINE old == call[c]
           p == old.port
<1>1. /\ old \in Active /\ old.step = "connect" /\ worker[c] = "handle"
      /\ Steady(old, endpoint, adapter, lives)
  BY CallAt DEF Connect
<1>2. p \in Ports
  BY <1>1 DEF Active, Shape
<1>3. UNCHANGED <<endpoint, adapter, lives, registry, bootstrapped, attach>>
  BY DEF Connect
<1>4. World' /\ KeepsAlive
  BY <1>3, WorldStays DEF DapInv
<1>5. call' = [call EXCEPT ![c] =
        IF adapter[p] = 0 THEN AfterError(old, "broken")
        ELSE [old EXCEPT !.step = "insert", !.port = NoPort, !.conn = Connection(p)]]
  BY DEF Connect, Become
<1> HIDE DEF old
<1>6. CASE adapter[p] = 0
  <2>1. Follows(AfterError(old, "broken"), old)
    BY <1>1, AfterErrorFollows DEF Errors
  <2> QED
    BY <1>1, <1>4, <1>5, <1>6, <2>1, CallFollows DEF Kept, old
<1>7. CASE adapter[p] # 0
  <2> DEFINE k == Connection(p)
             q == [old EXCEPT !.step = "insert", !.port = NoPort, !.conn = k]
  <2>1. k \in Real /\ k.port = p
    <3>1. adapter[p] \in Nat \ {0} /\ lives[adapter[p]] \in Adapter
      BY <1>2, <1>7 DEF DapInv, World, Lives
    <3> QED
      BY <1>2, <3>1 DEF Connection, Real, Adapter
  <2> HIDE DEF k
  <2>2. q \in Active /\ q.step = "insert" /\ q.session = old.session /\ q.fault = old.fault
        /\ q.conn = k
    BY <1>1, <2>1 DEF Active, Fields, Shape
  <2>3. call' = [call EXCEPT ![c] = q]
    BY <1>5, <1>7 DEF k
  <2> HIDE DEF q
  <2>4. Steady(q, endpoint', adapter', lives')
    BY <1>1, <1>3, <2>1, <2>2 DEF Steady
  <2> QED
    BY <1>1, <1>4, <2>2, <2>3, <2>4, CallMoves DEF Kept
<1> QED
  BY <1>6, <1>7

LEMMA InsertKeeps ==
    ASSUME DapInv, NEW c \in Workers, Insert(c), UNCHANGED worker
    PROVE  Kept
<1> DEFINE old == call[c]
           k == old.conn
           q == HaveProxy(old, k)
<1>1. /\ old \in Active /\ old.step = "insert" /\ worker[c] = "handle"
      /\ Steady(old, endpoint, adapter, lives)
  BY CallAt DEF Insert
<1>2. k \in Real \union {NoConn} /\ old.session \in Ids
  BY <1>1 DEF Active, Fields
<1>3. World' /\ KeepsAlive
  BY <1>2 DEF Insert, DapInv, World, KeepsAlive, Lives
<1>4. q \in Active /\ q.step \in {"pop", "send"} /\ q.session = old.session /\ q.fault = old.fault
      /\ q.conn = k
  BY <1>1, <1>2, HaveProxyKeeps
<1>5. call' = [call EXCEPT ![c] = q] /\ UNCHANGED <<endpoint, adapter, lives>>
  BY DEF Insert, Become
<1> HIDE DEF q
<1>6. Steady(q, endpoint', adapter', lives')
  BY <1>1, <1>4, <1>5 DEF Steady
<1> QED
  BY <1>1, <1>3, <1>4, <1>5, <1>6, CallMoves DEF Kept

\* An adapter has done something, but is still whose it was.
LEMMA AdaptersKept ==
    ASSUME World, UNCHANGED <<endpoint, adapter, registry, bootstrapped, attach>>,
           lives' \in Seq(Adapter), Lives' = Lives, \A l \in Lives : lives'[l].session = lives[l].session
    PROVE  World' /\ KeepsAlive
<1>1. World'
  BY DEF World
<1>2. ASSUME NEW s \in Ids, Reaches(s, endpoint, adapter, lives)
      PROVE  Reaches(s, endpoint', adapter', lives')
  <2>1. endpoint[s] \in Ports
    BY <1>2 DEF World, Reaches
  <2>2. adapter[endpoint[s]] \in Lives
    BY <1>2, <2>1 DEF World, Reaches
  <2> QED
    BY <1>2, <2>2 DEF Reaches
<1> QED
  BY <1>1, <1>2 DEF KeepsAlive

LEMMA SendAnsweredKeeps ==
    ASSUME DapInv, NEW c \in Workers, SendAnswered(c), UNCHANGED worker
    PROVE  Kept
<1> DEFINE old == call[c]
           k == old.conn
           q == AfterAnswer(Counted(old), Answer(old))
<1>1. old \in Active /\ worker[c] = "handle"
  BY CallAt DEF SendAnswered
<1>2. k \in Real /\ k.life \in Lives
  <2>1. k \in Real \union {NoConn} /\ Up(k)
    BY <1>1 DEF SendAnswered, Active, Fields
  <2>2. k \in Real /\ adapter[k.port] = k.life
    BY <2>1 DEF Up
  <2> QED
    BY <2>2 DEF Real, DapInv, World
<1>3. /\ UNCHANGED <<endpoint, adapter, registry, bootstrapped, attach>>
      /\ lives' = IF Bootstraps(old) THEN [lives EXCEPT ![k.life].ready = TRUE] ELSE lives
      /\ call' = [call EXCEPT ![c] = q]
  BY DEF SendAnswered, Become
<1> HIDE DEF old
<1>4. /\ lives' \in Seq(Adapter) /\ Lives' = Lives
      /\ \A l \in Lives : lives'[l].session = lives[l].session
  <2>1. lives \in Seq(Adapter)
    BY DEF DapInv, World
  <2>2. CASE ~Bootstraps(old)
    BY <1>3, <2>1, <2>2 DEF Lives
  <2>3. CASE Bootstraps(old)
    <3>1. lives' = [lives EXCEPT ![k.life] = [lives[k.life] EXCEPT !.ready = TRUE]]
      BY <1>3, <2>3
    <3>2. lives[k.life] \in Adapter
      BY <1>2, <2>1 DEF Lives
    <3>3. /\ [lives[k.life] EXCEPT !.ready = TRUE] \in Adapter
          /\ [lives[k.life] EXCEPT !.ready = TRUE].session = lives[k.life].session
      BY <3>2 DEF Adapter
    <3> QED
      BY <1>2, <2>1, <3>1, <3>3 DEF Lives
  <2> QED
    BY <2>2, <2>3
<1>5. World' /\ KeepsAlive
  BY <1>3, <1>4, AdaptersKept DEF DapInv
<1>6. Follows(q, old)
  BY <1>1, AfterAnswerFollows DEF old
<1> QED
  BY <1>1, <1>3, <1>5, <1>6, CallFollows DEF Kept, old

LEMMA SendRefusedKeeps ==
    ASSUME DapInv, NEW c \in Workers, SendRefused(c), UNCHANGED worker
    PROVE  Kept
<1> DEFINE old == call[c]
<1>1. old \in Active /\ worker[c] = "handle"
  BY CallAt DEF SendRefused
<1>2. UNCHANGED <<endpoint, adapter, lives, registry, bootstrapped, attach>>
  BY DEF SendRefused
<1>3. World' /\ KeepsAlive
  BY <1>2, WorldStays DEF DapInv
<1>4. PICK q : Follows(q, old) /\ call' = [call EXCEPT ![c] = q]
  <2>1. Follows(AfterRefusal(old), old)
    BY <1>1, AfterRefusalFollows
  <2>2. Follows(AfterRefusal(Fault(old)), old)
    <3>1. Fault(old) \in Active /\ Fault(old).fault /\ Fault(old).session = old.session
      BY <1>1, FaultKeeps
    <3>2. Follows(AfterRefusal(Fault(old)), Fault(old))
      BY <3>1, AfterRefusalFollows
    <3> QED
      BY <3>1, <3>2 DEF Follows
  <2> QED
    BY <2>1, <2>2 DEF SendRefused, Become
<1> QED
  BY <1>1, <1>3, <1>4, CallFollows DEF Kept

LEMMA SendTimesOutKeeps ==
    ASSUME DapInv, NEW c \in Workers, SendTimesOut(c), UNCHANGED worker
    PROVE  Kept
<1> DEFINE old == call[c]
           q == FailedSend(Fault(old), "timeout")
<1>1. old \in Active /\ worker[c] = "handle"
  BY CallAt DEF SendTimesOut
<1>2. Follows(q, old)
  <2>1. Fault(old) \in Active /\ Fault(old).fault /\ Fault(old).session = old.session
    BY <1>1, FaultKeeps
  <2>2. Follows(q, Fault(old))
    BY <2>1, FailedSendFollows DEF Errors
  <2> QED
    BY <2>1, <2>2 DEF Follows
<1>3. UNCHANGED <<endpoint, adapter, lives, registry, bootstrapped, attach>> /\ call' = [call EXCEPT ![c] = q]
  BY DEF SendTimesOut, Become
<1>4. World' /\ KeepsAlive
  BY <1>3, WorldStays DEF DapInv
<1> QED
  BY <1>1, <1>2, <1>3, <1>4, CallFollows DEF Kept

LEMMA SendFailsKeeps ==
    ASSUME DapInv, NEW c \in Workers, SendFails(c), UNCHANGED worker
    PROVE  Kept
<1> DEFINE old == call[c]
           q == FailedSend(old, "broken")
<1>1. old \in Active /\ worker[c] = "handle"
  BY CallAt DEF SendFails
<1>2. Follows(q, old)
  BY <1>1, FailedSendFollows DEF Errors
<1>3. UNCHANGED <<endpoint, adapter, lives, registry, bootstrapped, attach>> /\ call' = [call EXCEPT ![c] = q]
  BY DEF SendFails, Become
<1>4. World' /\ KeepsAlive
  BY <1>3, WorldStays DEF DapInv
<1> QED
  BY <1>1, <1>2, <1>3, <1>4, CallFollows DEF Kept

LEMMA DropSessionKeeps ==
    ASSUME DapInv, NEW c \in Workers, DropSession(c), UNCHANGED worker
    PROVE  Kept
<1> DEFINE old == call[c]
           q == IF old.try = 2 THEN AfterError(old, old.error) ELSE [Looked(old) EXCEPT !.try = 2]
<1>1. old \in Active /\ old.step = "drop" /\ worker[c] = "handle"
  BY CallAt DEF DropSession
<1>2. old.error \in Errors /\ old.session \in Ids
  BY <1>1 DEF Active, Fields, Shape
<1>3. Follows(q, old)
  <2>1. Follows(AfterError(old, old.error), old)
    BY <1>1, <1>2, AfterErrorFollows
  <2>2. Follows([Looked(old) EXCEPT !.try = 2], old)
    <3> DEFINE x == Looked(old)
    <3>1. x \in Active /\ x.step = "lookup" /\ x.session = old.session /\ x.fault = old.fault
      BY <1>1, LookedKeeps
    <3> HIDE DEF x
    <3>2. Follows([x EXCEPT !.try = 2], old)
      BY <3>1 DEF Follows, Active, Fields, Shape
    <3> QED
      BY <3>2 DEF x
  <2> QED
    BY <2>1, <2>2
<1>4. World' /\ KeepsAlive
  BY <1>2 DEF DropSession, DapInv, World, KeepsAlive, Lives
<1>5. call' = [call EXCEPT ![c] = q]
  BY DEF DropSession, Become
<1> QED
  BY <1>1, <1>3, <1>4, <1>5, CallFollows DEF Kept

LEMMA PopEventsKeeps ==
    ASSUME DapInv, NEW c \in Workers, PopEvents(c), UNCHANGED worker
    PROVE  Kept
<1> DEFINE old == call[c]
           mine == {e \in attach : e.conn = old.conn}
<1>1. old \in Active /\ old.step = "pop" /\ worker[c] = "handle"
  BY CallAt DEF PopEvents
<1>2. old.op \in {"events", "adopt"} /\ old.boot = "no"
  BY <1>1 DEF Active, Shape
<1>3. World' /\ KeepsAlive
  BY DEF PopEvents, DapInv, World, KeepsAlive, Lives
<1>4. PICK q : Follows(q, old) /\ call' = [call EXCEPT ![c] = q]
  <2>1. CASE old.op = "events"
    BY <1>1, <1>2, <2>1, EndedFollows DEF PopEvents, Become
  <2>2. CASE old.op # "events" /\ mine = {}
    BY <1>1, <1>2, <2>2, EndedFollows DEF PopEvents, Become
  <2>3. CASE old.op # "events" /\ mine # {}
    <3>1. PICK latest \in mine :
            call' = [call EXCEPT ![c] = [Looked(old) EXCEPT !.step = "register", !.port = latest.port]]
      BY <2>3 DEF PopEvents, Become
    <3>2. latest.port \in Ports
      BY <3>1 DEF DapInv, World
    <3> DEFINE x == Looked(old)
               p == latest.port
    <3>3. x \in Active /\ x.step = "lookup" /\ x.op = old.op /\ x.session = old.session
          /\ x.boot = old.boot /\ x.fault = old.fault
      BY <1>1, LookedKeeps
    <3> HIDE DEF x, p
    <3> DEFINE q == [x EXCEPT !.step = "register", !.port = p]
    <3>5. q \in Active /\ q.step = "register" /\ q.session = old.session /\ q.fault = old.fault
      <4>1. x \in Fields /\ Shape(x)
        BY <1>2, <2>3, <3>2, <3>3 DEF Active
      <4>2. q \in Fields
        BY <1>2, <2>3, <3>2, <3>3, <4>1 DEF Fields, p
      <4>3. /\ q.step = "register" /\ q.session = old.session /\ q.fault = old.fault /\ q.op = old.op
            /\ q.boot = old.boot /\ q.port = p
        BY <1>2, <2>3, <3>2, <3>3, <4>1 DEF Fields, p
      <4> HIDE DEF q
      <4>4. Shape(q)
        BY <1>2, <2>3, <3>2, <3>3, <4>1, <4>3 DEF Shape, p
      <4> QED
        BY <4>2, <4>3, <4>4 DEF Active
    <3>4. Follows(q, old)
      BY <3>5 DEF Follows
    <3> QED
      BY <3>1, <3>4 DEF x, p
  <2> QED
    BY <2>1, <2>2, <2>3
<1> QED
  BY <1>1, <1>3, <1>4, CallFollows DEF Kept

LEMMA RegisterChildKeeps ==
    ASSUME DapInv, NEW c \in Workers, RegisterChild(c), UNCHANGED worker
    PROVE  Kept
<1> DEFINE old == call[c]
           p == old.port
           free == {k \in Children : endpoint[k] = NoPort}
<1>1. old \in Active /\ old.step = "register" /\ worker[c] = "handle"
  BY CallAt DEF RegisterChild
<1>2. old.op = "adopt" /\ old.boot = "no" /\ p \in Ports /\ old.fault \in BOOLEAN
  <2>1. old \in Fields /\ Shape(old)
    BY <1>1 DEF Active
  <2> HIDE DEF old
  <2> QED
    BY <1>1, <2>1 DEF Fields, Shape
<1>3. UNCHANGED <<adapter, registry, bootstrapped, attach>>
  BY DEF RegisterChild
<1>4. CASE endpoint[old.session] = NoPort \/ free = {}
  <2>1. UNCHANGED <<endpoint, lives>> /\ call' = [call EXCEPT ![c] = Ended(old, "no id")]
    BY <1>4 DEF RegisterChild, Become
  <2>2. Follows(Ended(old, "no id"), old)
    <3>1. "no id" \in {"ok", "no event", "no id", "unavailable"} \union Errors /\ old.boot # "child"
      BY <1>2
    <3> HIDE DEF old, p, free
    <3> QED
      BY <1>1, <3>1, EndedFollows
  <2>3. World' /\ KeepsAlive
    <3>1. UNCHANGED <<endpoint, adapter, lives, registry, bootstrapped, attach>>
      BY <1>3, <2>1
    <3> HIDE DEF old, p, free
    <3> QED
      BY <3>1, WorldStays DEF DapInv
  <2> QED
    BY <1>1, <2>1, <2>2, <2>3, CallFollows DEF Kept
<1>5. CASE ~(endpoint[old.session] = NoPort \/ free = {})
  <2> DEFINE taken(k) ==
               \/ old.fault \/ StaleInsert(k)
               \/ adapter[p] = 0 \/ lives[adapter[p]].session # Orphan
  <2>1. PICK k \in free :
          /\ endpoint' = [endpoint EXCEPT ![k] = p]
          /\ lives' = [l \in Lives |->
               IF l = adapter[p] /\ lives[l].session = Orphan
               THEN [lives[l] EXCEPT !.session = k] ELSE lives[l]]
          /\ call' = [call EXCEPT ![c] =
               [Looked(old) EXCEPT !.session = k, !.boot = "child", !.fault = taken(k)]]
    BY <1>5 DEF RegisterChild, Become
  <2> DEFINE f == taken(k)
             x == Looked(old)
             q == [x EXCEPT !.session = k, !.boot = "child", !.fault = f]
  <2>2. k \in Children /\ k \in Ids /\ k \notin Sessions /\ endpoint[k] = NoPort
    BY RegistryAssumption DEF Ids
  <2>3. /\ lives' \in Seq(Adapter) /\ Lives' = Lives
        /\ \A l \in Lives : lives[l].session # Orphan => lives'[l].session = lives[l].session
        /\ adapter[p] \in Lives /\ lives[adapter[p]].session = Orphan => lives'[adapter[p]].session = k
    <3>1. lives \in Seq(Adapter)
      BY DEF DapInv, World
    <3>2. \A l \in Lives : lives[l] \in Adapter
      BY <3>1 DEF Lives
    <3>3. \A a \in Adapter : [a EXCEPT !.session = k] \in Adapter /\ [a EXCEPT !.session = k].session = k
      BY <2>2 DEF Adapter
    <3>4. \A l \in Lives : lives'[l] \in Adapter
      BY <2>1, <3>2, <3>3
    <3>5. lives' \in Seq(Adapter) /\ Lives' = Lives
      BY <2>1, <3>1, <3>4 DEF Lives
    <3> QED
      BY <2>1, <3>2, <3>3, <3>5
  <2>4. World'
    BY <1>2, <1>3, <2>1, <2>2, <2>3, RegistryAssumption DEF DapInv, World
  <2>5. KeepsAlive
    <3>1. ASSUME NEW t \in Ids, Reaches(t, endpoint, adapter, lives)
          PROVE  Reaches(t, endpoint', adapter', lives') /\ endpoint'[t] = endpoint[t]
      <4>1. t # k /\ endpoint'[t] = endpoint[t] /\ endpoint[t] \in Ports
        BY <2>1, <2>2, <3>1 DEF Reaches, DapInv, World
      <4>2. adapter[endpoint[t]] \in Lives
        BY <3>1, <4>1 DEF Reaches, DapInv, World
      <4>3. t # Orphan
        BY RegistryAssumption DEF Ids
      <4> QED
        BY <1>3, <2>3, <3>1, <4>1, <4>2, <4>3 DEF Reaches
    <3> QED
      BY <3>1 DEF KeepsAlive
  <2>6. x \in Active /\ x.step = "lookup" /\ x.op = "adopt"
    BY <1>1, <1>2, LookedKeeps
  <2>7. f \in BOOLEAN /\ (~f => adapter[p] # 0 /\ lives[adapter[p]].session = Orphan)
    <3>1. StaleInsert(k) \in BOOLEAN
      BY DEF StaleInsert
    <3> HIDE DEF old, p
    <3> QED
      BY <1>2, <3>1
  <2> HIDE DEF x, f
  <2>8. q \in Active /\ q.step = "lookup" /\ q.session = k /\ q.fault = f
    <3>1. x \in Fields /\ Shape(x)
      BY <2>2, <2>6, <2>7 DEF Active
    <3>2. q \in Fields
      BY <2>2, <2>6, <2>7, <3>1 DEF Fields
    <3>3. /\ q.step = "lookup" /\ q.session = k /\ q.fault = f /\ q.op = "adopt"
          /\ q.boot = "child"
      BY <2>2, <2>6, <2>7, <3>1 DEF Fields
    <3> HIDE DEF q
    <3>4. Shape(q)
      BY <2>2, <2>6, <2>7, <3>1, <3>3 DEF Shape
    <3> QED
      BY <3>2, <3>3, <3>4 DEF Active
  <2>9. call' = [call EXCEPT ![c] = q]
    BY <2>1 DEF x, f
  <2> HIDE DEF q
  <2>10. ~f => Reaches(k, endpoint', adapter', lives')
    <3>1. endpoint'[k] = p /\ p # NoPort
      BY <1>2, <2>1, <2>2, RegistryAssumption DEF DapInv, World
    <3>2. adapter[p] # 0 => adapter[p] \in Lives
      BY <1>2 DEF DapInv, World
    <3> QED
      BY <1>3, <2>3, <2>7, <3>1, <3>2 DEF Reaches
  <2>11. Steady(q, endpoint', adapter', lives')
    BY <2>8, <2>10 DEF Steady
  <2> QED
    BY <1>1, <2>4, <2>5, <2>8, <2>9, <2>11, CallMoves DEF Kept
<1> QED
  BY <1>4, <1>5

-----------------------------------------------------------------------------
(* What goes wrong with the adapter of a session *)

\* Who reaches an adapter still reaches it there, but perhaps s.
KeepsOthersAlive(s) ==
    \A t \in Ids \ {s} : Reaches(t, endpoint, adapter, lives) =>
      Reaches(t, endpoint', adapter', lives') /\ endpoint'[t] = endpoint[t]

\* The calls on s have a fault from now on; those that have ended, and others, are as before.
LEMMA DisturbedKeeps ==
    ASSUME DapInv, NEW s, KeepsOthersAlive(s)
    PROVE  /\ Disturbed(s) \in [Workers -> {Idle} \union Active \union Finished]
           /\ \A w \in Workers :
                /\ call[w] = Idle => Disturbed(s)[w] = Idle
                /\ Disturbed(s)[w] \in Active \/ Disturbed(s)[w] = call[w]
                /\ Steady(Disturbed(s)[w], endpoint', adapter', lives')
<1>1. \A w \in Workers : Disturbed(s)[w] =
        IF call[w].step \notin {"idle", "done"} /\ call[w].session = s THEN Fault(call[w]) ELSE call[w]
  BY DebugAssumption DEF Disturbed
<1>2. ASSUME NEW w \in Workers
      PROVE  /\ Disturbed(s)[w] \in {Idle} \union Active \union Finished
             /\ call[w] = Idle => Disturbed(s)[w] = Idle
             /\ Disturbed(s)[w] \in Active \/ Disturbed(s)[w] = call[w]
             /\ Steady(Disturbed(s)[w], endpoint', adapter', lives')
  <2>1. /\ call[w] \in {Idle} \union Active \union Finished
        /\ Steady(call[w], endpoint, adapter, lives)
    BY DEF DapInv, Calls
  <2>2. CASE call[w] \in Active /\ call[w].session = s
    <3>1. Disturbed(s)[w] = Fault(call[w])
      BY <1>1, <2>1, <2>2, ByStep
    <3>2. Fault(call[w]) \in Active /\ Fault(call[w]).fault
      BY <2>2, FaultKeeps
    <3>3. call[w] # Idle
      BY <2>1, <2>2, ByStep
    <3> QED
      BY <3>1, <3>2, <3>3 DEF Steady
  <2>3. CASE call[w] \in Active /\ call[w].session # s
    <3>1. Disturbed(s)[w] = call[w] /\ call[w].session \in Ids \ {s}
      BY <1>1, <2>3 DEF Active, Fields
    <3> QED
      BY <2>1, <3>1 DEF KeepsOthersAlive, Steady
  <2>4. CASE call[w] \notin Active
    <3>1. Disturbed(s)[w] = call[w]
      BY <1>1, <2>1, <2>4, ByStep
    <3> QED
      BY <2>1, <2>4, <3>1 DEF Steady
  <2> QED
    BY <2>2, <2>3, <2>4
<1>3. Disturbed(s) = [w \in Workers |-> Disturbed(s)[w]]
  BY DebugAssumption DEF Disturbed
<1> QED
  BY <1>2, <1>3

LEMMA TroubleKeeps ==
    ASSUME DapInv, NEW s, KeepsOthersAlive(s), call' = Disturbed(s), UNCHANGED worker
    PROVE  Calls' /\ Busy' /\ Clean
<1>1. /\ call' \in [Workers -> {Idle} \union Active \union Finished]
      /\ \A w \in Workers :
           /\ call[w] = Idle => call'[w] = Idle
           /\ call'[w] \in Active \/ call'[w] = call[w]
           /\ Steady(call'[w], endpoint', adapter', lives')
  BY DisturbedKeeps
<1>2. \A q \in Active : q.step # "done"
  BY DEF Active, Fields
<1> QED
  BY <1>1, <1>2 DEF DapInv, Calls, Busy, Clean

LEMMA UnregisterChildKeeps ==
    ASSUME DapInv, NEW c \in Workers, UnregisterChild(c), UNCHANGED worker
    PROVE  Kept
<1> DEFINE old == call[c]
           s == old.session
           q == Ended(old, old.error)
<1>1. old \in Active /\ old.step = "unregister" /\ worker[c] = "handle"
  BY CallAt DEF UnregisterChild
<1>2. s \in Children /\ s \in Ids /\ s \notin Sessions /\ old.error \in Errors /\ old.boot = "child"
  BY <1>1, RegistryAssumption DEF Active, Fields, Shape, Ids
<1>3. /\ UNCHANGED <<adapter, lives, registry, bootstrapped, attach>>
      /\ endpoint' = [endpoint EXCEPT ![s] = NoPort]
      /\ call' = [Disturbed(s) EXCEPT ![c] = q]
  BY DEF UnregisterChild
<1>4. World' /\ KeepsOthersAlive(s) /\ endpoint'[s] = NoPort
  BY <1>2, <1>3 DEF DapInv, World, KeepsOthersAlive, Reaches, Lives
<1>5. q \in Finished /\ q.child = {s} /\ q \notin Active
  BY <1>1, <1>2 DEF Ended, Finished, Active, Fields
<1> HIDE DEF s, q
<1>6. /\ Disturbed(s) \in [Workers -> {Idle} \union Active \union Finished]
      /\ \A w \in Workers :
           /\ call[w] = Idle => Disturbed(s)[w] = Idle
           /\ Disturbed(s)[w] \in Active \/ Disturbed(s)[w] = call[w]
           /\ Steady(Disturbed(s)[w], endpoint', adapter', lives')
  BY <1>4, DisturbedKeeps
<1>7. call'[c] = q /\ \A w \in Workers \ {c} : call'[w] = Disturbed(s)[w]
  BY <1>3, <1>6
<1>8. Calls' /\ Busy'
  <2>1. call' \in [Workers -> {Idle} \union Active \union Finished]
    BY <1>3, <1>5, <1>6
  <2>2. Steady(q, endpoint', adapter', lives')
    BY <1>5 DEF Steady
  <2>3. \A w \in Workers : Steady(call'[w], endpoint', adapter', lives')
    BY <1>6, <1>7, <2>2
  <2>4. Busy'
    BY <1>1, <1>6, <1>7 DEF DapInv, Busy
  <2> QED
    BY <2>1, <2>3, <2>4 DEF Calls
<1>9. Clean
  <2>1. \A r \in Active : r.step # "done"
    BY DEF Active, Fields
  <2> QED
    BY <1>4, <1>5, <1>6, <1>7, <2>1 DEF Clean
<1> QED
  BY <1>4, <1>8, <1>9 DEF Kept

LEMMA AdapterExitsKeeps ==
    ASSUME DapInv, NEW p \in Ports, AdapterExits(p), UNCHANGED worker
    PROVE  Kept
<1> DEFINE l == adapter[p]
           s == lives[l].session
<1>1. /\ l \in Lives /\ lives \in Seq(Adapter) /\ adapter \in [Ports -> {0} \union Lives]
      /\ \A q \in Ports : q # p => adapter[q] # l
  BY DEF AdapterExits, DapInv, World
<1>2. /\ adapter' = [adapter EXCEPT ![p] = 0] /\ lives' = [lives EXCEPT ![l] = Gone]
      /\ UNCHANGED <<endpoint, registry, bootstrapped, attach>> /\ call' = Disturbed(s)
  BY DEF AdapterExits, Trouble
<1> HIDE DEF s, l
<1>3. Gone \in Adapter
  BY DEF Gone, Adapter
<1>4. /\ lives' \in Seq(Adapter) /\ Lives' = Lives
      /\ \A m \in Lives : m # l => lives'[m] = lives[m]
  BY <1>1, <1>2, <1>3 DEF Lives
<1>5. World'
  BY <1>1, <1>2, <1>4 DEF DapInv, World
<1>6. KeepsOthersAlive(s)
  <2>1. ASSUME NEW t \in Ids \ {s}, Reaches(t, endpoint, adapter, lives)
        PROVE  Reaches(t, endpoint', adapter', lives')
    <3>1. endpoint[t] \in Ports /\ adapter[endpoint[t]] \in Lives
      BY <2>1 DEF Reaches, DapInv, World
    <3>2. endpoint[t] # p
      BY <2>1 DEF Reaches, s, l
    <3> QED
      BY <1>1, <1>2, <1>4, <2>1, <3>1, <3>2 DEF Reaches
  <2> QED
    BY <1>2, <2>1 DEF KeepsOthersAlive
<1> QED
  BY <1>2, <1>5, <1>6, TroubleKeeps DEF Kept

LEMMA HangsUpKeeps ==
    ASSUME DapInv, NEW p \in Ports, HangsUp(p), UNCHANGED worker
    PROVE  Kept
<1> DEFINE l == adapter[p]
           s == lives[l].session
           a == [lives[l] EXCEPT !.epoch = @ + 1]
<1>1. l \in Lives /\ lives \in Seq(Adapter)
  BY DEF HangsUp, DapInv, World
<1>2. /\ lives' = [lives EXCEPT ![l] = a]
      /\ UNCHANGED <<endpoint, adapter, registry, bootstrapped, attach>> /\ call' = Disturbed(s)
  BY DEF HangsUp, Trouble
<1>3. lives[l] \in Adapter
  BY <1>1 DEF Lives
<1>4. a \in Adapter /\ a.session = lives[l].session
  BY <1>3 DEF Adapter
<1> HIDE DEF s, l, a
<1>5. /\ lives' \in Seq(Adapter) /\ Lives' = Lives
      /\ \A m \in Lives : lives'[m].session = lives[m].session
  BY <1>1, <1>2, <1>4 DEF Lives
<1>6. World' /\ KeepsAlive
  BY <1>2, <1>5, AdaptersKept DEF DapInv
<1>7. KeepsOthersAlive(s)
  BY <1>6 DEF KeepsAlive, KeepsOthersAlive
<1> QED
  BY <1>2, <1>6, <1>7, TroubleKeeps DEF Kept

-----------------------------------------------------------------------------
(* What the adapters do and what calls do not notice *)

LEMMA CallsStay ==
    ASSUME DapInv, KeepsAlive, UNCHANGED <<call, worker>>
    PROVE  Calls' /\ Busy' /\ Clean
<1>1. \A w \in Workers : call[w] \in Active => call[w].session \in Ids
  BY DEF Active, Fields
<1> QED
  BY <1>1 DEF DapInv, Calls, Busy, Clean, KeepsAlive, Steady

LEMMA ResolvesPortKeeps ==
    ASSUME DapInv, NEW s \in Sessions, ResolvesPort(s), UNCHANGED worker
    PROVE  Kept
<1>1. PICK p \in Ports : endpoint' = [endpoint EXCEPT ![s] = p]
  BY DEF ResolvesPort
<1>2. /\ UNCHANGED <<adapter, lives, registry, bootstrapped, attach, call>>
      /\ ~Reaches(s, endpoint, adapter, lives)
  BY DEF ResolvesPort, Alive, Reaches
<1>3. World'
  <2>1. endpoint' \in [Ids -> Ports \union {NoPort}] /\ \A t \in Sessions : endpoint'[t] # NoPort
    BY <1>1, RegistryAssumption DEF DapInv, World, Ids
  <2> QED
    BY <1>2, <2>1 DEF DapInv, World, Lives
<1>4. KeepsAlive
  BY <1>1, <1>2 DEF DapInv, World, KeepsAlive, Reaches
<1> QED
  BY <1>2, <1>3, <1>4, CallsStay DEF Kept

LEMMA NewLifeKeeps ==
    ASSUME DapInv, NEW p \in Ports, NEW s \in Ids \union {Orphan}, NewLife(p, s),
           UNCHANGED <<endpoint, registry, bootstrapped, call, worker>>,
           \A e \in attach' : e.port \in Ports
    PROVE  Kept
<1> DEFINE n == Len(lives) + 1
           a == [session |-> s, ready |-> FALSE, epoch |-> 0]
<1>1. /\ adapter[p] = 0 /\ adapter' = [adapter EXCEPT ![p] = n] /\ lives' = Append(lives, a)
      /\ lives \in Seq(Adapter) /\ adapter \in [Ports -> {0} \union Lives]
  BY DEF NewLife, DapInv, World
<1>2. a \in Adapter
  BY DEF Adapter
<1> HIDE DEF a
<1>3. /\ lives' \in Seq(Adapter) /\ Lives' = Lives \union {n} /\ n \notin Lives /\ n # 0 /\ 0 \notin Lives
      /\ \A l \in Lives : lives'[l] = lives[l]
  BY <1>1, <1>2 DEF Lives
<1> HIDE DEF n
<1>4. World'
  <2>1. adapter' \in [Ports -> {0} \union Lives']
    <3>1. \A q \in Ports : adapter'[q] = IF q = p THEN n ELSE adapter[q]
      BY <1>1
    <3>2. \A q \in Ports : adapter'[q] \in {0} \union Lives'
      BY <1>1, <1>3, <3>1
    <3> QED
      BY <1>1, <3>2
  <2>2. \A q, r \in Ports : adapter'[q] = adapter'[r] /\ adapter'[q] # 0 => q = r
    BY <1>1, <1>3 DEF DapInv, World
  <2> QED
    BY <1>3, <2>1, <2>2 DEF DapInv, World
<1>5. KeepsAlive
  <2>1. ASSUME NEW t \in Ids, Reaches(t, endpoint, adapter, lives)
        PROVE  Reaches(t, endpoint', adapter', lives')
    <3>1. endpoint[t] \in Ports /\ adapter[endpoint[t]] \in Lives /\ endpoint[t] # p
      BY <1>1, <2>1 DEF Reaches, DapInv, World
    <3> QED
      BY <1>1, <1>3, <2>1, <3>1 DEF Reaches
  <2> QED
    BY <2>1 DEF KeepsAlive
<1> QED
  BY <1>4, <1>5, CallsStay DEF Kept

LEMMA AdaptersKeep ==
    ASSUME DapInv, Adapters, UNCHANGED worker
    PROVE  Kept
<1>1. ASSUME NEW p \in Ports, Occupied(p)
      PROVE  Kept
  <2>1. NewLife(p, Orphan) /\ UNCHANGED <<endpoint, registry, bootstrapped, attach, call>>
    BY <1>1 DEF Occupied
  <2>2. \A e \in attach' : e.port \in Ports
    BY <2>1 DEF DapInv, World
  <2> QED
    BY <2>1, <2>2, NewLifeKeeps
<1>2. ASSUME NEW s \in Sessions, Listens(s)
      PROVE  Kept
  <2>1. NewLife(endpoint[s], s) /\ UNCHANGED <<endpoint, registry, bootstrapped, attach, call>>
    BY <1>2 DEF Listens
  <2>2. s \in Ids /\ endpoint[s] \in Ports /\ \A e \in attach' : e.port \in Ports
    BY <2>1 DEF DapInv, World, Ids
  <2> QED
    BY <2>1, <2>2, NewLifeKeeps
<1>3. ASSUME NEW k, OffersSubprocess(k)
      PROVE  Kept
  <2>1. PICK p \in Ports :
          NewLife(p, Orphan) /\ attach' = {e \in attach : e.conn # k} \union {[conn |-> k, port |-> p]}
    BY <1>3 DEF OffersSubprocess
  <2>2. UNCHANGED <<endpoint, registry, bootstrapped, call>>
    BY <1>3 DEF OffersSubprocess
  <2>3. \A e \in attach' : e.port \in Ports
    BY <2>1 DEF DapInv, World
  <2> QED
    BY <2>1, <2>2, <2>3, NewLifeKeeps
<1> QED
  BY <1>1, <1>2, <1>3, AdapterExitsKeeps, HangsUpKeeps, ResolvesPortKeeps DEF Adapters

-----------------------------------------------------------------------------
(* The steps of the server *)

LEMMA DispatchKeeps ==
    ASSUME DapInv, NEW c \in Workers, Dispatch(c)
    PROVE  Kept
<1>1. PICK route \in Routes : Begin(c, route.op, route.session)
  BY DEF Dispatch
<1> DEFINE op == route.op
           s == route.session
           f == ~Alive(s) \/ StaleInsert(s)
           q == Calling(op, s)
<1>2. op \in Operations /\ s \in Ids
  BY RegistryAssumption DEF Ids
<1>3. /\ worker[c] = "handle" /\ UNCHANGED worker
      /\ UNCHANGED <<endpoint, adapter, lives, registry, bootstrapped, attach>>
      /\ call' = [call EXCEPT ![c] = q]
  BY <1>1 DEF Dispatch, Begin, Become, httpVars
<1>4. f \in BOOLEAN /\ (~f => Reaches(s, endpoint, adapter, lives))
  BY DEF Alive, Reaches
<1>5. q = [op |-> op, session |-> s, step |-> "lookup", level |-> 1, try |-> 1, boot |-> "no",
           port |-> NoPort, conn |-> NoConn, error |-> "no", fault |-> f, ran |-> 0]
  BY DEF Calling
<1> HIDE DEF op, s, f, q
<1>6. q \in Active /\ q.step = "lookup" /\ q.session = s /\ q.fault = f
  BY <1>2, <1>4, <1>5 DEF Active, Fields, Shape
<1>7. World' /\ KeepsAlive
  BY <1>3, WorldStays DEF DapInv
<1>8. Steady(q, endpoint', adapter', lives')
  BY <1>3, <1>4, <1>6 DEF Steady
<1> QED
  BY <1>3, <1>6, <1>7, <1>8, CallMoves DEF Kept

\* Steps that leave the calls alone may only move workers that have none.
LEMMA ServingKeeps ==
    ASSUME DapInv, UNCHANGED dapVars,
           \A w \in Workers : worker[w] = "handle" /\ call[w] # Idle => worker'[w] = "handle"
    PROVE  Kept
<1>1. UNCHANGED <<endpoint, adapter, lives, registry, bootstrapped, attach, call>>
  BY DEF dapVars
<1>2. World'
  BY <1>1, WorldStays DEF DapInv
<1> QED
  BY <1>1, <1>2 DEF DapInv, Calls, Busy, Clean, Kept

LEMMA AnswerCallKeeps ==
    ASSUME DapInv, NEW c \in Workers, AnswerCall(c)
    PROVE  Kept
<1>1. /\ call' = [call EXCEPT ![c] = Idle] /\ \A w \in Workers \ {c} : worker'[w] = worker[w]
      /\ UNCHANGED <<endpoint, adapter, lives, registry, bootstrapped, attach>>
  BY DEF AnswerCall, Handled, Become
<1>2. World'
  BY <1>1, WorldStays DEF DapInv
<1>3. Idle \notin Active /\ Idle.step # "done"
  BY DEF Idle, Active, Fields
<1>4. /\ call' \in [Workers -> {Idle} \union Active \union Finished] /\ call'[c] = Idle
      /\ \A w \in Workers \ {c} : call'[w] = call[w]
  BY <1>1 DEF DapInv, Calls
<1>5. Calls'
  BY <1>1, <1>3, <1>4 DEF DapInv, Calls, Steady
<1>6. Busy'
  BY <1>1, <1>4 DEF DapInv, Busy
<1>7. Clean
  BY <1>3, <1>4 DEF Clean
<1> QED
  BY <1>2, <1>5, <1>6, <1>7 DEF Kept

LEMMA ServeKeeps ==
    ASSUME HttpInv, DapInv, NEW w \in Workers, Serve(w)
    PROVE  Kept
<1>1. worker \in [Workers -> {"idle", "handle", "respond", "gone"}]
  BY DEF HttpInv, HttpTypeOK
<1>2. CASE LockReceiver(w) /\ UNCHANGED dapVars
  BY <1>2, ServingKeeps DEF LockReceiver
<1>3. CASE Take(w) /\ UNCHANGED dapVars
  BY <1>1, <1>3, ServingKeeps DEF Take
<1>4. CASE Respond(w) /\ UNCHANGED dapVars
  BY <1>1, <1>4, ServingKeeps DEF Respond
<1>5. CASE Leave(w) /\ UNCHANGED dapVars
  <2>1. worker[w] = "idle"
    BY <1>5, ServerAssumption DEF Leave, HttpInv, Waits
  <2> QED
    BY <1>1, <1>5, <2>1, ServingKeeps DEF Leave
<1>6. CASE AnswerOther(w)
  <2>1. call[w] = Idle
    BY <1>6, ByStep DEF AnswerOther, At, DapInv, Calls
  <2> QED
    BY <1>1, <1>6, <2>1, ServingKeeps DEF AnswerOther, Handled
<1>7. CASE CallStep(w) /\ UNCHANGED httpVars
  <2>1. UNCHANGED worker
    BY <1>7 DEF httpVars
  <2> QED
    BY <1>7, <2>1, FlagKeeps, LookupKeeps, ConnectKeeps, InsertKeeps, SendAnsweredKeeps, SendRefusedKeeps,
       SendTimesOutKeeps, SendFailsKeeps, DropSessionKeeps, PopEventsKeeps, RegisterChildKeeps, UnregisterChildKeeps
    DEF CallStep
<1> QED
  BY <1>2, <1>3, <1>4, <1>5, <1>6, <1>7, DispatchKeeps, AnswerCallKeeps DEF Serve

LEMMA StepKeeps ==
    ASSUME HttpInv, DapInv, [Next]_vars
    PROVE  Kept
<1>1. CASE (Accept \/ CountRefused \/ CloseQueue) /\ UNCHANGED dapVars
  <2>1. UNCHANGED worker
    BY <1>1 DEF Accept, CountRefused, CloseQueue
  <2> QED
    BY <1>1, <2>1, ServingKeeps
<1>2. CASE Adapters /\ UNCHANGED httpVars
  BY <1>2, AdaptersKeep DEF httpVars
<1>3. CASE UNCHANGED vars
  <2>1. UNCHANGED dapVars /\ UNCHANGED worker
    BY <1>3 DEF vars, httpVars
  <2> QED
    BY <2>1, ServingKeeps
<1> QED
  BY <1>1, <1>2, <1>3, ServeKeeps DEF Next

LEMMA DapInitHolds ==
    ASSUME DapInit
    PROVE  DapInv
<1>1. Cardinality(Sessions) \in Nat
  BY RegistryAssumption, FS_CardinalityType
<1> DEFINE n == Cardinality(Sessions)
<1>2. lives = [l \in 1 .. n |->
        [session |-> CHOOSE s \in Sessions : StartPort[s] = l, ready |-> FALSE, epoch |-> 0]]
  BY RegistryAssumption DEF DapInit
<1>3. ASSUME NEW l \in 1 .. n
      PROVE  (CHOOSE s \in Sessions : StartPort[s] = l) \in Sessions
  <2>1. \E s \in Sessions : StartPort[s] = l
    BY RegistryAssumption
  <2> QED
    BY <2>1
<1> HIDE DEF n
<1>4. \A l \in 1 .. n : lives[l] \in Adapter
  BY <1>2, <1>3 DEF Adapter, Ids
<1>5. lives \in Seq(Adapter) /\ Lives = 1 .. n
  BY <1>1, <1>2, <1>4 DEF n, Lives
<1>6. World
  <2>1. endpoint \in [Ids -> Ports \union {NoPort}] /\ \A s \in Sessions : endpoint[s] # NoPort
    BY RegistryAssumption DEF DapInit, Ids
  <2>2. \A p \in Ports : adapter[p] = IF p \in Lives THEN p ELSE 0
    BY DEF DapInit, Lives
  <2>3. adapter \in [Ports -> {0} \union Lives]
    BY DEF DapInit, Lives
  <2>4. \A p, q \in Ports : adapter[p] = adapter[q] /\ adapter[p] # 0 => p = q
    BY <2>2
  <2> QED
    BY <1>5, <2>1, <2>3, <2>4 DEF DapInit, World
<1>7. \A w \in Workers : call[w] = Idle
  BY DebugAssumption DEF DapInit
<1>8. Idle \notin Active
  BY DEF Idle, Active, Fields
<1>9. Calls
  BY <1>7, <1>8, DebugAssumption DEF DapInit, Calls, Steady
<1> QED
  BY <1>6, <1>7, <1>9 DEF DapInv, Busy

-----------------------------------------------------------------------------
(* A call without a fault meets nothing that could make it fail *)

\* Up, of any adapters.
Open(k, a, l) == k # NoConn /\ a[k.port] = k.life /\ l[k.life].epoch = k.epoch

\* The connection is one a request on s may use, or one that Matches turns down.
Safe(k, s, e, a, l) == k.port = e[s] => Open(k, a, l)

\* No thread is about to register a closed connection to the adapter of s.
Guarded(s, e, a, l, m) ==
    \A d \in Workers : m[d].step = "insert" /\ m[d].session = s => Safe(m[d].conn, s, e, a, l)

\* Only the first try may meet a closed connection, and the last attempt an adapter that has
\* been bootstrapped.
Fine(r, e, a, l, g) ==
    /\ r.step # "unregister"
    /\ r.step = "drop" => r.try = 1
    /\ r.step = "send" => r.op # "events" /\ (r.op = "adopt" => r.boot = "child")
    /\ r.step = "send" /\ r.try = 2 => Open(r.conn, a, l)
    /\ r.try = 2 => Safe(g[r.session], r.session, e, a, l)
    /\ (r.level = 3 /\ r.boot = "no") \/ r.step = "flag" => l[a[e[r.session]]].ready

\* When a bootstrap may be refused is the matter of FirstBoot, below.
Good == {"ok", "no event", "no id", "refused"}

Well(r, e, a, l, g, m) ==
    /\ r \in Active /\ ~r.fault => Guarded(r.session, e, a, l, m) /\ Fine(r, e, a, l, g)
    /\ r \in Finished /\ ~r.fault => r.result \in Good

Healthy == \A w \in Workers : Well(call[w], endpoint, adapter, lives, registry, call)

\* What a step of anybody else leaves to the calls on s.
Undisturbed(s) ==
    /\ endpoint'[s] = endpoint[s]
    /\ \A k \in Real \union {NoConn} :
         Safe(k, s, endpoint, adapter, lives) => Safe(k, s, endpoint', adapter', lives')
    /\ lives[adapter[endpoint[s]]].ready => lives'[adapter'[endpoint'[s]]].ready

\* A proxy is dropped, or replaced by the connection a thread was about to register.
RegistryMoves ==
    \A s \in Ids :
      \/ registry'[s] \in {registry[s], NoConn}
      \/ \E d \in Workers : call[d].step = "insert" /\ call[d].session = s /\ registry'[s] = call[d].conn

\* A connection that a thread is about to register has been made in this step, or was before.
InsertsMove ==
    \A d \in Workers : call'[d].step = "insert" =>
      \/ call[d].step = "insert" /\ call'[d].session = call[d].session /\ call'[d].conn = call[d].conn
      \/ Open(call'[d].conn, adapter', lives')

LEMMA GuardKept ==
    ASSUME DapInv, NEW s \in Ids, Reaches(s, endpoint, adapter, lives), Undisturbed(s),
           Guarded(s, endpoint, adapter, lives, call), RegistryMoves, InsertsMove
    PROVE  /\ Guarded(s, endpoint', adapter', lives', call')
           /\ Safe(registry[s], s, endpoint, adapter, lives)
                => Safe(registry'[s], s, endpoint', adapter', lives')
<1>1. ASSUME NEW d \in Workers, call[d].step = "insert", call[d].session = s
      PROVE  Safe(call[d].conn, s, endpoint', adapter', lives')
  <2>1. call[d] \in Active
    BY <1>1, ByStep DEF DapInv, Calls
  <2>2. call[d].conn \in Real \union {NoConn}
    BY <2>1 DEF Active, Fields
  <2>3. Safe(call[d].conn, s, endpoint, adapter, lives)
    BY <1>1 DEF Guarded
  <2> QED
    BY <2>2, <2>3 DEF Undisturbed
<1>2. Guarded(s, endpoint', adapter', lives', call')
  <2>1. ASSUME NEW d \in Workers, call'[d].step = "insert", call'[d].session = s
        PROVE  Safe(call'[d].conn, s, endpoint', adapter', lives')
    <3>1. CASE call[d].step = "insert" /\ call'[d].session = call[d].session /\ call'[d].conn = call[d].conn
      BY <1>1, <2>1, <3>1
    <3>2. CASE Open(call'[d].conn, adapter', lives')
      BY <3>2 DEF Safe
    <3> QED
      BY <2>1, <3>1, <3>2 DEF InsertsMove
  <2> QED
    BY <2>1 DEF Guarded
<1>3. ASSUME Safe(registry[s], s, endpoint, adapter, lives)
      PROVE  Safe(registry'[s], s, endpoint', adapter', lives')
  <2>1. registry[s] \in Real \union {NoConn}
    BY DEF DapInv, World
  <2>2. Safe(registry[s], s, endpoint', adapter', lives')
    BY <1>3, <2>1 DEF Undisturbed
  <2>3. Safe(NoConn, s, endpoint', adapter', lives')
    BY DEF NoConn, Safe, Reaches, Undisturbed
  <2> QED
    BY <1>1, <2>2, <2>3 DEF RegistryMoves
<1> QED
  BY <1>2, <1>3

\* A call that takes no step stays well.
LEMMA StaysWell ==
    ASSUME DapInv, Healthy, RegistryMoves, InsertsMove, NEW w \in Workers,
           call[w] \in Active /\ ~call[w].fault => Undisturbed(call[w].session)
    PROVE  Well(call[w], endpoint', adapter', lives', registry', call')
<1> DEFINE r == call[w]
<1>1. Well(r, endpoint, adapter, lives, registry, call) /\ Steady(r, endpoint, adapter, lives)
  BY DEF Healthy, DapInv, Calls
<1>2. CASE r \in Active /\ ~r.fault
  <2>1. /\ r.session \in Ids /\ r.conn \in Real \union {NoConn} /\ Undisturbed(r.session)
        /\ Reaches(r.session, endpoint, adapter, lives)
        /\ r.step = "send" => r.conn.port = endpoint[r.session]
    BY <1>1, <1>2 DEF Active, Fields, Steady
  <2>2. Guarded(r.session, endpoint, adapter, lives, call) /\ Fine(r, endpoint, adapter, lives, registry)
    BY <1>1, <1>2 DEF Well
  <2> HIDE DEF r
  <2>3. /\ Guarded(r.session, endpoint', adapter', lives', call')
        /\ Safe(registry[r.session], r.session, endpoint, adapter, lives)
             => Safe(registry'[r.session], r.session, endpoint', adapter', lives')
    BY <2>1, <2>2, GuardKept
  <2>4. r.step = "send" /\ r.try = 2 => Open(r.conn, adapter', lives')
    <3>1. Open(r.conn, adapter, lives) => Safe(r.conn, r.session, endpoint, adapter, lives)
      BY DEF Safe
    <3>2. Safe(r.conn, r.session, endpoint, adapter, lives)
            => Safe(r.conn, r.session, endpoint', adapter', lives')
      BY <2>1 DEF Undisturbed
    <3>3. endpoint'[r.session] = endpoint[r.session]
      BY <2>1 DEF Undisturbed
    <3>4. r.step = "send" /\ r.try = 2 => Open(r.conn, adapter, lives)
      BY <2>2 DEF Fine
    <3>5. r.step = "send" /\ Safe(r.conn, r.session, endpoint', adapter', lives')
            => Open(r.conn, adapter', lives')
      BY <2>1, <3>3 DEF Safe
    <3> QED
      BY <3>1, <3>2, <3>4, <3>5
  <2>5. Fine(r, endpoint', adapter', lives', registry')
    BY <2>1, <2>2, <2>3, <2>4 DEF Fine, Undisturbed
  <2>6. r \notin Finished
    BY <1>2 DEF Active, Fields, Finished
  <2> QED
    BY <2>3, <2>5, <2>6 DEF Well, r
<1>3. CASE ~(r \in Active /\ ~r.fault)
  BY <1>1, <1>3 DEF Well
<1> QED
  BY <1>2, <1>3

\* A call takes a step.
LEMMA MovesWell ==
    ASSUME DapInv, Healthy, RegistryMoves, NEW c \in Workers, call[c] \in Active, NEW q,
           call' = [call EXCEPT ![c] = q],
           \A s \in Ids : Reaches(s, endpoint, adapter, lives) => Undisturbed(s),
           q.step = "insert" => Open(q.conn, adapter', lives'),
           q \in Active => q.session = call[c].session /\ (call[c].fault => q.fault),
           q \in Active /\ ~q.fault => Fine(q, endpoint', adapter', lives', registry'),
           q \in Finished /\ ~q.fault => q.result \in Good
    PROVE  Healthy'
<1>1. /\ call'[c] = q /\ \A w \in Workers \ {c} : call'[w] = call[w]
  BY DEF DapInv, Calls
<1>2. InsertsMove
  BY <1>1 DEF InsertsMove
<1>3. ASSUME NEW w \in Workers, call[w] \in Active, ~call[w].fault
      PROVE  call[w].session \in Ids /\ Reaches(call[w].session, endpoint, adapter, lives)
  BY <1>3 DEF DapInv, Calls, Steady, Active, Fields
<1>4. ASSUME NEW w \in Workers \ {c}
      PROVE  Well(call'[w], endpoint', adapter', lives', registry', call')
  BY <1>1, <1>2, <1>3, StaysWell
<1>5. ASSUME q \in Active, ~q.fault
      PROVE  Guarded(q.session, endpoint', adapter', lives', call')
  <2>1. q.session = call[c].session /\ ~call[c].fault
    BY <1>5
  <2>2. Guarded(call[c].session, endpoint, adapter, lives, call)
    BY <2>1 DEF Healthy, Well
  <2> QED
    BY <1>2, <1>3, <2>1, <2>2, GuardKept
<1>6. Well(q, endpoint', adapter', lives', registry', call')
  BY <1>5 DEF Well
<1> QED
  BY <1>1, <1>4, <1>6 DEF Healthy

\* Whoever reaches an adapter notices nothing of the step.
Quiet == \A s \in Ids : Reaches(s, endpoint, adapter, lives) => Undisturbed(s)

\* The adapter of s is the same one, and has not hung up.
LEMMA SameAdapter ==
    ASSUME World, NEW s \in Ids, Reaches(s, endpoint, adapter, lives),
           endpoint'[s] = endpoint[s], adapter'[endpoint[s]] = adapter[endpoint[s]],
           lives'[adapter[endpoint[s]]].epoch = lives[adapter[endpoint[s]]].epoch,
           lives[adapter[endpoint[s]]].ready => lives'[adapter[endpoint[s]]].ready
    PROVE  Undisturbed(s)
  BY DEF Undisturbed, Safe, Open

LEMMA NoneDisturbed ==
    ASSUME World, UNCHANGED <<endpoint, adapter, lives>>
    PROVE  Quiet
  BY SameAdapter DEF Quiet

\* A call that is on its way from the record to a proxy, or begins again, is as well as before.
LEMMA RestsFine ==
    ASSUME World, NEW r \in Active, NEW q \in Active, Fine(r, endpoint, adapter, lives, registry),
           Undisturbed(r.session), UNCHANGED registry, q.session = r.session,
           q.step \notin {"unregister", "drop", "send", "flag"}, q.try = 2 => r.try = 2,
           q.level = 3 /\ q.boot = "no" => (r.level = 3 /\ r.boot = "no") \/ r.step = "flag"
    PROVE  Fine(q, endpoint', adapter', lives', registry')
<1>1. registry[r.session] \in Real \union {NoConn}
  BY DEF World, Active, Fields
<1>2. r.try = 2 => Safe(registry'[r.session], r.session, endpoint', adapter', lives')
  BY <1>1 DEF Fine, Undisturbed
<1> QED
  BY <1>2 DEF Fine, Undisturbed

LEMMA FaultlessCall ==
    ASSUME DapInv, Healthy, NEW c \in Workers, call[c] \in Active, ~call[c].fault
    PROVE  /\ call[c].session \in Ids
           /\ Reaches(call[c].session, endpoint, adapter, lives)
           /\ Fine(call[c], endpoint, adapter, lives, registry)
           /\ Guarded(call[c].session, endpoint, adapter, lives, call)
  BY DEF DapInv, Calls, Steady, Healthy, Well, Active, Fields

\* A call that had a fault, or ends well, or rests.
LEMMA FollowsWell ==
    ASSUME DapInv, Healthy, Quiet, RegistryMoves, NEW c \in Workers, call[c] \in Active, NEW q,
           Follows(q, call[c]), call' = [call EXCEPT ![c] = q],
           ~call[c].fault =>
             \/ q \in Active /\ Fine(q, endpoint', adapter', lives', registry')
             \/ q \in Finished /\ q.result \in Good
    PROVE  Healthy'
<1>1. /\ q \in Active => q \notin Finished /\ q.session = call[c].session
      /\ q.step # "insert" /\ (call[c].fault => q.fault)
  BY DEF Follows, Active, Fields, Finished
<1>2. /\ q \in Active /\ ~q.fault => Fine(q, endpoint', adapter', lives', registry')
      /\ q \in Finished /\ ~q.fault => q.result \in Good
  BY <1>1
<1> QED
  BY <1>1, <1>2, MovesWell DEF Quiet

LEMMA FlagHealthy ==
    ASSUME DapInv, Healthy, NEW c \in Workers, Flag(c)
    PROVE  Healthy'
<1> DEFINE r == call[c]
           q == NextLevel(r, r.level)
<1>1. r \in Active /\ r.step = "flag" /\ r.level \in 1 .. 3
  BY CallAt DEF Flag, Active, Fields
<1>2. UNCHANGED <<endpoint, adapter, lives, registry>> /\ call' = [call EXCEPT ![c] = q]
  BY DEF Flag, Become
<1>3. Quiet /\ RegistryMoves
  BY <1>2, NoneDisturbed DEF DapInv, RegistryMoves
<1>4. ~r.fault => Fine(q, endpoint', adapter', lives', registry')
  <2>1. /\ q \in Active /\ q.step = "lookup" /\ q.try = 1 /\ q.session = r.session
        /\ q.boot = "no" /\ q.level = r.level
    BY <1>1, NextLevelKeeps
  <2>2. ~r.fault => Fine(r, endpoint, adapter, lives, registry) /\ Undisturbed(r.session)
    BY <1>1, <1>3, FaultlessCall DEF Quiet
  <2> HIDE DEF r, q
  <2> QED
    BY <1>1, <1>2, <2>1, <2>2, RestsFine DEF DapInv
<1>5. Follows(q, r) /\ q \in Active
  BY <1>1, NextLevelFollows, NextLevelKeeps
<1> QED
  BY <1>1, <1>2, <1>3, <1>4, <1>5, FollowsWell

LEMMA LookupHealthy ==
    ASSUME DapInv, Healthy, NEW c \in Workers, Lookup(c)
    PROVE  Healthy'
<1> DEFINE old == call[c]
           r == IF NeedsBootstrap(old) THEN [old EXCEPT !.boot = "eager"] ELSE old
           p == endpoint[r.session]
           k == registry[r.session]
<1>1. /\ old \in Active /\ old.step = "lookup"
  BY CallAt DEF Lookup
<1>2. /\ r \in Active /\ r.step = "lookup" /\ r.session = old.session /\ r.fault = old.fault
      /\ r.op = old.op /\ r.try = old.try /\ r.level = old.level /\ r.boot \in {old.boot, "eager"}
  BY <1>1 DEF NeedsBootstrap, Active, Fields, Shape
<1>3. old.session \in Ids /\ p \in Ports \union {NoPort} /\ k \in Real \union {NoConn}
  BY <1>1, <1>2 DEF Active, Fields, DapInv, World
<1>4. UNCHANGED <<endpoint, adapter, lives, registry>>
  BY DEF Lookup
<1>5. Quiet /\ RegistryMoves
  BY <1>4, NoneDisturbed DEF DapInv, RegistryMoves
<1>6. call' = [call EXCEPT ![c] =
        IF p = NoPort THEN AfterError(r, "not found")
        ELSE IF Matches(k, p) THEN HaveProxy(r, k)
        ELSE [r EXCEPT !.step = "connect", !.port = p]]
  BY DEF Lookup, Become
<1>7. ~old.fault => /\ Reaches(old.session, endpoint, adapter, lives) /\ Undisturbed(old.session)
                    /\ Fine(old, endpoint, adapter, lives, registry)
  BY <1>1, <1>5, FaultlessCall DEF Quiet
<1> HIDE DEF r
<1>8. CASE p = NoPort
  <2>1. Follows(AfterError(r, "not found"), old)
    BY <1>2, AfterErrorFollows DEF Follows, Errors
  <2>2. old.fault
    BY <1>2, <1>7, <1>8 DEF Reaches
  <2> QED
    BY <1>1, <1>5, <1>6, <1>8, <2>1, <2>2, FollowsWell
<1>9. CASE p # NoPort /\ Matches(k, p)
  <2> DEFINE q == HaveProxy(r, k)
  <2>1. /\ q \in Active /\ q.step \in {"pop", "send"} /\ q.session = old.session /\ q.fault = old.fault
        /\ q.conn = k /\ q.level = old.level /\ q.try = old.try /\ q.boot \in {old.boot, "eager"}
        /\ q.step = "send" => q.op # "events" /\ (q.op = "adopt" => q.boot = "child")
    BY <1>2, <1>3, HaveProxyKeeps
  <2>2. call' = [call EXCEPT ![c] = q]
    BY <1>6, <1>9
  <2> HIDE DEF q
  <2>3. q \notin Finished
    BY <2>1 DEF Finished
  <2>4. ASSUME ~q.fault
        PROVE  Fine(q, endpoint', adapter', lives', registry')
    <3>1. Fine(old, endpoint, adapter, lives, registry)
      BY <1>7, <2>1, <2>4
    <3>2. q.try = 2 => Safe(k, old.session, endpoint, adapter, lives)
      BY <1>2, <2>1, <3>1 DEF Fine
    <3>3. q.try = 2 => Open(k, adapter, lives)
      BY <1>2, <1>9, <3>2 DEF Safe, Matches
    <3> QED
      BY <1>1, <1>4, <2>1, <3>1, <3>3 DEF Fine
  <2> QED
    BY <1>1, <1>5, <2>1, <2>2, <2>3, <2>4, MovesWell DEF Quiet
<1>10. CASE p # NoPort /\ ~Matches(k, p)
  <2> DEFINE q == [r EXCEPT !.step = "connect", !.port = p]
  <2>1. /\ q \in Active /\ q.step = "connect" /\ q.session = old.session /\ q.fault = old.fault
        /\ q.level = old.level /\ q.try = old.try /\ q.boot \in {old.boot, "eager"}
    <3>1. r \in Fields /\ Shape(r)
      BY <1>2, <1>3, <1>10 DEF Active
    <3>2. q \in Fields
      BY <1>2, <1>3, <1>10, <3>1 DEF Fields
    <3>3. /\ q.step = "connect" /\ q.session = old.session /\ q.fault = old.fault
          /\ q.level = old.level /\ q.try = old.try /\ q.boot \in {old.boot, "eager"}
          /\ q.op = r.op /\ q.boot = r.boot /\ q.session = r.session /\ q.port = p
      BY <1>2, <1>3, <1>10, <3>1 DEF Fields
    <3> HIDE DEF q
    <3>4. Shape(q)
      BY <1>2, <1>3, <1>10, <3>1, <3>3 DEF Shape
    <3> QED
      BY <3>2, <3>3, <3>4 DEF Active
  <2>2. call' = [call EXCEPT ![c] = q]
    BY <1>6, <1>10
  <2> HIDE DEF q
  <2>3. q \notin Finished
    BY <2>1 DEF Finished
  <2>4. ~q.fault => Fine(q, endpoint', adapter', lives', registry')
    BY <1>1, <1>4, <1>7, <2>1, RestsFine DEF DapInv
  <2> QED
    BY <1>1, <1>5, <2>1, <2>2, <2>3, <2>4, MovesWell DEF Quiet
<1> QED
  BY <1>8, <1>9, <1>10

LEMMA ConnectHealthy ==
    ASSUME DapInv, Healthy, NEW c \in Workers, Connect(c)
    PROVE  Healthy'
<1> DEFINE old == call[c]
           p == old.port
<1>1. /\ old \in Active /\ old.step = "connect" /\ Steady(old, endpoint, adapter, lives)
  BY CallAt DEF Connect
<1>2. p \in Ports
  BY <1>1 DEF Active, Shape
<1>3. UNCHANGED <<endpoint, adapter, lives, registry>>
  BY DEF Connect
<1>4. Quiet /\ RegistryMoves
  BY <1>3, NoneDisturbed DEF DapInv, RegistryMoves
<1>5. call' = [call EXCEPT ![c] =
        IF adapter[p] = 0 THEN AfterError(old, "broken")
        ELSE [old EXCEPT !.step = "insert", !.port = NoPort, !.conn = Connection(p)]]
  BY DEF Connect, Become
<1>6. ~old.fault => /\ Reaches(old.session, endpoint, adapter, lives) /\ Undisturbed(old.session)
                    /\ Fine(old, endpoint, adapter, lives, registry) /\ p = endpoint[old.session]
  BY <1>1, <1>4, FaultlessCall DEF Quiet, Steady
<1> HIDE DEF old
<1>7. CASE adapter[p] = 0
  <2>1. Follows(AfterError(old, "broken"), old)
    BY <1>1, AfterErrorFollows DEF Errors
  <2>2. old.fault
    BY <1>6, <1>7 DEF Reaches
  <2> QED
    BY <1>1, <1>4, <1>5, <1>7, <2>1, <2>2, FollowsWell DEF old
<1>8. CASE adapter[p] # 0
  <2> DEFINE k == Connection(p)
             q == [old EXCEPT !.step = "insert", !.port = NoPort, !.conn = k]
  <2>1. k \in Real /\ Open(k, adapter, lives)
    <3>1. adapter[p] \in Nat \ {0} /\ lives[adapter[p]] \in Adapter
      BY <1>2, <1>8 DEF DapInv, World, Lives
    <3> QED
      BY <1>2, <3>1 DEF Connection, Real, Adapter, Open, NoConn
  <2> HIDE DEF k
  <2>2. /\ q \in Active /\ q.step = "insert" /\ q.session = old.session /\ q.fault = old.fault
        /\ q.conn = k /\ q.level = old.level /\ q.try = old.try /\ q.boot = old.boot
    <3>1. old \in Fields /\ Shape(old)
      BY <1>1, <2>1 DEF Active
    <3>2. q \in Fields
      BY <1>1, <2>1, <3>1 DEF Fields
    <3>3. /\ q.step = "insert" /\ q.session = old.session /\ q.fault = old.fault /\ q.conn = k
          /\ q.level = old.level /\ q.try = old.try /\ q.boot = old.boot /\ q.op = old.op
      BY <1>1, <2>1, <3>1 DEF Fields
    <3> HIDE DEF q
    <3>4. Shape(q)
      BY <1>1, <2>1, <3>1, <3>3 DEF Shape
    <3> QED
      BY <3>2, <3>3, <3>4 DEF Active
  <2>3. call' = [call EXCEPT ![c] = q]
    BY <1>5, <1>8 DEF k
  <2> HIDE DEF q
  <2>4. q \notin Finished
    BY <2>2 DEF Finished
  <2>5. ~q.fault => Fine(q, endpoint', adapter', lives', registry')
    BY <1>1, <1>3, <1>6, <2>2, RestsFine DEF DapInv
  <2>6. Open(q.conn, adapter', lives')
    BY <1>3, <2>1, <2>2
  <2> QED
    BY <1>1, <1>4, <2>2, <2>3, <2>4, <2>5, <2>6, MovesWell DEF Quiet, old
<1> QED
  BY <1>7, <1>8

LEMMA InsertHealthy ==
    ASSUME DapInv, Healthy, NEW c \in Workers, Insert(c)
    PROVE  Healthy'
<1> DEFINE old == call[c]
           k == old.conn
           q == HaveProxy(old, k)
<1>1. /\ old \in Active /\ old.step = "insert" /\ Steady(old, endpoint, adapter, lives)
  BY CallAt DEF Insert
<1>2. k \in Real \union {NoConn} /\ old.session \in Ids
  BY <1>1 DEF Active, Fields
<1>3. /\ UNCHANGED <<endpoint, adapter, lives>> /\ registry' = [registry EXCEPT ![old.session] = k]
      /\ call' = [call EXCEPT ![c] = q]
  BY DEF Insert, Become
<1>4. Quiet
  BY <1>3, NoneDisturbed DEF DapInv
<1>5. RegistryMoves
  BY <1>1, <1>2, <1>3 DEF RegistryMoves, DapInv, World
<1>6. registry'[old.session] = k
  BY <1>2, <1>3 DEF DapInv, World
<1>7. /\ q \in Active /\ q.step \in {"pop", "send"} /\ q.session = old.session /\ q.fault = old.fault
      /\ q.conn = k /\ q.level = old.level /\ q.try = old.try /\ q.boot = old.boot
      /\ q.step = "send" => q.op # "events" /\ (q.op = "adopt" => q.boot = "child")
  BY <1>1, <1>2, HaveProxyKeeps
<1>8. ~old.fault => /\ Fine(old, endpoint, adapter, lives, registry)
                    /\ Safe(k, old.session, endpoint, adapter, lives) /\ k.port = endpoint[old.session]
  BY <1>1, FaultlessCall DEF Guarded, Steady
<1> HIDE DEF q
<1>9. q \notin Finished
  BY <1>7 DEF Finished
<1>10. ~q.fault => Fine(q, endpoint', adapter', lives', registry')
  BY <1>1, <1>3, <1>6, <1>7, <1>8 DEF Fine, Safe
<1> QED
  BY <1>1, <1>3, <1>4, <1>5, <1>7, <1>9, <1>10, MovesWell DEF Quiet

LEMMA SendAnsweredHealthy ==
    ASSUME DapInv, Healthy, NEW c \in Workers, SendAnswered(c)
    PROVE  Healthy'
<1> DEFINE old == call[c]
           k == old.conn
           q == AfterAnswer(Counted(old), Answer(old))
<1>1. old \in Active /\ old.step = "send" /\ Steady(old, endpoint, adapter, lives)
  BY CallAt DEF SendAnswered
<1>2. k \in Real /\ k.life \in Lives /\ adapter[k.port] = k.life
  <2>1. k \in Real \union {NoConn} /\ Up(k)
    BY <1>1 DEF SendAnswered, Active, Fields
  <2>2. k \in Real /\ adapter[k.port] = k.life
    BY <2>1 DEF Up
  <2> QED
    BY <2>2 DEF Real, DapInv, World
<1>3. /\ UNCHANGED <<endpoint, adapter, registry>>
      /\ lives' = IF Bootstraps(old) THEN [lives EXCEPT ![k.life].ready = TRUE] ELSE lives
      /\ call' = [call EXCEPT ![c] = q]
  BY DEF SendAnswered, Become
<1>4. Bootstraps(old) => lives'[k.life].ready
  <2>1. lives[k.life] \in Adapter
    BY <1>2 DEF DapInv, World, Lives
  <2> QED
    BY <1>2, <1>3, <2>1 DEF Adapter, Lives
<1>5. ASSUME NEW l \in Lives
      PROVE  lives'[l].epoch = lives[l].epoch /\ (lives[l].ready => lives'[l].ready)
  <2>1. lives[l] \in Adapter
    BY DEF DapInv, World, Lives
  <2> QED
    BY <1>2, <1>3, <2>1 DEF Adapter, Lives
<1>6. Quiet /\ RegistryMoves
  <2>1. ASSUME NEW s \in Ids, Reaches(s, endpoint, adapter, lives)
        PROVE  Undisturbed(s)
    <3>1. endpoint[s] \in Ports /\ adapter[endpoint[s]] \in Lives
      BY <2>1 DEF Reaches, DapInv, World
    <3> QED
      BY <1>3, <1>5, <2>1, <3>1, SameAdapter DEF DapInv
  <2> QED
    BY <1>3, <2>1 DEF Quiet, RegistryMoves
<1>7. Follows(q, old)
  BY <1>1, AfterAnswerFollows
<1>8. ASSUME ~old.fault
      PROVE  \/ q \in Active /\ Fine(q, endpoint', adapter', lives', registry')
             \/ q \in Finished /\ q.result \in Good
  <2>1. /\ Fine(old, endpoint, adapter, lives, registry) /\ Undisturbed(old.session)
        /\ k.port = endpoint[old.session] /\ old.session \in Ids
    BY <1>1, <1>6, <1>8, FaultlessCall DEF Quiet, Steady
  <2>2. old.op # "events" /\ (old.op = "adopt" => old.boot = "child")
    BY <1>1, <2>1 DEF Fine
  <2>3. CASE ~Bootstraps(old) /\ Ready(old)
    <3>1. Answer(old) = "ok" /\ old.boot = "no"
      BY <2>3 DEF Answer, Bootstraps
    <3>2. Counted(old).boot = "no" /\ Counted(old) \in {old, [old EXCEPT !.ran = 1]}
      BY <1>1, <3>1 DEF Counted, Active, Fields
    <3>3. q = Ended(Counted(old), "ok")
      BY <3>1, <3>2 DEF AfterAnswer
    <3>4. q.step = "done" /\ q.result = "ok"
      BY <3>3 DEF Ended
    <3>5. q \notin Active
      BY <3>4 DEF Active, Fields
    <3> QED
      BY <1>7, <3>4, <3>5 DEF Follows, Good
  <2>4. CASE Bootstraps(old)
    <3>1. Counted(old) = old /\ Answer(old) = "ok"
      BY <2>4 DEF Counted, Answer
    <3>2. CASE old.boot \in {"eager", "late"}
      <4>1. q = Plain(old, "flag")
        BY <3>1, <3>2 DEF AfterAnswer
      <4>2. /\ q \in Active /\ q.step = "flag" /\ q.session = old.session /\ q.try = old.try
            /\ q.level = old.level /\ q.boot = old.boot
        BY <1>1, <4>1, PlainKeeps
      <4>3. lives'[adapter'[endpoint'[q.session]]].ready
        BY <1>2, <1>3, <1>4, <2>1, <2>4, <4>2
      <4>4. registry[old.session] \in Real \union {NoConn}
        BY <2>1 DEF DapInv, World
      <4>5. q.try = 2 => Safe(registry'[q.session], q.session, endpoint', adapter', lives')
        BY <1>3, <2>1, <4>2, <4>4 DEF Fine, Undisturbed
      <4> HIDE DEF q
      <4> QED
        BY <4>2, <4>3, <4>5 DEF Fine
    <3>3. CASE old.boot \notin {"eager", "late"}
      <4>1. q = Ended(old, "ok")
        BY <3>1, <3>3 DEF AfterAnswer
      <4>2. q.step = "done" /\ q.result = "ok"
        BY <4>1 DEF Ended
      <4>3. q \notin Active
        BY <4>2 DEF Active, Fields
      <4> QED
        BY <1>7, <4>2, <4>3 DEF Follows, Good
    <3> QED
      BY <3>2, <3>3
  <2>5. CASE ~Bootstraps(old) /\ ~Ready(old)
    <3>1. Counted(old) = old /\ old.boot = "no" /\ old.op \in {"request", "handshake"}
      BY <1>1, <2>2, <2>5 DEF Counted, Bootstraps, Active, Fields, Operations
    <3>2. CASE old.op = "handshake"
      <4>1. q = Ended(old, "ok")
        BY <2>5, <3>1, <3>2 DEF Answer, AfterAnswer
      <4>2. q.step = "done" /\ q.result = "ok"
        BY <4>1 DEF Ended
      <4>3. q \notin Active
        BY <4>2 DEF Active, Fields
      <4> QED
        BY <1>7, <4>2, <4>3 DEF Follows, Good
    <3>3. CASE old.op = "request"
      <4>1. old.level \in 1 .. 3 /\ old.level # 3
        BY <1>1, <1>2, <2>1, <2>5, <3>1 DEF Fine, Ready, Active, Fields
      <4>2. q = LateBootstrap(old)
        BY <2>5, <3>1, <3>3, <4>1 DEF Answer, AfterAnswer
      <4>3. q \in Active /\ q.step = "lookup" /\ q.try = 1 /\ q.boot = "late" /\ q.session = old.session
        BY <1>1, <3>3, <4>2, LateKeeps
      <4> HIDE DEF q
      <4> QED
        BY <4>3 DEF Fine
    <3> QED
      BY <3>1, <3>2, <3>3
  <2> QED
    BY <2>3, <2>4, <2>5
<1> HIDE DEF q
<1> QED
  BY <1>1, <1>3, <1>6, <1>7, <1>8, FollowsWell

LEMMA SendRefusedHealthy ==
    ASSUME DapInv, Healthy, NEW c \in Workers, SendRefused(c)
    PROVE  Healthy'
<1> DEFINE old == call[c]
<1>1. old \in Active
  BY CallAt DEF SendRefused
<1>2. UNCHANGED <<endpoint, adapter, lives, registry>>
  BY DEF SendRefused
<1>3. Quiet /\ RegistryMoves
  BY <1>2, NoneDisturbed DEF DapInv, RegistryMoves
<1>4. PICK r \in {old, Fault(old)} : call' = [call EXCEPT ![c] = AfterRefusal(r)]
  BY DEF SendRefused, Become
<1>5. r \in Active /\ r.session = old.session /\ (old.fault => r.fault)
  BY <1>1, <1>4, FaultKeeps
<1> DEFINE q == AfterRefusal(r)
<1>6. q.step = "done" /\ q.result \in Good
  BY DEF AfterRefusal, Ended, Good
<1>7. Follows(q, old)
  BY <1>5, AfterRefusalFollows DEF Follows
<1> HIDE DEF q
<1>8. q \notin Active
  BY <1>6 DEF Active, Fields
<1>9. q \in Finished
  BY <1>7, <1>8 DEF Follows
<1> QED
  BY <1>1, <1>3, <1>4, <1>6, <1>7, <1>9, FollowsWell DEF q

LEMMA SendTimesOutHealthy ==
    ASSUME DapInv, Healthy, NEW c \in Workers, SendTimesOut(c)
    PROVE  Healthy'
<1> DEFINE old == call[c]
           q == FailedSend(Fault(old), "timeout")
<1>1. old \in Active
  BY CallAt DEF SendTimesOut
<1>2. UNCHANGED <<endpoint, adapter, lives, registry>> /\ call' = [call EXCEPT ![c] = q]
  BY DEF SendTimesOut, Become
<1>3. Quiet /\ RegistryMoves
  BY <1>2, NoneDisturbed DEF DapInv, RegistryMoves
<1>4. /\ Fault(old) \in Active /\ Fault(old).fault /\ Fault(old).session = old.session
  BY <1>1, FaultKeeps
<1>5. Follows(q, Fault(old))
  BY <1>4, FailedSendFollows DEF Errors
<1> HIDE DEF q
<1>6. q.fault /\ q.step # "insert" /\ (q \in Active => q.session = old.session)
  BY <1>4, <1>5 DEF Follows, Active, Fields, Finished
<1> QED
  BY <1>1, <1>2, <1>3, <1>6, MovesWell DEF Quiet

LEMMA SendFailsHealthy ==
    ASSUME DapInv, Healthy, NEW c \in Workers, SendFails(c)
    PROVE  Healthy'
<1> DEFINE old == call[c]
           q == FailedSend(old, "broken")
<1>1. old \in Active /\ old.step = "send" /\ ~Up(old.conn)
  BY CallAt DEF SendFails
<1>2. UNCHANGED <<endpoint, adapter, lives, registry>> /\ call' = [call EXCEPT ![c] = q]
  BY DEF SendFails, Become
<1>3. Quiet /\ RegistryMoves
  BY <1>2, NoneDisturbed DEF DapInv, RegistryMoves
<1>4. Follows(q, old)
  BY <1>1, FailedSendFollows DEF Errors
<1>5. ASSUME ~old.fault
      PROVE  q \in Active /\ Fine(q, endpoint', adapter', lives', registry')
  <2>1. old.try = 1 /\ (old.level = 3 /\ old.boot = "no" => lives[adapter[endpoint[old.session]]].ready)
    <3>1. Fine(old, endpoint, adapter, lives, registry) /\ old.try \in {1, 2}
      BY <1>1, <1>5, FaultlessCall DEF Active, Fields
    <3> QED
      BY <1>1, <3>1 DEF Fine, Up, Open
  <2> DEFINE x == Plain(old, "lookup")
  <2>2. /\ x \in Active /\ x.op = old.op /\ x.session = old.session /\ x.boot = old.boot
        /\ x.level = old.level /\ x.try = old.try
    BY <1>1, PlainKeeps
  <2>3. q = [x EXCEPT !.step = "drop", !.error = "broken"]
    BY <1>1 DEF FailedSend, Plain, Active, Fields
  <2> HIDE DEF x, q
  <2>4. /\ q \in Active /\ q.step = "drop" /\ q.session = old.session /\ q.boot = old.boot
        /\ q.level = old.level /\ q.try = old.try
    <3> DEFINE z == [x EXCEPT !.step = "drop", !.error = "broken"]
    <3>1. x \in Fields /\ Shape(x)
      BY <2>2 DEF Active
    <3>2. z \in Fields
      BY <3>1 DEF Fields, Errors
    <3>3. /\ z.step = "drop" /\ z.session = old.session /\ z.boot = old.boot /\ z.level = old.level
          /\ z.try = old.try /\ z.op = x.op /\ z.error = "broken" /\ z.session = x.session
      BY <2>2, <3>1 DEF Fields
    <3>4. q = z
      BY <2>3
    <3> HIDE DEF z
    <3>5. Shape(z)
      BY <2>2, <3>1, <3>3 DEF Shape
    <3> QED
      BY <3>2, <3>3, <3>4, <3>5 DEF Active
  <2> QED
    BY <1>2, <2>1, <2>4 DEF Fine
<1> HIDE DEF q
<1> QED
  BY <1>1, <1>2, <1>3, <1>4, <1>5, FollowsWell

LEMMA DropSessionHealthy ==
    ASSUME DapInv, Healthy, NEW c \in Workers, DropSession(c)
    PROVE  Healthy'
<1> DEFINE old == call[c]
           retry == [Looked(old) EXCEPT !.try = 2]
           q == IF old.try = 2 THEN AfterError(old, old.error) ELSE retry
<1>1. old \in Active /\ old.step = "drop"
  BY CallAt DEF DropSession
<1>2. old.error \in Errors /\ old.session \in Ids
  BY <1>1 DEF Active, Fields, Shape
<1>3. /\ UNCHANGED <<endpoint, adapter, lives>> /\ registry' = [registry EXCEPT ![old.session] = NoConn]
      /\ call' = [call EXCEPT ![c] = q]
  BY DEF DropSession, Become
<1>4. Quiet /\ RegistryMoves /\ registry'[old.session] = NoConn
  <2>1. Quiet
    BY <1>3, NoneDisturbed DEF DapInv
  <2> QED
    BY <1>2, <1>3, <2>1 DEF DapInv, World, RegistryMoves
<1>5. /\ retry \in Active /\ retry.step = "lookup" /\ retry.session = old.session
      /\ retry.fault = old.fault /\ retry.level = old.level /\ retry.boot = old.boot
  <2> DEFINE x == Looked(old)
  <2>1. /\ x \in Active /\ x.step = "lookup" /\ x.session = old.session /\ x.fault = old.fault
        /\ x.level = old.level /\ x.boot = old.boot
    BY <1>1, LookedKeeps
  <2> HIDE DEF x
  <2>2. LET a == [x EXCEPT !.try = 2] IN
        /\ a \in Active /\ a.step = "lookup" /\ a.session = old.session
        /\ a.fault = old.fault /\ a.level = old.level /\ a.boot = old.boot
    BY <2>1 DEF Active, Fields, Shape
  <2> QED
    BY <2>2 DEF x
<1> HIDE DEF retry
<1>6. Follows(q, old)
  <2>1. Follows(AfterError(old, old.error), old)
    BY <1>1, <1>2, AfterErrorFollows
  <2>2. Follows(retry, old)
    BY <1>5 DEF Follows
  <2> QED
    BY <2>1, <2>2
<1>7. ASSUME ~old.fault
      PROVE  q \in Active /\ Fine(q, endpoint', adapter', lives', registry')
  <2>1. /\ Fine(old, endpoint, adapter, lives, registry)
        /\ Reaches(old.session, endpoint, adapter, lives)
    BY <1>1, <1>7, FaultlessCall
  <2>2. q = retry
    BY <1>1, <2>1 DEF Fine
  <2>3. Safe(NoConn, old.session, endpoint, adapter, lives)
    BY <2>1 DEF Safe, Reaches, NoConn
  <2> HIDE DEF q
  <2> QED
    BY <1>3, <1>4, <1>5, <2>1, <2>2, <2>3 DEF Fine
<1> HIDE DEF q
<1> QED
  BY <1>1, <1>3, <1>4, <1>6, <1>7, FollowsWell

LEMMA PopEventsHealthy ==
    ASSUME DapInv, Healthy, NEW c \in Workers, PopEvents(c)
    PROVE  Healthy'
<1> DEFINE old == call[c]
           mine == {e \in attach : e.conn = old.conn}
<1>1. old \in Active /\ old.step = "pop"
  BY CallAt DEF PopEvents
<1>2. old.op \in {"events", "adopt"} /\ old.boot = "no"
  BY <1>1 DEF Active, Shape
<1>3. UNCHANGED <<endpoint, adapter, lives, registry>>
  BY DEF PopEvents
<1>4. Quiet /\ RegistryMoves
  BY <1>3, NoneDisturbed DEF DapInv, RegistryMoves
<1>5. CASE old.op = "events" \/ mine = {}
  <2>1. PICK result \in {"ok", "no event"} : call' = [call EXCEPT ![c] = Ended(old, result)]
    BY <1>5 DEF PopEvents, Become
  <2> DEFINE q == Ended(old, result)
  <2>2. Follows(q, old)
    BY <1>1, <1>2, EndedFollows
  <2>3. q.result = result /\ q.step = "done"
    BY DEF Ended
  <2> HIDE DEF q
  <2>4. q \in Finished /\ q.result \in Good
    BY <2>2, <2>3 DEF Follows, Good, Active, Fields
  <2> QED
    BY <1>1, <1>4, <2>1, <2>2, <2>4, FollowsWell DEF q
<1>6. CASE old.op = "adopt" /\ mine # {}
  <2>1. PICK latest \in mine :
          call' = [call EXCEPT ![c] = [Looked(old) EXCEPT !.step = "register", !.port = latest.port]]
    BY <1>6 DEF PopEvents, Become
  <2> DEFINE x == Looked(old)
             p == latest.port
             q == [x EXCEPT !.step = "register", !.port = p]
  <2>2. p \in Ports
    BY <2>1 DEF DapInv, World
  <2>3. /\ x \in Active /\ x.op = old.op /\ x.session = old.session /\ x.try = 1
        /\ x.boot = old.boot /\ x.fault = old.fault /\ x.level = old.level
    BY <1>1, LookedKeeps
  <2> HIDE DEF x, p
  <2>4. /\ q \in Active /\ q.step = "register" /\ q.session = old.session /\ q.try = 1
        /\ q.boot = old.boot /\ q.fault = old.fault /\ q.level = old.level
    <3>1. x \in Fields /\ Shape(x)
      BY <1>2, <1>6, <2>2, <2>3 DEF Active
    <3>2. q \in Fields
      BY <1>2, <1>6, <2>2, <2>3, <3>1 DEF Fields
    <3>3. /\ q.step = "register" /\ q.session = old.session /\ q.try = 1 /\ q.boot = old.boot
          /\ q.fault = old.fault /\ q.level = old.level /\ q.op = old.op /\ q.port = p
      BY <1>2, <1>6, <2>2, <2>3, <3>1 DEF Fields
    <3> HIDE DEF q
    <3>4. Shape(q)
      BY <1>2, <1>6, <2>2, <2>3, <3>1, <3>3 DEF Shape
    <3> QED
      BY <3>2, <3>3, <3>4 DEF Active
  <2>5. call' = [call EXCEPT ![c] = q]
    BY <2>1 DEF x, p
  <2> HIDE DEF q
  <2>6. ~old.fault => Fine(q, endpoint', adapter', lives', registry')
    <3>1. ~old.fault => Fine(old, endpoint, adapter, lives, registry) /\ Undisturbed(old.session)
      BY <1>1, <1>4, FaultlessCall DEF Quiet
    <3> QED
      BY <1>1, <1>3, <2>4, <3>1, RestsFine DEF DapInv
  <2>7. Follows(q, old)
    BY <2>4 DEF Follows
  <2> QED
    BY <1>1, <1>4, <2>4, <2>5, <2>6, <2>7, FollowsWell
<1> QED
  BY <1>2, <1>5, <1>6

\* The child is new, and no thread is about to register a closed connection to it.
LEMMA RegisterChildHealthy ==
    ASSUME DapInv, Healthy, NEW c \in Workers, RegisterChild(c)
    PROVE  Healthy'
<1> DEFINE old == call[c]
           p == old.port
           free == {k \in Children : endpoint[k] = NoPort}
<1>1. old \in Active /\ old.step = "register"
  BY CallAt DEF RegisterChild
<1>2. old.op = "adopt" /\ old.boot = "no" /\ old.fault \in BOOLEAN
  BY <1>1 DEF Active, Fields, Shape
<1>3. UNCHANGED <<adapter, registry>>
  BY DEF RegisterChild
<1>4. RegistryMoves
  BY <1>3 DEF RegistryMoves
<1>5. CASE endpoint[old.session] = NoPort \/ free = {}
  <2> DEFINE q == Ended(old, "no id")
  <2>1. UNCHANGED <<endpoint, lives>> /\ call' = [call EXCEPT ![c] = q]
    BY <1>5 DEF RegisterChild, Become
  <2>2. Follows(q, old) /\ q.result = "no id" /\ q.step = "done"
    BY <1>1, <1>2, EndedFollows DEF Ended
  <2> HIDE DEF q
  <2>3. q \in Finished /\ q.result \in Good
    BY <2>2 DEF Follows, Good, Active, Fields
  <2>4. Quiet
    BY <1>3, <2>1, NoneDisturbed DEF DapInv
  <2> QED
    BY <1>1, <1>4, <2>1, <2>2, <2>3, <2>4, FollowsWell
<1>6. CASE ~(endpoint[old.session] = NoPort \/ free = {})
  <2> DEFINE taken(k) ==
               \/ old.fault \/ StaleInsert(k)
               \/ adapter[p] = 0 \/ lives[adapter[p]].session # Orphan
  <2>1. PICK k \in free :
          /\ endpoint' = [endpoint EXCEPT ![k] = p]
          /\ lives' = [l \in Lives |->
               IF l = adapter[p] /\ lives[l].session = Orphan
               THEN [lives[l] EXCEPT !.session = k] ELSE lives[l]]
          /\ call' = [call EXCEPT ![c] =
               [Looked(old) EXCEPT !.session = k, !.boot = "child", !.fault = taken(k)]]
    BY <1>6 DEF RegisterChild, Become
  <2> DEFINE f == taken(k)
             x == Looked(old)
             q == [x EXCEPT !.session = k, !.boot = "child", !.fault = f]
  <2>2. k \in Children /\ k \in Ids /\ endpoint[k] = NoPort
    BY DEF Ids
  <2>3. ASSUME NEW l \in Lives
        PROVE  lives'[l].epoch = lives[l].epoch /\ lives'[l].ready = lives[l].ready
    <3>1. lives[l] \in Adapter
      BY DEF DapInv, World, Lives
    <3> QED
      BY <2>1, <3>1 DEF Adapter
  <2>4. Quiet
    <3>1. ASSUME NEW t \in Ids, Reaches(t, endpoint, adapter, lives)
          PROVE  Undisturbed(t)
      <4>1. t # k /\ endpoint'[t] = endpoint[t] /\ endpoint[t] \in Ports
        BY <2>1, <2>2, <3>1 DEF Reaches, DapInv, World
      <4>2. adapter[endpoint[t]] \in Lives
        BY <3>1, <4>1 DEF Reaches, DapInv, World
      <4> QED
        BY <1>3, <2>3, <3>1, <4>1, <4>2, SameAdapter DEF DapInv
    <3> QED
      BY <3>1 DEF Quiet
  <2>5. /\ x \in Active /\ x.step = "lookup" /\ x.op = "adopt" /\ x.try = 1
    BY <1>1, <1>2, LookedKeeps
  <2>6. f \in BOOLEAN /\ (~f => ~StaleInsert(k))
    <3>1. StaleInsert(k) \in BOOLEAN
      BY DEF StaleInsert
    <3> HIDE DEF old, p
    <3> QED
      BY <1>2, <3>1
  <2>7. call' = [call EXCEPT ![c] = q]
    BY <2>1
  <2> HIDE DEF x, f
  <2>8. /\ q \in Active /\ q.step = "lookup" /\ q.session = k /\ q.fault = f
        /\ q.try = 1 /\ q.boot = "child"
    <3>1. x \in Fields /\ Shape(x)
      BY <2>2, <2>5, <2>6 DEF Active
    <3>2. q \in Fields
      BY <2>2, <2>5, <2>6, <3>1 DEF Fields
    <3>3. /\ q.step = "lookup" /\ q.session = k /\ q.fault = f /\ q.try = 1 /\ q.boot = "child"
          /\ q.op = "adopt"
      BY <2>2, <2>5, <2>6, <3>1 DEF Fields
    <3> HIDE DEF q
    <3>4. Shape(q)
      BY <2>2, <2>5, <2>6, <3>1, <3>3 DEF Shape
    <3> QED
      BY <3>2, <3>3, <3>4 DEF Active
  <2> HIDE DEF q
  <2>9. call'[c] = q /\ \A w \in Workers \ {c} : call'[w] = call[w]
    BY <2>7 DEF DapInv, Calls
  <2>10. InsertsMove
    BY <2>8, <2>9 DEF InsertsMove
  <2>11. ASSUME ~f
         PROVE  Guarded(k, endpoint', adapter', lives', call')
    <3>1. ASSUME NEW d \in Workers, call'[d].step = "insert", call'[d].session = k
          PROVE  Open(call'[d].conn, adapter', lives')
      <4> DEFINE m == call'[d].conn
      <4>1. call'[d] = call[d]
        BY <2>8, <2>9, <3>1
      <4>2. Up(m) /\ m \in Real \union {NoConn}
        <5>1. call[d] \in Active
          BY <3>1, <4>1, ByStep DEF DapInv, Calls
        <5> QED
          BY <2>6, <2>11, <3>1, <4>1, <5>1, DebugAssumption DEF StaleInsert, At, Active, Fields
      <4>3. m \in Real /\ adapter[m.port] = m.life /\ lives[m.life].epoch = m.epoch /\ m # NoConn
        BY <4>2 DEF Up
      <4>4. m.life \in Lives
        BY <4>3 DEF Real, DapInv, World
      <4> HIDE DEF m
      <4>5. Open(m, adapter', lives')
        BY <1>3, <2>3, <4>3, <4>4 DEF Open
      <4> QED
        BY <4>5 DEF m
    <3> QED
      BY <3>1 DEF Guarded, Safe
  <2>12. Well(q, endpoint', adapter', lives', registry', call')
    <3>1. q \notin Finished
      BY <2>8 DEF Finished
    <3> QED
      BY <2>8, <2>11, <3>1 DEF Well, Fine
  <2>13. ASSUME NEW w \in Workers \ {c}
         PROVE  Well(call'[w], endpoint', adapter', lives', registry', call')
    <3>1. call[w] \in Active /\ ~call[w].fault => Undisturbed(call[w].session)
      BY <2>4, FaultlessCall DEF Quiet
    <3>2. Well(call[w], endpoint', adapter', lives', registry', call')
      BY <1>4, <2>10, <3>1, StaysWell
    <3>3. call'[w] = call[w]
      BY <2>9
    <3> QED
      BY <3>2, <3>3
  <2> QED
    BY <2>9, <2>12, <2>13 DEF Healthy
<1> QED
  BY <1>5, <1>6

\* Trouble with the adapter of s is held against the calls on s, and nobody else notices it.
QuietBut(s) == \A t \in Ids \ {s} : Reaches(t, endpoint, adapter, lives) => Undisturbed(t)

LEMMA DisturbedWell ==
    ASSUME DapInv, Healthy, NEW s, QuietBut(s), RegistryMoves, InsertsMove,
           NEW w \in Workers, call'[w] = Disturbed(s)[w]
    PROVE  Well(call'[w], endpoint', adapter', lives', registry', call')
<1>1. Disturbed(s)[w] =
        IF call[w].step \notin {"idle", "done"} /\ call[w].session = s THEN Fault(call[w]) ELSE call[w]
  BY DebugAssumption DEF Disturbed
<1>2. call[w] \in {Idle} \union Active \union Finished
  BY DEF DapInv, Calls
<1>3. CASE call[w] \in Active /\ call[w].session = s
  <2>1. call'[w] = Fault(call[w])
    BY <1>1, <1>2, <1>3, ByStep
  <2>2. call'[w] \in Active /\ call'[w].fault
    BY <1>3, <2>1, FaultKeeps
  <2> QED
    BY <2>2 DEF Well, Active, Fields, Finished
<1>4. CASE ~(call[w] \in Active /\ call[w].session = s)
  <2>1. call'[w] = call[w]
    BY <1>1, <1>2, <1>4, ByStep
  <2>2. call[w] \in Active /\ ~call[w].fault => Undisturbed(call[w].session)
    BY <1>4, FaultlessCall DEF QuietBut
  <2> QED
    BY <2>1, <2>2, StaysWell
<1> QED
  BY <1>3, <1>4

LEMMA DisturbedInserts ==
    ASSUME DapInv, NEW s, NEW d \in Workers, Disturbed(s)[d].step = "insert"
    PROVE  /\ call[d].step = "insert" /\ Disturbed(s)[d].session = call[d].session
           /\ Disturbed(s)[d].conn = call[d].conn
<1>1. Disturbed(s)[d] =
        IF call[d].step \notin {"idle", "done"} /\ call[d].session = s THEN Fault(call[d]) ELSE call[d]
  BY DebugAssumption DEF Disturbed
<1>2. call[d].step \notin {"idle", "done"} => call[d] \in Active
  BY ByStep DEF DapInv, Calls
<1> QED
  BY <1>1, <1>2, FaultKeeps

LEMMA TroubleHealthy ==
    ASSUME DapInv, Healthy, NEW s, QuietBut(s), call' = Disturbed(s), UNCHANGED registry
    PROVE  Healthy'
<1>1. InsertsMove /\ RegistryMoves
  BY DisturbedInserts DEF InsertsMove, RegistryMoves
<1> QED
  BY <1>1, DisturbedWell DEF Healthy

LEMMA UnregisterChildHealthy ==
    ASSUME DapInv, Healthy, NEW c \in Workers, UnregisterChild(c)
    PROVE  Healthy'
<1> DEFINE old == call[c]
           s == old.session
           q == Ended(old, old.error)
<1>1. old \in Active /\ old.step = "unregister" /\ s \in Ids
  BY CallAt DEF UnregisterChild, Active, Fields
<1>2. /\ UNCHANGED <<adapter, lives, registry>> /\ endpoint' = [endpoint EXCEPT ![s] = NoPort]
      /\ call' = [Disturbed(s) EXCEPT ![c] = q]
  BY DEF UnregisterChild
<1>3. old.fault
  BY <1>1, FaultlessCall DEF Fine
<1>4. q.step = "done" /\ q.fault
  BY <1>3 DEF Ended
<1> HIDE DEF q
<1>5. QuietBut(s)
  <2>1. ASSUME NEW t \in Ids \ {s}, Reaches(t, endpoint, adapter, lives)
        PROVE  Undisturbed(t)
    <3>1. endpoint'[t] = endpoint[t]
      BY <1>2 DEF DapInv, World
    <3> QED
      BY <1>2, <2>1, <3>1, SameAdapter DEF DapInv
  <2> QED
    BY <2>1 DEF QuietBut
<1>6. call'[c] = q /\ \A w \in Workers \ {c} : call'[w] = Disturbed(s)[w]
  BY <1>2, DebugAssumption DEF Disturbed
<1>7. InsertsMove /\ RegistryMoves
  BY <1>2, <1>4, <1>6, DisturbedInserts DEF InsertsMove, RegistryMoves
<1>8. Well(q, endpoint', adapter', lives', registry', call')
  BY <1>4 DEF Well
<1> QED
  BY <1>5, <1>6, <1>7, <1>8, DisturbedWell DEF Healthy

LEMMA AdapterExitsHealthy ==
    ASSUME DapInv, Healthy, NEW p \in Ports, AdapterExits(p)
    PROVE  Healthy'
<1> DEFINE l == adapter[p]
           s == lives[l].session
<1>1. l \in Lives /\ \A q \in Ports : q # p => adapter[q] # l
  BY DEF AdapterExits, DapInv, World
<1>2. /\ adapter' = [adapter EXCEPT ![p] = 0] /\ lives' = [lives EXCEPT ![l] = Gone]
      /\ UNCHANGED <<endpoint, registry>> /\ call' = Disturbed(s)
  BY DEF AdapterExits, Trouble
<1> HIDE DEF l
<1>3. ASSUME NEW t \in Ids \ {s}, Reaches(t, endpoint, adapter, lives)
      PROVE  Undisturbed(t)
  <2>1. endpoint[t] \in Ports /\ adapter[endpoint[t]] \in Lives
    BY <1>3 DEF Reaches, DapInv, World
  <2>2. endpoint[t] # p
    BY <1>3 DEF Reaches, l
  <2>3. adapter'[endpoint[t]] = adapter[endpoint[t]] /\ adapter[endpoint[t]] # l
    BY <1>1, <1>2, <2>1, <2>2 DEF DapInv, World
  <2>4. lives'[adapter[endpoint[t]]] = lives[adapter[endpoint[t]]]
    BY <1>2, <2>1, <2>3 DEF Lives
  <2> QED
    BY <1>2, <1>3, <2>3, <2>4, SameAdapter DEF DapInv
<1> QED
  BY <1>2, <1>3, TroubleHealthy DEF QuietBut

LEMMA HangsUpHealthy ==
    ASSUME DapInv, Healthy, NEW p \in Ports, HangsUp(p)
    PROVE  Healthy'
<1> DEFINE l == adapter[p]
           s == lives[l].session
<1>1. /\ lives' = [lives EXCEPT ![l].epoch = @ + 1]
      /\ UNCHANGED <<endpoint, adapter, registry>> /\ call' = Disturbed(s)
  BY DEF HangsUp, Trouble
<1>2. ASSUME NEW t \in Ids \ {s}, Reaches(t, endpoint, adapter, lives)
      PROVE  Undisturbed(t)
  <2>1. endpoint[t] \in Ports /\ adapter[endpoint[t]] \in Lives
    BY <1>2 DEF Reaches, DapInv, World
  <2>2. adapter[endpoint[t]] # l
    BY <1>2 DEF Reaches
  <2> HIDE DEF l
  <2>3. lives'[adapter[endpoint[t]]] = lives[adapter[endpoint[t]]]
    BY <1>1, <2>1, <2>2 DEF Lives
  <2> QED
    BY <1>1, <1>2, <2>3, SameAdapter DEF DapInv
<1> QED
  BY <1>1, <1>2, TroubleHealthy DEF QuietBut

LEMMA UnnoticedHealthy ==
    ASSUME DapInv, Healthy, Quiet, UNCHANGED <<call, registry>>
    PROVE  Healthy'
<1>1. InsertsMove /\ RegistryMoves
  BY DEF InsertsMove, RegistryMoves
<1>2. \A w \in Workers : call[w] \in Active /\ ~call[w].fault => Undisturbed(call[w].session)
  BY FaultlessCall DEF Quiet
<1> QED
  BY <1>1, <1>2, StaysWell DEF Healthy

LEMMA ResolvesPortHealthy ==
    ASSUME DapInv, Healthy, NEW s \in Sessions, ResolvesPort(s)
    PROVE  Healthy'
<1>1. PICK p \in Ports : endpoint' = [endpoint EXCEPT ![s] = p]
  BY DEF ResolvesPort
<1>2. UNCHANGED <<adapter, lives, registry, call>> /\ ~Reaches(s, endpoint, adapter, lives)
  BY DEF ResolvesPort, Alive, Reaches
<1>3. ASSUME NEW t \in Ids, Reaches(t, endpoint, adapter, lives)
      PROVE  Undisturbed(t)
  <2>1. endpoint'[t] = endpoint[t]
    BY <1>1, <1>2, <1>3 DEF DapInv, World
  <2> QED
    BY <1>2, <1>3, <2>1, SameAdapter DEF DapInv
<1> QED
  BY <1>2, <1>3, UnnoticedHealthy DEF Quiet

LEMMA NewLifeHealthy ==
    ASSUME DapInv, Healthy, NEW p \in Ports, NEW s \in Ids \union {Orphan}, NewLife(p, s),
           UNCHANGED <<endpoint, registry, call>>
    PROVE  Healthy'
<1>1. /\ adapter[p] = 0 /\ lives \in Seq(Adapter)
      /\ \A q \in Ports : q # p => adapter'[q] = adapter[q]
  BY DEF NewLife, DapInv, World
<1>2. \A l \in Lives : lives'[l] = lives[l]
  BY <1>1 DEF NewLife, Lives
<1>3. ASSUME NEW t \in Ids, Reaches(t, endpoint, adapter, lives)
      PROVE  Undisturbed(t)
  <2>1. endpoint[t] \in Ports /\ adapter[endpoint[t]] \in Lives /\ endpoint[t] # p
    BY <1>1, <1>3 DEF Reaches, DapInv, World
  <2> QED
    BY <1>1, <1>2, <1>3, <2>1, SameAdapter DEF DapInv
<1> QED
  BY <1>3, UnnoticedHealthy DEF Quiet

LEMMA AdaptersHealthy ==
    ASSUME DapInv, Healthy, Adapters
    PROVE  Healthy'
<1>1. ASSUME NEW p \in Ports, Occupied(p)
      PROVE  Healthy'
  BY <1>1, NewLifeHealthy DEF Occupied
<1>2. ASSUME NEW s \in Sessions, Listens(s)
      PROVE  Healthy'
  <2>1. s \in Ids /\ endpoint[s] \in Ports
    BY DEF DapInv, World, Ids
  <2> QED
    BY <1>2, <2>1, NewLifeHealthy DEF Listens
<1>3. ASSUME NEW k, OffersSubprocess(k)
      PROVE  Healthy'
  BY <1>3, NewLifeHealthy DEF OffersSubprocess
<1> QED
  BY <1>1, <1>2, <1>3, AdapterExitsHealthy, HangsUpHealthy, ResolvesPortHealthy DEF Adapters

LEMMA DispatchHealthy ==
    ASSUME DapInv, Healthy, NEW c \in Workers, Dispatch(c)
    PROVE  Healthy'
<1>1. PICK route \in Routes : Begin(c, route.op, route.session)
  BY DEF Dispatch
<1> DEFINE op == route.op
           s == route.session
           f == ~Alive(s) \/ StaleInsert(s)
           q == Calling(op, s)
<1>2. op \in Operations /\ s \in Ids
  BY RegistryAssumption DEF Ids
<1>3. UNCHANGED <<endpoint, adapter, lives, registry>> /\ call' = [call EXCEPT ![c] = q]
  BY <1>1 DEF Begin, Become
<1>4. f \in BOOLEAN /\ (~f => ~StaleInsert(s))
  BY DEF Alive
<1>5. q = [op |-> op, session |-> s, step |-> "lookup", level |-> 1, try |-> 1, boot |-> "no",
           port |-> NoPort, conn |-> NoConn, error |-> "no", fault |-> f, ran |-> 0]
  BY DEF Calling
<1> HIDE DEF op, s, f, q
<1>6. q.step = "lookup" /\ q.session = s /\ q.fault = f /\ q.try = 1 /\ q.level = 1
  BY <1>5
<1>7. call'[c] = q /\ \A w \in Workers \ {c} : call'[w] = call[w]
  BY <1>3 DEF DapInv, Calls
<1>8. Quiet /\ RegistryMoves /\ InsertsMove
  BY <1>3, <1>6, <1>7, NoneDisturbed DEF DapInv, RegistryMoves, InsertsMove
<1>9. ~f => Guarded(s, endpoint', adapter', lives', call')
  <2>1. ASSUME ~f, NEW d \in Workers, call'[d].step = "insert", call'[d].session = s
        PROVE  Open(call'[d].conn, adapter', lives')
    <3>1. call'[d] = call[d]
      BY <1>6, <1>7, <2>1
    <3> QED
      BY <1>3, <1>4, <2>1, <3>1, DebugAssumption DEF StaleInsert, At, Up, Open
  <2> QED
    BY <2>1 DEF Guarded, Safe
<1>10. Well(q, endpoint', adapter', lives', registry', call')
  <2>1. q \notin Finished
    BY <1>6 DEF Finished
  <2> QED
    BY <1>6, <1>9, <2>1 DEF Well, Fine
<1>11. ASSUME NEW w \in Workers \ {c}
       PROVE  Well(call'[w], endpoint', adapter', lives', registry', call')
  <2>1. call[w] \in Active /\ ~call[w].fault => Undisturbed(call[w].session)
    BY <1>8, FaultlessCall DEF Quiet
  <2> QED
    BY <1>7, <1>8, <2>1, StaysWell
<1> QED
  BY <1>7, <1>10, <1>11 DEF Healthy

LEMMA AnswerCallHealthy ==
    ASSUME DapInv, Healthy, NEW c \in Workers, AnswerCall(c)
    PROVE  Healthy'
<1>1. UNCHANGED <<endpoint, adapter, lives, registry>> /\ call' = [call EXCEPT ![c] = Idle]
  BY DEF AnswerCall, Become
<1>2. Idle.step = "idle" /\ Idle \notin Active /\ Idle \notin Finished
  BY DEF Idle, Active, Fields, Finished
<1>3. call'[c] = Idle /\ \A w \in Workers \ {c} : call'[w] = call[w]
  BY <1>1 DEF DapInv, Calls
<1>4. Quiet /\ RegistryMoves /\ InsertsMove
  BY <1>1, <1>2, <1>3, NoneDisturbed DEF DapInv, RegistryMoves, InsertsMove
<1>5. \A w \in Workers \ {c} : call[w] \in Active /\ ~call[w].fault => Undisturbed(call[w].session)
  BY <1>4, FaultlessCall DEF Quiet
<1> QED
  BY <1>2, <1>3, <1>4, <1>5, StaysWell DEF Healthy, Well

LEMMA StepHealthy ==
    ASSUME DapInv, Healthy, [Next]_vars
    PROVE  Healthy'
<1>1. CASE UNCHANGED dapVars
  <2>1. UNCHANGED <<endpoint, adapter, lives, registry, call>>
    BY <1>1 DEF dapVars
  <2> QED
    BY <2>1, NoneDisturbed, UnnoticedHealthy DEF DapInv
<1>2. CASE Adapters
  BY <1>2, AdaptersHealthy
<1>3. ASSUME NEW w \in Workers, CallStep(w)
      PROVE  Healthy'
  BY <1>3, FlagHealthy, LookupHealthy, ConnectHealthy, InsertHealthy, SendAnsweredHealthy,
     SendRefusedHealthy, SendTimesOutHealthy, SendFailsHealthy, DropSessionHealthy, PopEventsHealthy,
     RegisterChildHealthy, UnregisterChildHealthy
  DEF CallStep
<1>4. UNCHANGED vars => UNCHANGED dapVars
  BY DEF vars
<1>5. Next => Adapters \/ UNCHANGED dapVars
                \/ \E w \in Workers : CallStep(w) \/ Dispatch(w) \/ AnswerCall(w)
  BY DEF Next, Serve, AnswerOther
<1> QED
  BY <1>1, <1>2, <1>3, <1>4, <1>5, DispatchHealthy, AnswerCallHealthy

-----------------------------------------------------------------------------
(* An adapter refuses a call no bootstrap, unless it may be the second one *)

\* A call that is on its way to bootstrap an adapter finds it has not been; the registry knows of
\* a Go session whose adapter has been.
First(r, e, a, l, g, m) ==
    /\ r \in Active /\ r.boot \in {"eager", "late"} /\ r.step # "flag" => ~l[a[e[r.session]]].ready
    /\ r \in Active /\ r.boot = "no" /\ r.step = "lookup" /\ r.try = 1
         => (r.session \in g /\ l[a[e[r.session]]].ready => r.session \in m)
    /\ r \in Finished => r.result # "refused"

FirstAt(w) ==
    w \notin again /\ ~call[w].fault
      => First(call[w], endpoint, adapter, lives, goRuntime, bootstrapped)

FirstBoot == \A w \in Workers : FirstAt(w)

\* The adapter of s has not been bootstrapped meanwhile, nor the mark of s removed.
Calm(s) ==
    /\ lives'[adapter'[endpoint'[s]]].ready => lives[adapter[endpoint[s]]].ready
    /\ s \in goRuntime' => s \in goRuntime /\ (s \in bootstrapped => s \in bootstrapped')

\* A call that takes no step.
LEMMA StaysFirst ==
    ASSUME FirstBoot, NEW w \in Workers, call'[w] = call[w], w \in again => w \in again',
           call[w] \in Active /\ ~call[w].fault /\ w \notin again' => Calm(call[w].session)
    PROVE  FirstAt(w)'
<1> DEFINE r == call[w]
<1>1. SUFFICES ASSUME w \notin again', ~r.fault
               PROVE  First(r, endpoint', adapter', lives', goRuntime', bootstrapped')
  BY DEF FirstAt
<1>2. First(r, endpoint, adapter, lives, goRuntime, bootstrapped)
  BY <1>1 DEF FirstBoot, FirstAt
<1>3. r \in Active => Calm(r.session)
  BY <1>1
<1> HIDE DEF r
<1> QED
  BY <1>2, <1>3 DEF First, Calm

\* A call takes a step that leaves the adapters as they are.
LEMMA MovesFirst ==
    ASSUME DapInv, FirstBoot, NEW c \in Workers, NEW q, call' = [call EXCEPT ![c] = q],
           UNCHANGED <<goRuntime, endpoint, adapter, lives, again>>,
           bootstrapped \subseteq bootstrapped',
           c \notin again /\ ~q.fault
             => First(q, endpoint, adapter, lives, goRuntime, bootstrapped')
    PROVE  FirstBoot'
<1>1. call'[c] = q /\ \A w \in Workers \ {c} : call'[w] = call[w]
  BY DEF DapInv, Calls
<1>2. FirstAt(c)'
  BY <1>1 DEF FirstAt
<1>3. \A s : Calm(s)
  BY DEF Calm
<1>4. \A w \in Workers \ {c} : FirstAt(w)'
  BY <1>1, <1>3, StaysFirst
<1> QED
  BY <1>2, <1>4 DEF FirstBoot

\* A call that goes on from the record to the adapter, or has been answered otherwise.
LEMMA OnwardFirst ==
    ASSUME NEW r \in Active, NEW e, NEW a, NEW l, NEW g, NEW m, First(r, e, a, l, g, m), NEW q,
           \/ r.step # "flag" /\ q.session = r.session /\ q.boot = r.boot
                /\ (q.step = "lookup" => q.try = 2) /\ q.step # "done"
           \/ q.step = "done" /\ q.result # "refused"
    PROVE  First(q, e, a, l, g, m)
<1>1. \A x \in Active : x.step # "done"
  BY DEF Active, Fields
<1>2. \A x \in Finished : x.step = "done"
  BY DEF Finished
<1> QED
  BY <1>1, <1>2 DEF First

LEMMA FlagFirst ==
    ASSUME DapInv, FirstBoot, NEW c \in Workers, Flag(c)
    PROVE  FirstBoot'
<1> DEFINE r == call[c]
           q == NextLevel(r, r.level)
<1>1. r \in Active /\ r.level \in 1 .. 3
  BY CallAt DEF Flag, Active, Fields
<1>2. q \in Active /\ q.boot = "no" /\ q.session = r.session /\ q.step = "lookup"
  BY <1>1, NextLevelKeeps
<1>3. /\ UNCHANGED <<goRuntime, endpoint, adapter, lives, again>> /\ call' = [call EXCEPT ![c] = q]
      /\ bootstrapped' = bootstrapped \union {r.session}
  BY DEF Flag, Become
<1> HIDE DEF r, q
<1>4. q \notin Finished
  BY <1>2 DEF Finished
<1>5. First(q, endpoint, adapter, lives, goRuntime, bootstrapped')
  BY <1>2, <1>3, <1>4 DEF First
<1> QED
  BY <1>3, <1>5, MovesFirst

LEMMA LookupFirst ==
    ASSUME DapInv, Healthy, FirstBoot, NEW c \in Workers, Lookup(c)
    PROVE  FirstBoot'
<1> DEFINE old == call[c]
           r == IF NeedsBootstrap(old) THEN [old EXCEPT !.boot = "eager"] ELSE old
           p == endpoint[r.session]
           k == registry[r.session]
           q == IF p = NoPort THEN AfterError(r, "not found")
                ELSE IF Matches(k, p) THEN HaveProxy(r, k)
                ELSE [r EXCEPT !.step = "connect", !.port = p]
<1>1. old \in Active /\ old.step = "lookup"
  BY CallAt DEF Lookup
<1>2. /\ r \in Active /\ r.step = "lookup" /\ r.session = old.session /\ r.fault = old.fault
      /\ NeedsBootstrap(old) => r.boot = "eager"
      /\ ~NeedsBootstrap(old) => r = old
  BY <1>1 DEF NeedsBootstrap, Active, Fields, Shape
<1>3. k \in Real \union {NoConn}
  BY <1>2 DEF DapInv, World, Active, Fields
<1>4. /\ UNCHANGED <<goRuntime, endpoint, adapter, lives, bootstrapped, again>>
      /\ call' = [call EXCEPT ![c] = q]
  BY DEF Lookup, Become
<1> HIDE DEF r
<1>5. q.fault \/ ~old.fault
  <2>1. Follows(AfterError(r, "not found"), r)
    BY <1>2, AfterErrorFollows DEF Errors
  <2>2. Matches(k, p) => HaveProxy(r, k).fault = r.fault
    BY <1>2, <1>3, HaveProxyKeeps
  <2>3. [r EXCEPT !.step = "connect", !.port = p].fault = r.fault
    BY <1>2 DEF Active, Fields
  <2> QED
    BY <1>2, <2>1, <2>2, <2>3 DEF Follows, Active, Fields
<1>6. ASSUME c \notin again, ~q.fault
      PROVE  First(q, endpoint, adapter, lives, goRuntime, bootstrapped')
  <2>1. /\ First(old, endpoint, adapter, lives, goRuntime, bootstrapped)
        /\ Reaches(old.session, endpoint, adapter, lives)
    BY <1>1, <1>5, <1>6, FaultlessCall DEF FirstBoot, FirstAt
  <2>2. First(r, endpoint, adapter, lives, goRuntime, bootstrapped)
    <3>1. CASE NeedsBootstrap(old)
      <4>1. ~lives[adapter[endpoint[old.session]]].ready
        BY <1>1, <2>1, <3>1 DEF First, NeedsBootstrap
      <4>2. r \notin Finished
        BY <1>2 DEF Finished
      <4> QED
        BY <1>2, <3>1, <4>1, <4>2 DEF First
    <3> QED
      BY <1>2, <2>1, <3>1
  <2>3. p # NoPort
    BY <1>2, <2>1 DEF Reaches
  <2>4. q.session = r.session /\ q.boot = r.boot /\ q.step \in {"pop", "send", "connect"}
    <3>1. CASE Matches(k, p)
      BY <1>2, <1>3, <2>3, <3>1, HaveProxyKeeps
    <3>2. CASE ~Matches(k, p)
      <4>1. q = [r EXCEPT !.step = "connect", !.port = p]
        BY <2>3, <3>2
      <4> HIDE DEF q, p
      <4> QED
        BY <1>2, <4>1 DEF Active, Fields
    <3> QED
      BY <3>1, <3>2
  <2> HIDE DEF q
  <2> QED
    BY <1>2, <1>4, <2>2, <2>4, OnwardFirst
<1> HIDE DEF q
<1> QED
  BY <1>4, <1>6, MovesFirst

LEMMA ConnectFirst ==
    ASSUME DapInv, Healthy, FirstBoot, NEW c \in Workers, Connect(c)
    PROVE  FirstBoot'
<1> DEFINE old == call[c]
           p == old.port
           q == IF adapter[p] = 0 THEN AfterError(old, "broken")
                ELSE [old EXCEPT !.step = "insert", !.port = NoPort, !.conn = Connection(p)]
<1>1. old \in Active /\ old.step = "connect" /\ Steady(old, endpoint, adapter, lives)
  BY CallAt DEF Connect
<1>2. /\ UNCHANGED <<goRuntime, endpoint, adapter, lives, bootstrapped, again>>
      /\ call' = [call EXCEPT ![c] = q]
  BY DEF Connect, Become
<1>3. ASSUME c \notin again, ~q.fault
      PROVE  First(q, endpoint, adapter, lives, goRuntime, bootstrapped')
  <2>1. CASE adapter[p] = 0
    <3>1. Follows(q, old)
      BY <1>1, <2>1, AfterErrorFollows DEF Errors
    <3>2. ~old.fault
      BY <1>3, <3>1 DEF Follows, Active, Fields
    <3> QED
      BY <1>1, <2>1, <3>2 DEF Steady, Reaches
  <2>2. CASE adapter[p] # 0
    <3>1. q.session = old.session /\ q.boot = old.boot /\ q.step = "insert" /\ q.fault = old.fault
      BY <1>1, <2>2 DEF Active, Fields
    <3>2. First(old, endpoint, adapter, lives, goRuntime, bootstrapped)
      BY <1>3, <3>1 DEF FirstBoot, FirstAt
    <3> HIDE DEF q
    <3> QED
      BY <1>1, <1>2, <3>1, <3>2, OnwardFirst
  <2> QED
    BY <2>1, <2>2
<1> HIDE DEF q
<1> QED
  BY <1>2, <1>3, MovesFirst

LEMMA InsertFirst ==
    ASSUME DapInv, FirstBoot, NEW c \in Workers, Insert(c)
    PROVE  FirstBoot'
<1> DEFINE old == call[c]
           q == HaveProxy(old, old.conn)
<1>1. old \in Active /\ old.step = "insert" /\ old.conn \in Real \union {NoConn}
  BY CallAt DEF Insert, Active, Fields
<1>2. q.session = old.session /\ q.boot = old.boot /\ q.step \in {"pop", "send"} /\ q.fault = old.fault
  BY <1>1, HaveProxyKeeps
<1>3. /\ UNCHANGED <<goRuntime, endpoint, adapter, lives, bootstrapped, again>>
      /\ call' = [call EXCEPT ![c] = q]
  BY DEF Insert, Become
<1> HIDE DEF q
<1>4. ASSUME c \notin again, ~q.fault
      PROVE  First(q, endpoint, adapter, lives, goRuntime, bootstrapped')
  <2>1. First(old, endpoint, adapter, lives, goRuntime, bootstrapped)
    BY <1>2, <1>4 DEF FirstBoot, FirstAt
  <2> QED
    BY <1>1, <1>2, <1>3, <2>1, OnwardFirst
<1> QED
  BY <1>3, <1>4, MovesFirst

LEMMA SendAnsweredFirst ==
    ASSUME DapInv, FirstBoot, NEW c \in Workers, SendAnswered(c)
    PROVE  FirstBoot'
<1> DEFINE old == call[c]
           k == old.conn
           s == lives[k.life].session
           q == AfterAnswer(Counted(old), Answer(old))
<1>1. old \in Active /\ old.step = "send" /\ Steady(old, endpoint, adapter, lives)
  BY CallAt DEF SendAnswered
<1>2. k \in Real /\ k.life \in Lives /\ adapter[k.port] = k.life
  <2>1. k \in Real \union {NoConn} /\ Up(k)
    BY <1>1 DEF SendAnswered, Active, Fields
  <2>2. k \in Real /\ adapter[k.port] = k.life
    BY <2>1 DEF Up
  <2> QED
    BY <2>2 DEF Real, DapInv, World
<1>3. /\ UNCHANGED <<goRuntime, endpoint, adapter, bootstrapped>>
      /\ call' = [call EXCEPT ![c] = q]
      /\ Bootstraps(old) => /\ lives' = [lives EXCEPT ![k.life].ready = TRUE]
                            /\ again' = again \union Rivals(c, s)
      /\ ~Bootstraps(old) => UNCHANGED <<lives, again>>
  BY DEF SendAnswered, Become
<1>4. Follows(q, old)
  BY <1>1, AfterAnswerFollows
<1>5. call'[c] = q /\ \A w \in Workers \ {c} : call'[w] = call[w]
  BY <1>3 DEF DapInv, Calls
<1>6. FirstAt(c)'
  <2>1. \/ q.step = "flag"
        \/ q.step = "done" /\ q.result # "refused"
        \/ ~Bootstraps(old) /\ ~Ready(old) /\ q = LateBootstrap(old) /\ old.op = "request"
    <3>1. \A r : Ended(r, Answer(old)).step = "done" /\ Ended(r, Answer(old)).result # "refused"
      BY DEF Ended, Answer
    <3>2. \A r : Plain(r, "flag").step = "flag" \/ r \notin Active
      BY PlainKeeps
    <3>3. Bootstraps(old) => Counted(old) = old /\ Answer(old) = "ok"
      BY DEF Counted, Answer
    <3>4. ~Bootstraps(old) => Counted(old).boot = "no"
      BY <1>1 DEF Counted, Bootstraps, Active, Fields
    <3>5. Answer(old) = "unavailable" => Counted(old) = old /\ ~Bootstraps(old) /\ ~Ready(old)
      BY DEF Answer, Counted
    <3> QED
      BY <1>1, <3>1, <3>2, <3>3, <3>4, <3>5 DEF AfterAnswer
  <2>2. CASE q.step = "flag"
    BY <1>5, <2>2 DEF FirstAt, First, Finished
  <2>3. CASE q.step = "done" /\ q.result # "refused"
    BY <1>5, <2>3, ByStep DEF FirstAt, First, Active, Fields
  <2>4. CASE ~Bootstraps(old) /\ ~Ready(old) /\ q = LateBootstrap(old) /\ old.op = "request"
    <3>1. q \in Active /\ q.boot = "late" /\ q.session = old.session /\ q.fault = old.fault
      BY <1>1, <2>4, LateKeeps
    <3>2. ~old.fault => adapter[endpoint[old.session]] = k.life
      BY <1>1, <1>2 DEF Steady
    <3>3. ~old.fault => ~lives[adapter[endpoint[old.session]]].ready
      BY <2>4, <3>2 DEF Ready
    <3>4. q \notin Finished
      BY <3>1 DEF Active, Fields, Finished
    <3> HIDE DEF q
    <3> QED
      BY <1>3, <1>5, <2>4, <3>1, <3>3, <3>4 DEF FirstAt, First
  <2> QED
    BY <2>1, <2>2, <2>3, <2>4
<1>7. ASSUME NEW w \in Workers \ {c}
      PROVE  FirstAt(w)'
  <2>1. w \in again => w \in again'
    BY <1>3
  <2>2. ASSUME call[w] \in Active, ~call[w].fault, w \notin again'
        PROVE  Calm(call[w].session)
    <3> DEFINE t == call[w].session
    <3>1. Reaches(t, endpoint, adapter, lives) /\ t \in Ids
      BY <2>2 DEF DapInv, Calls, Steady, Active, Fields
    <3>2. CASE ~Bootstraps(old)
      BY <1>3, <3>2 DEF Calm
    <3>3. CASE Bootstraps(old)
      <4>1. t # s
        BY <1>3, <2>2, <3>3, ByStep, DebugAssumption DEF Rivals
      <4>2. adapter[endpoint[t]] # k.life
        BY <3>1, <4>1 DEF Reaches
      <4>3. endpoint[t] \in Ports /\ adapter[endpoint[t]] \in Lives
        BY <3>1 DEF Reaches, DapInv, World
      <4>4. lives'[adapter[endpoint[t]]] = lives[adapter[endpoint[t]]]
        BY <1>3, <3>3, <4>2, <4>3 DEF DapInv, World, Lives
      <4> QED
        BY <1>3, <4>4 DEF Calm
    <3> QED
      BY <3>2, <3>3
  <2> QED
    BY <1>5, <2>1, <2>2, StaysFirst
<1> QED
  BY <1>6, <1>7 DEF FirstBoot

LEMMA SendRefusedFirst ==
    ASSUME DapInv, FirstBoot, NEW c \in Workers, SendRefused(c)
    PROVE  FirstBoot'
<1> DEFINE old == call[c]
           r == IF Ready(old) THEN old ELSE Fault(old)
           q == AfterRefusal(r)
<1>1. old \in Active /\ old.step = "send" /\ Steady(old, endpoint, adapter, lives) /\ Up(old.conn)
  BY CallAt DEF SendRefused
<1>2. /\ UNCHANGED <<goRuntime, endpoint, adapter, lives, bootstrapped, again>>
      /\ call' = [call EXCEPT ![c] = q]
  BY DEF SendRefused, Become
<1>3. q.step = "done" /\ q.fault = r.fault /\ (r.boot \notin {"eager", "late"} => q.result = "ok")
  BY DEF AfterRefusal, Ended
<1>4. ASSUME c \notin again, ~q.fault
      PROVE  First(q, endpoint, adapter, lives, goRuntime, bootstrapped')
  <2>1. Ready(old) /\ r = old /\ ~old.fault
    BY <1>1, <1>3, <1>4, FaultKeeps
  <2>2. First(old, endpoint, adapter, lives, goRuntime, bootstrapped)
    BY <1>4, <2>1 DEF FirstBoot, FirstAt
  <2>3. adapter[endpoint[old.session]] = old.conn.life
    BY <1>1, <2>1 DEF Steady, Up
  <2>4. old.boot \notin {"eager", "late"}
    BY <1>1, <2>1, <2>2, <2>3 DEF First, Ready
  <2> HIDE DEF q, r
  <2> QED
    BY <1>1, <1>2, <1>3, <2>1, <2>2, <2>4, OnwardFirst
<1> HIDE DEF q
<1> QED
  BY <1>2, <1>4, MovesFirst

LEMMA SendTimesOutFirst ==
    ASSUME DapInv, FirstBoot, NEW c \in Workers, SendTimesOut(c)
    PROVE  FirstBoot'
<1> DEFINE old == call[c]
           q == FailedSend(Fault(old), "timeout")
<1>1. Fault(old) \in Active /\ Fault(old).fault
  BY CallAt, FaultKeeps DEF SendTimesOut
<1>2. Follows(q, Fault(old))
  BY <1>1, FailedSendFollows DEF Errors
<1>3. /\ UNCHANGED <<goRuntime, endpoint, adapter, lives, bootstrapped, again>>
      /\ call' = [call EXCEPT ![c] = q]
  BY DEF SendTimesOut, Become
<1> HIDE DEF q
<1>4. q.fault
  BY <1>1, <1>2 DEF Follows
<1> QED
  BY <1>3, <1>4, MovesFirst

LEMMA SendFailsFirst ==
    ASSUME DapInv, FirstBoot, NEW c \in Workers, SendFails(c)
    PROVE  FirstBoot'
<1> DEFINE old == call[c]
           q == FailedSend(old, "broken")
<1>1. old \in Active /\ old.step = "send"
  BY CallAt DEF SendFails
<1>2. q.session = old.session /\ q.boot = old.boot /\ q.step = "drop" /\ q.fault = old.fault
  BY <1>1 DEF FailedSend, Plain, Active, Fields
<1>3. /\ UNCHANGED <<goRuntime, endpoint, adapter, lives, bootstrapped, again>>
      /\ call' = [call EXCEPT ![c] = q]
  BY DEF SendFails, Become
<1> HIDE DEF q
<1>4. ASSUME c \notin again, ~q.fault
      PROVE  First(q, endpoint, adapter, lives, goRuntime, bootstrapped')
  <2>1. First(old, endpoint, adapter, lives, goRuntime, bootstrapped)
    BY <1>2, <1>4 DEF FirstBoot, FirstAt
  <2> QED
    BY <1>1, <1>2, <1>3, <2>1, OnwardFirst
<1> QED
  BY <1>3, <1>4, MovesFirst

LEMMA DropSessionFirst ==
    ASSUME DapInv, Healthy, FirstBoot, NEW c \in Workers, DropSession(c)
    PROVE  FirstBoot'
<1> DEFINE old == call[c]
           s == old.session
           retry == [Looked(old) EXCEPT !.try = 2]
           q == IF old.try = 2 THEN AfterError(old, old.error) ELSE retry
<1>1. old \in Active /\ old.step = "drop" /\ old.error \in Errors /\ s \in Ids
  BY CallAt DEF DropSession, Active, Fields, Shape
<1>2. /\ UNCHANGED <<goRuntime, endpoint, adapter, lives>> /\ call' = [call EXCEPT ![c] = q]
      /\ again' = IF s \in goRuntime THEN again \union Rivals(c, s) ELSE again
      /\ bootstrapped' = bootstrapped \ {s}
  BY DEF DropSession, Become
<1>3. retry.session = s /\ retry.boot = old.boot /\ retry.try = 2 /\ retry.step = "lookup"
  <2> DEFINE x == Looked(old)
  <2>1. x \in Active /\ x.step = "lookup" /\ x.session = s /\ x.boot = old.boot
    BY <1>1, LookedKeeps
  <2> HIDE DEF x
  <2>2. LET z == [x EXCEPT !.try = 2] IN
        z.session = s /\ z.boot = old.boot /\ z.try = 2 /\ z.step = "lookup"
    BY <2>1 DEF Active, Fields
  <2> QED
    BY <2>2 DEF x
<1>4. Follows(AfterError(old, old.error), old)
  BY <1>1, AfterErrorFollows
<1>5. ~q.fault => q = retry \/ ~old.fault
  BY <1>4 DEF Follows, Active, Fields
<1>6. ~old.fault => old.try = 1
  BY <1>1, FaultlessCall DEF Fine
<1> HIDE DEF retry
<1>7. retry.fault = old.fault
  <2>1. retry = [Looked(old) EXCEPT !.try = 2] /\ Looked(old) \in Active /\ Looked(old).fault = old.fault
    BY <1>1, LookedKeeps DEF retry
  <2> QED
    BY <2>1 DEF Active, Fields
<1>8. call'[c] = q /\ \A w \in Workers \ {c} : call'[w] = call[w]
  BY <1>2 DEF DapInv, Calls
<1>9. c \in again <=> c \in again'
  BY <1>2 DEF Rivals
<1>10. ASSUME c \notin again, ~q.fault
       PROVE  First(q, endpoint, adapter, lives, goRuntime, bootstrapped')
  <2>1. ~old.fault /\ q = retry
    BY <1>5, <1>6, <1>7, <1>10
  <2>2. First(old, endpoint, adapter, lives, goRuntime, bootstrapped)
    BY <1>10, <2>1 DEF FirstBoot, FirstAt
  <2>3. First(old, endpoint, adapter, lives, goRuntime, bootstrapped')
    BY <1>1, <2>2 DEF First
  <2> HIDE DEF q
  <2> QED
    BY <1>1, <1>3, <2>1, <2>3, OnwardFirst
<1> HIDE DEF q
<1>11. FirstAt(c)'
  BY <1>2, <1>8, <1>9, <1>10 DEF FirstAt
<1>12. ASSUME NEW w \in Workers \ {c}
       PROVE  FirstAt(w)'
  <2>1. w \in again => w \in again'
    BY <1>2
  <2>2. ASSUME call[w] \in Active, ~call[w].fault, w \notin again'
        PROVE  Calm(call[w].session)
    <3>1. s \in goRuntime => call[w].session # s
      BY <1>2, <2>2, ByStep, DebugAssumption DEF Rivals
    <3> QED
      BY <1>2, <3>1 DEF Calm
  <2> QED
    BY <1>8, <2>1, <2>2, StaysFirst
<1> QED
  BY <1>11, <1>12 DEF FirstBoot

LEMMA PopEventsFirst ==
    ASSUME DapInv, FirstBoot, NEW c \in Workers, PopEvents(c)
    PROVE  FirstBoot'
<1> DEFINE old == call[c]
<1>1. old \in Active /\ old.step = "pop" /\ old.fault \in BOOLEAN
  BY CallAt DEF PopEvents, Active, Fields
<1>2. UNCHANGED <<goRuntime, endpoint, adapter, lives, bootstrapped, again>>
  BY DEF PopEvents
<1>3. PICK q :
        /\ call' = [call EXCEPT ![c] = q] /\ q.fault = old.fault
        /\ \/ q.session = old.session /\ q.boot = old.boot /\ q.step = "register"
           \/ q.step = "done" /\ q.result # "refused"
  <2>1. \A result : Ended(old, result).step = "done" /\ Ended(old, result).fault = old.fault
                      /\ Ended(old, result).result = result
    BY DEF Ended
  <2>2. ASSUME NEW p
        PROVE  LET q == [Looked(old) EXCEPT !.step = "register", !.port = p] IN
               q.session = old.session /\ q.boot = old.boot /\ q.step = "register"
                 /\ q.fault = old.fault
    <3> DEFINE x == Looked(old)
    <3>1. x \in Active /\ x.session = old.session /\ x.boot = old.boot /\ x.fault = old.fault
      BY <1>1, LookedKeeps
    <3> HIDE DEF x
    <3>2. LET z == [x EXCEPT !.step = "register", !.port = p] IN
          z.session = old.session /\ z.boot = old.boot /\ z.step = "register"
            /\ z.fault = old.fault
      BY <3>1 DEF Active, Fields
    <3> QED
      BY <3>2 DEF x
  <2>3. CASE \E result \in {"ok", "no event"} : call' = [call EXCEPT ![c] = Ended(old, result)]
    <3>1. PICK result \in {"ok", "no event"} : call' = [call EXCEPT ![c] = Ended(old, result)]
      BY <2>3
    <3> DEFINE q == Ended(old, result)
    <3>2. q.step = "done" /\ q.fault = old.fault /\ q.result # "refused"
      BY <2>1
    <3> HIDE DEF q
    <3>3. call' = [call EXCEPT ![c] = q]
      BY <3>1 DEF q
    <3> QED
      BY <3>2, <3>3
  <2>4. CASE \E p : call' = [call EXCEPT ![c] =
                      [Looked(old) EXCEPT !.step = "register", !.port = p]]
    <3>1. PICK p : call' = [call EXCEPT ![c] = [Looked(old) EXCEPT !.step = "register", !.port = p]]
      BY <2>4
    <3> DEFINE q == [Looked(old) EXCEPT !.step = "register", !.port = p]
    <3>2. /\ q.session = old.session /\ q.boot = old.boot /\ q.step = "register"
          /\ q.fault = old.fault
      BY <2>2
    <3> HIDE DEF q
    <3>3. call' = [call EXCEPT ![c] = q]
      BY <3>1 DEF q
    <3> QED
      BY <3>2, <3>3
  <2>5. \/ \E result \in {"ok", "no event"} : call' = [call EXCEPT ![c] = Ended(old, result)]
        \/ \E p : call' = [call EXCEPT ![c] = [Looked(old) EXCEPT !.step = "register", !.port = p]]
    BY DEF PopEvents, Become
  <2> QED
    BY <2>3, <2>4, <2>5
<1>4. ASSUME c \notin again, ~q.fault
      PROVE  First(q, endpoint, adapter, lives, goRuntime, bootstrapped')
  <2>1. First(old, endpoint, adapter, lives, goRuntime, bootstrapped)
    BY <1>3, <1>4 DEF FirstBoot, FirstAt
  <2> QED
    BY <1>1, <1>2, <1>3, <2>1, OnwardFirst
<1> QED
  BY <1>2, <1>3, <1>4, MovesFirst

\* A child is new, and calls on others reach the adapters they have reached.
LEMMA RegisterChildFirst ==
    ASSUME DapInv, FirstBoot, NEW c \in Workers, RegisterChild(c)
    PROVE  FirstBoot'
<1> DEFINE old == call[c]
           p == old.port
<1>1. old \in Active
  BY CallAt DEF RegisterChild
<1>2. UNCHANGED <<adapter, bootstrapped, goRuntime, again>>
  BY DEF RegisterChild
<1>3. PICK q :
        /\ call' = [call EXCEPT ![c] = q]
        /\ \/ q.step = "done" /\ q.result # "refused"
           \/ q.step = "lookup" /\ q.boot = "child"
  <2>1. Ended(old, "no id").step = "done" /\ Ended(old, "no id").result # "refused"
    BY DEF Ended
  <2>2. ASSUME NEW k, NEW f
        PROVE  LET q == [Looked(old) EXCEPT !.session = k, !.boot = "child", !.fault = f] IN
               q.step = "lookup" /\ q.boot = "child"
    <3> DEFINE x == Looked(old)
    <3>1. x \in Active /\ x.step = "lookup"
      BY <1>1, LookedKeeps
    <3> HIDE DEF x
    <3>2. LET z == [x EXCEPT !.session = k, !.boot = "child", !.fault = f] IN
          z.step = "lookup" /\ z.boot = "child"
      BY <3>1 DEF Active, Fields
    <3> QED
      BY <3>2 DEF x
  <2>3. CASE \E k, f : call' = [call EXCEPT ![c] =
                         [Looked(old) EXCEPT !.session = k, !.boot = "child", !.fault = f]]
    <3>1. PICK k, f : call' = [call EXCEPT ![c] =
                        [Looked(old) EXCEPT !.session = k, !.boot = "child", !.fault = f]]
      BY <2>3
    <3> DEFINE q == [Looked(old) EXCEPT !.session = k, !.boot = "child", !.fault = f]
    <3>2. q.step = "lookup" /\ q.boot = "child"
      BY <2>2
    <3> HIDE DEF q
    <3>3. call' = [call EXCEPT ![c] = q]
      BY <3>1 DEF q
    <3> QED
      BY <3>2, <3>3
  <2>4. \/ call' = [call EXCEPT ![c] = Ended(old, "no id")]
        \/ \E k, f : call' = [call EXCEPT ![c] =
                       [Looked(old) EXCEPT !.session = k, !.boot = "child", !.fault = f]]
    BY DEF RegisterChild, Become
  <2> QED
    BY <2>1, <2>3, <2>4
<1>4. \A l \in Lives : lives'[l].ready = lives[l].ready
  <2>1. \A l \in Lives : lives[l] \in Adapter
    BY DEF DapInv, World, Lives
  <2>2. \A a \in Adapter : \A k : [a EXCEPT !.session = k].ready = a.ready
    BY DEF Adapter
  <2>3. CASE \E k : lives' = [l \in Lives |->
               IF l = adapter[p] /\ lives[l].session = Orphan
               THEN [lives[l] EXCEPT !.session = k] ELSE lives[l]]
    <3>1. PICK k : lives' = [l \in Lives |->
            IF l = adapter[p] /\ lives[l].session = Orphan
            THEN [lives[l] EXCEPT !.session = k] ELSE lives[l]]
      BY <2>3
    <3> QED
      BY <2>1, <2>2, <3>1
  <2>4. \/ lives' = lives
        \/ \E k : lives' = [l \in Lives |->
             IF l = adapter[p] /\ lives[l].session = Orphan
             THEN [lives[l] EXCEPT !.session = k] ELSE lives[l]]
    BY DEF RegisterChild
  <2> QED
    BY <2>3, <2>4
<1>5. \A t \in Ids : endpoint[t] # NoPort => endpoint'[t] = endpoint[t]
  BY DEF RegisterChild, DapInv, World
<1>6. ASSUME NEW t \in Ids, Reaches(t, endpoint, adapter, lives)
      PROVE  Calm(t)
  <2>1. endpoint[t] \in Ports /\ adapter[endpoint[t]] \in Lives
    BY <1>6 DEF Reaches, DapInv, World
  <2> QED
    BY <1>2, <1>4, <1>5, <1>6, <2>1 DEF Calm, Reaches
<1>7. call'[c] = q /\ \A w \in Workers \ {c} : call'[w] = call[w]
  BY <1>3 DEF DapInv, Calls
<1>8. FirstAt(c)'
  BY <1>3, <1>7 DEF FirstAt, First, Active, Fields, Finished
<1>9. ASSUME NEW w \in Workers \ {c}
      PROVE  FirstAt(w)'
  <2>1. call[w] \in Active /\ ~call[w].fault => Calm(call[w].session)
    BY <1>6 DEF DapInv, Calls, Steady, Active, Fields
  <2> QED
    BY <1>2, <1>7, <2>1, StaysFirst
<1> QED
  BY <1>8, <1>9 DEF FirstBoot

\* Trouble with the adapter of s is held against the calls on s; the others are as before.
CalmBut(s) == \A t \in Ids \ {s} : Reaches(t, endpoint, adapter, lives) => Calm(t)

LEMMA DisturbedFirst ==
    ASSUME DapInv, FirstBoot, NEW s, CalmBut(s), UNCHANGED again,
           NEW w \in Workers, call'[w] = Disturbed(s)[w]
    PROVE  FirstAt(w)'
<1>1. Disturbed(s)[w] =
        IF call[w].step \notin {"idle", "done"} /\ call[w].session = s THEN Fault(call[w]) ELSE call[w]
  BY DebugAssumption DEF Disturbed
<1>2. call[w] \in {Idle} \union Active \union Finished
  BY DEF DapInv, Calls
<1>3. CASE call[w] \in Active /\ call[w].session = s
  <2>1. call'[w] = Fault(call[w])
    BY <1>1, <1>2, <1>3, ByStep
  <2> QED
    BY <1>3, <2>1, FaultKeeps DEF FirstAt
<1>4. CASE ~(call[w] \in Active /\ call[w].session = s)
  <2>1. call'[w] = call[w]
    BY <1>1, <1>2, <1>4, ByStep
  <2>2. call[w] \in Active /\ ~call[w].fault => Calm(call[w].session)
    BY <1>4 DEF CalmBut, DapInv, Calls, Steady, Active, Fields
  <2> QED
    BY <2>1, <2>2, StaysFirst
<1> QED
  BY <1>3, <1>4

LEMMA UnregisterChildFirst ==
    ASSUME DapInv, Healthy, FirstBoot, NEW c \in Workers, UnregisterChild(c)
    PROVE  FirstBoot'
<1> DEFINE old == call[c]
           s == old.session
           q == Ended(old, old.error)
<1>1. old \in Active /\ old.step = "unregister" /\ s \in Ids
  BY CallAt DEF UnregisterChild, Active, Fields
<1>2. /\ UNCHANGED <<goRuntime, adapter, lives, bootstrapped, again>>
      /\ endpoint' = [endpoint EXCEPT ![s] = NoPort] /\ call' = [Disturbed(s) EXCEPT ![c] = q]
  BY DEF UnregisterChild
<1>3. q.fault
  BY <1>1, FaultlessCall DEF Fine, Ended
<1> HIDE DEF q
<1>4. CalmBut(s)
  BY <1>2 DEF CalmBut, Calm, DapInv, World
<1>5. call'[c] = q /\ \A w \in Workers \ {c} : call'[w] = Disturbed(s)[w]
  BY <1>2, DebugAssumption DEF Disturbed
<1>6. FirstAt(c)'
  BY <1>3, <1>5 DEF FirstAt
<1> QED
  BY <1>2, <1>4, <1>5, <1>6, DisturbedFirst DEF FirstBoot

LEMMA AdapterExitsFirst ==
    ASSUME DapInv, FirstBoot, NEW p \in Ports, AdapterExits(p)
    PROVE  FirstBoot'
<1> DEFINE l == adapter[p]
           s == lives[l].session
<1>1. l \in Lives /\ \A r \in Ports : r # p => adapter[r] # l
  BY DEF AdapterExits, DapInv, World
<1>2. /\ adapter' = [adapter EXCEPT ![p] = 0] /\ lives' = [lives EXCEPT ![l] = Gone]
      /\ UNCHANGED <<goRuntime, endpoint, bootstrapped, again>> /\ call' = Disturbed(s)
  BY DEF AdapterExits, Trouble
<1> HIDE DEF l
<1>3. ASSUME NEW t \in Ids \ {s}, Reaches(t, endpoint, adapter, lives)
      PROVE  Calm(t)
  <2>1. endpoint[t] \in Ports /\ adapter[endpoint[t]] \in Lives
    BY <1>3 DEF Reaches, DapInv, World
  <2>2. endpoint[t] # p
    BY <1>3 DEF Reaches, l
  <2>3. adapter'[endpoint[t]] = adapter[endpoint[t]] /\ adapter[endpoint[t]] # l
    BY <1>1, <1>2, <2>1, <2>2 DEF DapInv, World
  <2>4. lives'[adapter[endpoint[t]]] = lives[adapter[endpoint[t]]]
    BY <1>2, <2>1, <2>3 DEF Lives
  <2> QED
    BY <1>2, <2>3, <2>4 DEF Calm
<1> QED
  BY <1>2, <1>3, DisturbedFirst DEF CalmBut, FirstBoot

LEMMA HangsUpFirst ==
    ASSUME DapInv, FirstBoot, NEW p \in Ports, HangsUp(p)
    PROVE  FirstBoot'
<1> DEFINE l == adapter[p]
           s == lives[l].session
<1>1. /\ lives' = [lives EXCEPT ![l].epoch = @ + 1]
      /\ UNCHANGED <<goRuntime, endpoint, adapter, bootstrapped, again>> /\ call' = Disturbed(s)
  BY DEF HangsUp, Trouble
<1>2. ASSUME NEW t \in Ids \ {s}, Reaches(t, endpoint, adapter, lives)
      PROVE  Calm(t)
  <2>1. endpoint[t] \in Ports /\ adapter[endpoint[t]] \in Lives
    BY <1>2 DEF Reaches, DapInv, World
  <2>2. adapter[endpoint[t]] # l
    BY <1>2 DEF Reaches
  <2> HIDE DEF l
  <2>3. lives'[adapter[endpoint[t]]] = lives[adapter[endpoint[t]]]
    BY <1>1, <2>1, <2>2 DEF Lives
  <2> QED
    BY <1>1, <2>3 DEF Calm
<1> QED
  BY <1>1, <1>2, DisturbedFirst DEF CalmBut, FirstBoot

\* Whoever reaches an adapter reaches the same one, and no call takes a step.
LEMMA UnnoticedFirst ==
    ASSUME DapInv, FirstBoot, UNCHANGED <<goRuntime, bootstrapped, call, again>>,
           \A t \in Ids : Reaches(t, endpoint, adapter, lives) =>
             lives'[adapter'[endpoint'[t]]] = lives[adapter[endpoint[t]]]
    PROVE  FirstBoot'
<1>1. \A w \in Workers : call[w] \in Active /\ ~call[w].fault => Calm(call[w].session)
  BY DEF Calm, DapInv, Calls, Steady, Active, Fields
<1> QED
  BY <1>1, StaysFirst DEF FirstBoot

LEMMA NewLifeFirst ==
    ASSUME DapInv, FirstBoot, NEW p \in Ports, NEW s, NewLife(p, s),
           UNCHANGED <<goRuntime, endpoint, bootstrapped, call, again>>
    PROVE  FirstBoot'
<1>1. /\ adapter[p] = 0 /\ lives \in Seq(Adapter)
      /\ \A q \in Ports : q # p => adapter'[q] = adapter[q]
  BY DEF NewLife, DapInv, World
<1>2. \A l \in Lives : lives'[l] = lives[l]
  BY <1>1 DEF NewLife, Lives
<1>3. ASSUME NEW t \in Ids, Reaches(t, endpoint, adapter, lives)
      PROVE  lives'[adapter'[endpoint'[t]]] = lives[adapter[endpoint[t]]]
  <2>1. endpoint[t] \in Ports /\ adapter[endpoint[t]] \in Lives /\ endpoint[t] # p
    BY <1>1, <1>3 DEF Reaches, DapInv, World
  <2> QED
    BY <1>1, <1>2, <2>1
<1> QED
  BY <1>3, UnnoticedFirst

LEMMA AdaptersFirst ==
    ASSUME DapInv, FirstBoot, Adapters
    PROVE  FirstBoot'
<1>1. ASSUME NEW p \in Ports, Occupied(p)
      PROVE  FirstBoot'
  BY <1>1, NewLifeFirst DEF Occupied
<1>2. ASSUME NEW s \in Sessions, Listens(s)
      PROVE  FirstBoot'
  <2>1. s \in Ids /\ endpoint[s] \in Ports
    BY DEF DapInv, World, Ids
  <2> QED
    BY <1>2, <2>1, NewLifeFirst DEF Listens
<1>3. ASSUME NEW k, OffersSubprocess(k)
      PROVE  FirstBoot'
  BY <1>3, NewLifeFirst DEF OffersSubprocess
<1>4. ASSUME NEW s \in Sessions, ResolvesPort(s)
      PROVE  FirstBoot'
  <2>1. /\ UNCHANGED <<goRuntime, adapter, lives, bootstrapped, call, again>>
        /\ ~Reaches(s, endpoint, adapter, lives)
    BY <1>4 DEF ResolvesPort, Alive, Reaches
  <2>2. \A t \in Ids : t # s => endpoint'[t] = endpoint[t]
    BY <1>4 DEF ResolvesPort, DapInv, World
  <2> QED
    BY <2>1, <2>2, UnnoticedFirst
<1> QED
  BY <1>1, <1>2, <1>3, <1>4, AdapterExitsFirst, HangsUpFirst DEF Adapters

LEMMA DispatchFirst ==
    ASSUME DapInv, FirstBoot, NEW c \in Workers, Dispatch(c)
    PROVE  FirstBoot'
<1>1. PICK route \in Routes : Begin(c, route.op, route.session)
  BY DEF Dispatch
<1> DEFINE s == route.session
           q == Calling(route.op, s)
<1>2. /\ UNCHANGED <<goRuntime, endpoint, adapter, lives, bootstrapped>>
      /\ call' = [call EXCEPT ![c] = q]
      /\ again' = IF Unflagged(s) THEN again \union {c} ELSE again
  BY <1>1 DEF Begin, Become
<1>3. q.step = "lookup" /\ q.session = s /\ q.boot = "no" /\ (~q.fault => Alive(s))
  BY DEF Calling
<1>4. call'[c] = q /\ \A w \in Workers \ {c} : call'[w] = call[w]
  BY <1>2 DEF DapInv, Calls
<1> HIDE DEF q, s
<1>5. FirstAt(c)'
  <2>1. c \notin again' /\ ~q.fault
          => (s \in goRuntime /\ lives[adapter[endpoint[s]]].ready => s \in bootstrapped)
    BY <1>2, <1>3 DEF Unflagged
  <2>2. q \notin Finished
    BY <1>3 DEF Finished
  <2> QED
    BY <1>2, <1>3, <1>4, <2>1, <2>2 DEF FirstAt, First
<1>6. \A t : Calm(t)
  BY <1>2 DEF Calm
<1>7. \A w \in Workers \ {c} : FirstAt(w)'
  BY <1>2, <1>4, <1>6, StaysFirst
<1> QED
  BY <1>5, <1>7 DEF FirstBoot

LEMMA AnswerCallFirst ==
    ASSUME DapInv, FirstBoot, NEW c \in Workers, AnswerCall(c)
    PROVE  FirstBoot'
<1>1. /\ UNCHANGED <<goRuntime, endpoint, adapter, lives, bootstrapped>>
      /\ call' = [call EXCEPT ![c] = Idle] /\ again' = again \ {c}
  BY DEF AnswerCall, Become
<1>2. call'[c] = Idle /\ \A w \in Workers \ {c} : call'[w] = call[w]
  BY <1>1 DEF DapInv, Calls
<1>3. FirstAt(c)'
  <2>1. Idle \notin Active /\ Idle \notin Finished
    BY DEF Idle, Active, Fields, Finished
  <2> QED
    BY <1>2, <2>1 DEF FirstAt, First
<1>4. \A t : Calm(t)
  BY <1>1 DEF Calm
<1>5. \A w \in Workers \ {c} : FirstAt(w)'
  BY <1>1, <1>2, <1>4, StaysFirst
<1> QED
  BY <1>3, <1>5 DEF FirstBoot

LEMMA StepFirst ==
    ASSUME DapInv, Healthy, FirstBoot, [Next]_vars
    PROVE  FirstBoot'
<1>1. CASE UNCHANGED dapVars
  <2>1. UNCHANGED <<goRuntime, endpoint, adapter, lives, bootstrapped, call, again>>
    BY <1>1 DEF dapVars
  <2> QED
    BY <2>1, UnnoticedFirst
<1>2. CASE Adapters
  BY <1>2, AdaptersFirst
<1>3. ASSUME NEW w \in Workers, CallStep(w)
      PROVE  FirstBoot'
  BY <1>3, FlagFirst, LookupFirst, ConnectFirst, InsertFirst, SendAnsweredFirst, SendRefusedFirst,
     SendTimesOutFirst, SendFailsFirst, DropSessionFirst, PopEventsFirst, RegisterChildFirst,
     UnregisterChildFirst
  DEF CallStep
<1>4. UNCHANGED vars => UNCHANGED dapVars
  BY DEF vars
<1>5. Next => Adapters \/ UNCHANGED dapVars
                \/ \E w \in Workers : CallStep(w) \/ Dispatch(w) \/ AnswerCall(w)
  BY DEF Next, Serve, AnswerOther
<1> QED
  BY <1>1, <1>2, <1>3, <1>4, <1>5, DispatchFirst, AnswerCallFirst

-----------------------------------------------------------------------------
(* The theorems *)

\* Whatever the calls and the adapters do, the server takes the steps of HttpServer and no
\* others: handle_serve, whose workers are inside response_for_request meanwhile.
THEOREM ServerTakesHttpSteps == Spec => HttpSteps
<1>1. Init => HttpInit
  BY DEF Init
<1>2. [Next]_vars => [HttpNext]_httpVars
  <2>1. ASSUME NEW w \in Workers, Serve(w)
        PROVE  HttpWork(w) \/ UNCHANGED httpVars
    BY <2>1 DEF Serve, HttpWork, Dispatch, AnswerOther, AnswerCall
  <2> QED
    BY <2>1 DEF Next, HttpNext, vars
<1> QED
  BY <1>1, <1>2, PTL DEF Spec, HttpSteps

THEOREM DebugInvariant == Spec => [](HttpInv /\ DapInv)
<1>1. Init => DapInv
  BY DapInitHolds DEF Init
<1>2. HttpInv /\ DapInv /\ [Next]_vars => DapInv'
  BY StepKeeps DEF Kept, DapInv
<1> QED
  BY <1>1, <1>2, ServerTakesHttpSteps, HttpInvariant, PTL DEF Spec

\* The workers answer every request once and count it, and leave none behind when they are
\* joined, also when what they do for it is a call of the registry that fails, is repeated or
\* waits: handle_serve and response_for_request.
THEOREM ServerStaysSound == Spec => []ServerInv
<1>1. HttpInv /\ DapInv => ServerInv
  BY DrainedByThen DEF ServerInv, DebugTypeOK, HttpInv, DapInv, World, Busy
<1> QED
  BY <1>1, DebugInvariant, PTL

\* A request goes to the adapter of its session, unless that went away since the call began:
\* proxy_for_session, whose connection matches the record it has read.
THEOREM RequestsReachTheirSession == Spec => []NeverMisdirected
<1>1. ASSUME DapInv, NEW w \in Workers, At(w, "send"), Up(call[w].conn), ~call[w].fault
      PROVE  lives[call[w].conn.life].session = call[w].session
  <2>1. call[w] \in Active /\ call[w].step = "send" /\ Steady(call[w], endpoint, adapter, lives)
    BY <1>1, CallAt
  <2> QED
    BY <1>1, <2>1 DEF Steady, Reaches, Up
<1>2. DapInv => NeverMisdirected
  BY <1>1 DEF NeverMisdirected
<1> QED
  BY <1>2, DebugInvariant, PTL

\* A call succeeds whose adapter was there all the time, however many threads share the registry
\* and whatever they drop and insert, but for a request whose bootstrap the adapter refuses; and
\* that has been bootstrapped by another call, or was before and the registry did not know:
\* send_request_with_retry and what it calls.
THEOREM SteadyCallsSucceed == Spec => []SteadyCallSucceeds
<1>1. Init => Healthy /\ FirstBoot
  <2>1. Idle \notin Active /\ Idle \notin Finished
    BY DEF Idle, Active, Fields, Finished
  <2> QED
    BY <2>1, DebugAssumption DEF Init, DapInit, Healthy, Well, FirstBoot, FirstAt, First
<1>2. HttpInv /\ DapInv /\ Healthy /\ FirstBoot /\ [Next]_vars => Healthy' /\ FirstBoot'
  BY StepHealthy, StepFirst
<1>3. DapInv /\ Healthy /\ FirstBoot => SteadyCallSucceeds
  <2>1. ASSUME DapInv, Healthy, FirstBoot, NEW w \in Workers, At(w, "done"), ~call[w].fault
        PROVE  \/ call[w].result \in {"ok", "no event", "no id"}
               \/ call[w].result = "refused" /\ w \in again
    <3>1. call[w] \in Finished
      BY <2>1, ByStep DEF DapInv, Calls, At
    <3>2. call[w].result \in Good
      BY <2>1, <3>1 DEF Healthy, Well
    <3>3. w \notin again => call[w].result # "refused"
      BY <2>1, <3>1 DEF FirstBoot, FirstAt, First
    <3> QED
      BY <3>2, <3>3 DEF Good
  <2> QED
    BY <2>1 DEF SteadyCallSucceeds
<1> QED
  BY <1>1, <1>2, <1>3, DebugInvariant, PTL DEF Spec

\* Without a fault of its adapter a request is carried out at most once, through all the
\* retries and bootstraps of send_request_with_retry.
THEOREM RequestsRunOnce == Spec => []RanOnceWithoutFault
<1>1. DapInv => RanOnceWithoutFault
  <2>1. ASSUME DapInv, NEW w \in Workers, At(w, "done")
        PROVE  call[w].ran <= 1
    <3>1. call[w] \in Finished
      BY <2>1, ByStep DEF DapInv, Calls, At
    <3>2. call[w].ran \in {0, 1}
      BY <3>1 DEF Finished
    <3> QED
      BY <3>2
  <2> QED
    BY <2>1 DEF RanOnceWithoutFault
<1> QED
  BY <1>1, DebugInvariant, PTL

\* By the time a failed adoption answers, no record of its child is left:
\* adopt_debugpy_subprocess.
THEOREM FailedAdoptionsCleanUp == Spec => FailedAdoptionLeavesNoChild
<1>1. ASSUME HttpInv, DapInv, [Next]_vars
      PROVE  [\A w \in Workers :
                LET r == call'[w] IN
                call[w] # r /\ r.step = "done" /\ r.result # "ok"
                  => \A k \in r.child : endpoint'[k] = NoPort]_vars
  BY <1>1, StepKeeps DEF Kept, Clean
<1> QED
  BY <1>1, DebugInvariant, PTL DEF Spec, FailedAdoptionLeavesNoChild
=============================================================================
