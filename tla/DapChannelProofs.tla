-------------------------- MODULE DapChannelProofs --------------------------
(***************************************************************************)
(* What holds of a connection for every number of callers, every size of   *)
(* batch and any number of sequence numbers.  A sequence number is used    *)
(* once, and the response to it is in one place at a time: with the        *)
(* adapter, in the reader's hand or in the caller's channel.               *)
(***************************************************************************)
EXTENDS DapChannel, SequenceTheorems, TLAPS

InTheAir == unanswered \union {delivering} \union answers

\* Sequence numbers are handed out in order.
Fresh ==
    /\ \A n \in waiters \union orphans : n < nextSeq
    /\ \A m \in InTheAir : m.seq < nextSeq
    /\ \A c \in Callers : \A n \in call[c].pending : n < nextSeq

Apart ==
    \A c, d \in Callers : c # d => call[c].pending \intersect call[d].pending = {}

Polling == {"idle", "poll"}

Single(c) == ~call[c].batch /\ call[c].step \notin Polling

\* What a caller has in hand at each step.
StepInv(c) ==
    /\ call[c].step \in Polling => call[c].pending = {}
    /\ call[c].step \in {"write", "unregister", "wait", "remove"} =>
         call[c].current \in call[c].pending
    /\ call[c].step = "start" => call[c].todo > 0
    /\ Single(c) =>
         IF call[c].step = "start" THEN call[c].todo = 1 /\ call[c].pending = {}
         ELSE /\ call[c].todo = 0 /\ call[c].step # "check"
              /\ call[c].pending = {call[c].current}

Own ==
    \A c \in Callers, m \in InTheAir : m.seq \in call[c].pending => m.of = c

Unsent ==
    \A c \in Callers, m \in InTheAir :
        call[c].step \in {"write", "unregister"} => m.seq # call[c].current

\* One request has one response, in one place, and a waiter only before that.
Once ==
    /\ \A m, k \in unanswered : m.seq = k.seq => m = k
    /\ \A m \in unanswered : m.seq # delivering.seq /\ ~Answered(m.seq)
    /\ \A n \in waiters : n # delivering.seq /\ ~Answered(n)

Waiting ==
    ~closed => \A c \in Callers : \A n \in call[c].pending :
        n \in waiters \/ n = delivering.seq \/ Answered(n)

ClosedInv == closed => delivering = NoMessage /\ waiters \subseteq orphans

ChannelInv ==
    /\ TypeOK
    /\ Fresh
    /\ Apart
    /\ \A c \in Callers : StepInv(c)
    /\ Own
    /\ Unsent
    /\ Once
    /\ Waiting
    /\ AnswerNotLost
    /\ ClosedInv

-----------------------------------------------------------------------------
(* Steps of one caller, and the event queue *)

LEMMA BecomeKeeps ==
    ASSUME call \in [Callers -> Calls],
           NEW c \in Callers, NEW r \in Calls, Become(c, r)
    PROVE  /\ call' \in [Callers -> Calls]
           /\ call'[c] = r
           /\ \A d \in Callers : d # c => call'[d] = call[d]
<1> QED
  BY DEF Become

LEMMA PendingType ==
    ASSUME call \in [Callers -> Calls], NEW c \in Callers
    PROVE  /\ call[c] \in Calls
           /\ call[c].pending \subseteq Nat \ {0}
           /\ call[c].current \in Nat /\ call[c].todo \in Nat /\ call[c].max \in Nat
           /\ call[c].batch \in BOOLEAN
<1> QED
  BY DEF Calls, Seqs

LEMMA IdleType ==
    /\ Idle \in Calls
    /\ Idle.step = "idle" /\ Idle.batch = FALSE /\ Idle.todo = 0 /\ Idle.pending = {}
    /\ Idle.current = 0 /\ Idle.max = 0
<1> QED
  BY DEF Idle, Calls, Steps

LEMMA TakeKeeps ==
    ASSUME queue \in Seq(Nat), handed \in Seq(Nat), NEW max \in Nat, Take(max)
    PROVE  queue' \in Seq(Nat) /\ handed' \in Seq(Nat)
<1> DEFINE n == Least(max, Len(queue))
<1>1. n \in 0 .. Len(queue)
  BY DEF Least
<1>2. SubSeq(queue, 1, n) \in Seq(Nat) /\ SubSeq(queue, n + 1, Len(queue)) \in Seq(Nat)
  BY <1>1
<1> QED
  BY <1>2 DEF Take

LEMMA PushEventKeeps ==
    ASSUME NEW q \in Seq(Nat), NEW e \in Nat
    PROVE  PushEvent(q, e) \in Seq(Nat)
<1>1. Append(q, e) \in Seq(Nat) /\ Append(q, e) # <<>>
  BY AppendProperties
<1>2. Tail(Append(q, e)) \in Seq(Nat)
  BY <1>1, HeadTailProperties
<1> QED
  BY <1>1, <1>2 DEF PushEvent

-----------------------------------------------------------------------------
(* Every action keeps the invariant *)

LEMMA SendRequestKeeps ==
    ASSUME ChannelInv, NEW c \in Callers, SendRequest(c)
    PROVE  ChannelInv'
<1> USE DEF ChannelInv
<1> DEFINE r == [Idle EXCEPT !.step = "start", !.todo = 1]
<1>a. call[c].step = "idle" /\ Become(c, r)
  BY DEF SendRequest, Begin, At
<1>b. /\ r \in Calls
      /\ r.step = "start" /\ r.batch = FALSE /\ r.todo = 1 /\ r.pending = {} /\ r.current = 0
  BY DEF Idle, Calls, Steps
<1>c. /\ call' \in [Callers -> Calls]
      /\ call'[c] = r
      /\ \A d \in Callers : d # c => call'[d] = call[d]
  BY <1>a, <1>b, BecomeKeeps DEF TypeOK
<1>d. UNCHANGED <<nextSeq, waiters, closed, queue, arrived, handed, answers, delivering, adapterUp, unanswered, orphans>>
  BY DEF SendRequest, inner, events
<1>e. \A d \in Callers : call[d].pending \subseteq Nat \ {0}
  BY PendingType DEF TypeOK
<1> HIDE DEF r
<1>inv1. TypeOK'
  BY <1>a, <1>b, <1>c, <1>d, <1>e DEF TypeOK
<1>inv2. Fresh'
  BY <1>a, <1>b, <1>c, <1>d, <1>e DEF Fresh, InTheAir
<1>inv3. Apart'
  BY <1>a, <1>b, <1>c, <1>d, <1>e DEF Apart
<1>inv4. (\A d \in Callers : StepInv(d))'
  BY <1>a, <1>b, <1>c, <1>d, <1>e DEF StepInv, Single, Polling
<1>inv5. Own'
  BY <1>a, <1>b, <1>c, <1>d, <1>e DEF Own, InTheAir
<1>inv6. Unsent'
  BY <1>a, <1>b, <1>c, <1>d, <1>e DEF Unsent, InTheAir
<1>inv7. Once'
  BY <1>a, <1>b, <1>c, <1>d, <1>e DEF Once, Answered
<1>inv8. Waiting'
  BY <1>a, <1>b, <1>c, <1>d, <1>e DEF Waiting, Answered
<1>inv9. AnswerNotLost'
  BY <1>a, <1>b, <1>c, <1>d, <1>e DEF AnswerNotLost, Written
<1>inv10. ClosedInv'
  BY <1>a, <1>b, <1>c, <1>d, <1>e DEF ClosedInv
<1> QED
  BY <1>inv1, <1>inv2, <1>inv3, <1>inv4, <1>inv5, <1>inv6, <1>inv7, <1>inv8, <1>inv9, <1>inv10

LEMMA SendBatchKeeps ==
    ASSUME ChannelInv, NEW c \in Callers, SendBatch(c)
    PROVE  ChannelInv'
<1> USE DEF ChannelInv
<1>1. PICK n \in 1 .. MaxBatch :
        Begin(c, [Idle EXCEPT !.step = "start", !.batch = TRUE, !.todo = n])
  BY DEF SendBatch
<1>2. n \in Nat /\ n > 0
  BY ChannelAssumption
<1> DEFINE r == [Idle EXCEPT !.step = "start", !.batch = TRUE, !.todo = n]
<1>a. call[c].step = "idle" /\ Become(c, r)
  BY <1>1 DEF Begin, At
<1>b. /\ r \in Calls
      /\ r.step = "start" /\ r.batch = TRUE /\ r.todo > 0 /\ r.pending = {} /\ r.current = 0
  BY <1>2 DEF Idle, Calls, Steps
<1>c. /\ call' \in [Callers -> Calls]
      /\ call'[c] = r
      /\ \A d \in Callers : d # c => call'[d] = call[d]
  BY <1>a, <1>b, BecomeKeeps DEF TypeOK
<1>d. UNCHANGED <<nextSeq, waiters, closed, queue, arrived, handed, answers, delivering, adapterUp, unanswered, orphans>>
  BY DEF SendBatch, inner, events
<1>e. \A d \in Callers : call[d].pending \subseteq Nat \ {0}
  BY PendingType DEF TypeOK
<1> HIDE DEF r
<1>inv1. TypeOK'
  BY <1>a, <1>b, <1>c, <1>d, <1>e DEF TypeOK
<1>inv2. Fresh'
  BY <1>a, <1>b, <1>c, <1>d, <1>e DEF Fresh, InTheAir
<1>inv3. Apart'
  BY <1>a, <1>b, <1>c, <1>d, <1>e DEF Apart
<1>inv4. (\A d \in Callers : StepInv(d))'
  BY <1>a, <1>b, <1>c, <1>d, <1>e DEF StepInv, Single, Polling
<1>inv5. Own'
  BY <1>a, <1>b, <1>c, <1>d, <1>e DEF Own, InTheAir
<1>inv6. Unsent'
  BY <1>a, <1>b, <1>c, <1>d, <1>e DEF Unsent, InTheAir
<1>inv7. Once'
  BY <1>a, <1>b, <1>c, <1>d, <1>e DEF Once, Answered
<1>inv8. Waiting'
  BY <1>a, <1>b, <1>c, <1>d, <1>e DEF Waiting, Answered
<1>inv9. AnswerNotLost'
  BY <1>a, <1>b, <1>c, <1>d, <1>e DEF AnswerNotLost, Written
<1>inv10. ClosedInv'
  BY <1>a, <1>b, <1>c, <1>d, <1>e DEF ClosedInv
<1> QED
  BY <1>inv1, <1>inv2, <1>inv3, <1>inv4, <1>inv5, <1>inv6, <1>inv7, <1>inv8, <1>inv9, <1>inv10

LEMMA RegisterKeeps ==
    ASSUME ChannelInv, NEW c \in Callers, Register(c)
    PROVE  ChannelInv'
<1> USE DEF ChannelInv
<1> DEFINE r == [call[c] EXCEPT !.step = "write", !.todo = @ - 1,
                                !.pending = @ \union {nextSeq}, !.current = nextSeq]
<1>a. call[c].step = "start" /\ call[c].todo > 0 /\ Become(c, r)
  BY DEF Register, At, StepInv
<1>1. call[c] \in Calls /\ call[c].todo - 1 \in Nat /\ nextSeq \in Nat \ {0}
  BY <1>a, PendingType DEF TypeOK, Seqs
<1>b. /\ r \in Calls
      /\ r.step = "write" /\ r.batch = call[c].batch /\ r.todo = call[c].todo - 1
      /\ r.pending = call[c].pending \union {nextSeq} /\ r.current = nextSeq
  BY <1>1 DEF Calls, Steps, Seqs
<1>c. /\ call' \in [Callers -> Calls]
      /\ call'[c] = r
      /\ \A d \in Callers : d # c => call'[d] = call[d]
  BY <1>a, <1>b, BecomeKeeps DEF TypeOK
<1>d. /\ nextSeq' = nextSeq + 1
      /\ waiters' = waiters \union {nextSeq}
      /\ orphans' = IF closed THEN orphans \union {nextSeq} ELSE orphans
      /\ UNCHANGED <<closed, queue, arrived, handed, answers, delivering, adapterUp, unanswered>>
  BY DEF Register, events
<1>e. \A d \in Callers : call[d].pending \subseteq Nat \ {0}
  BY PendingType DEF TypeOK
<1> HIDE DEF r
<1>inv1. TypeOK'
  <2>1. nextSeq' \in Seqs /\ nextSeq \in Seqs
    BY <1>1, <1>d DEF Seqs
  <2>2. waiters' \subseteq Seqs /\ orphans' \subseteq Seqs
    BY <2>1, <1>d DEF TypeOK
  <2> QED
    BY <2>1, <2>2, <1>c, <1>d DEF TypeOK
<1>inv2. Fresh'
  BY <1>a, <1>b, <1>c, <1>d, <1>e DEF Fresh, InTheAir, TypeOK, Messages, NoMessage, Seqs
<1>inv3. Apart'
  <2>1. \A d \in Callers : call'[d].pending \ {nextSeq} = call[d].pending
    <3> SUFFICES ASSUME NEW d \in Callers PROVE call'[d].pending \ {nextSeq} = call[d].pending
      OBVIOUS
    <3>1. nextSeq \notin call[d].pending
      BY <1>1, <1>e DEF Fresh
    <3> QED
      BY <1>b, <1>c, <3>1
  <2>2. \A d \in Callers : d # c => nextSeq \notin call'[d].pending
    BY <1>1, <1>c, <1>e DEF Fresh
  <2>3. ASSUME NEW b \in Callers, NEW d \in Callers, b # d,
               NEW n \in call'[b].pending, n \in call'[d].pending
        PROVE  FALSE
    <3>1. n # nextSeq
      BY <2>2, <2>3
    <3>2. n \in call[b].pending /\ n \in call[d].pending
      BY <2>1, <2>3, <3>1
    <3> QED
      BY <2>3, <3>2 DEF Apart
  <2> QED
    BY <2>3 DEF Apart
<1>inv4. (\A d \in Callers : StepInv(d))'
  BY <1>a, <1>b, <1>c, <1>d, <1>e DEF StepInv, Single, Polling
<1>inv5. Own'
  BY <1>a, <1>b, <1>c, <1>d, <1>e DEF Own, InTheAir, Fresh, TypeOK, Seqs
<1>inv6. Unsent'
  <2>1. \A m \in InTheAir : m.seq # nextSeq
    BY <1>1 DEF Fresh
  <2> QED
    BY <2>1, <1>b, <1>c, <1>d DEF Unsent, InTheAir
<1>inv7. Once'
  BY <1>a, <1>b, <1>c, <1>d, <1>e DEF Once, Answered, Fresh, InTheAir, TypeOK, Seqs
<1>inv8. Waiting'
  BY <1>a, <1>b, <1>c, <1>d, <1>e DEF Waiting, Answered
<1>inv9. AnswerNotLost'
  BY <1>a, <1>b, <1>c, <1>d, <1>e DEF AnswerNotLost, Written
<1>inv10. ClosedInv'
  BY <1>a, <1>b, <1>c, <1>d, <1>e DEF ClosedInv
<1> QED
  BY <1>inv1, <1>inv2, <1>inv3, <1>inv4, <1>inv5, <1>inv6, <1>inv7, <1>inv8, <1>inv9, <1>inv10

LEMMA WriteKeeps ==
    ASSUME ChannelInv, NEW c \in Callers, Write(c)
    PROVE  ChannelInv'
<1> USE DEF ChannelInv
<1>a. /\ call[c] \in Calls /\ call[c].todo \in Nat
      /\ call[c].step = "write" /\ call[c].current \in call[c].pending
  BY PendingType DEF Write, At, TypeOK, StepInv
<1>b. PICK r \in Calls :
        /\ Become(c, r)
        /\ r.batch = call[c].batch /\ r.todo = call[c].todo
        /\ r.pending = call[c].pending /\ r.current = call[c].current
        /\ r.step = "start" => r.todo > 0
        /\ r.step \in {"start", "check", "wait", "unregister"}
        /\ r.step # "unregister" => (r.step = "start" <=> r.todo > 0)
        /\ r.step = "check" => r.batch
        /\ r.step = "unregister" => UNCHANGED unanswered
        /\ r.step # "unregister" => 
             unanswered' = IF adapterUp
                             THEN unanswered \union {[seq |-> call[c].current, of |-> c]}
                             ELSE unanswered
  <2>1. CASE Become(c, AfterWrite(call[c])) /\ 
             unanswered' = IF adapterUp
                             THEN unanswered \union {[seq |-> call[c].current, of |-> c]}
                             ELSE unanswered
    <3>1. /\ AfterWrite(call[c]) \in Calls
          /\ AfterWrite(call[c]).batch = call[c].batch /\ AfterWrite(call[c]).todo = call[c].todo
          /\ AfterWrite(call[c]).pending = call[c].pending
          /\ AfterWrite(call[c]).current = call[c].current
          /\ AfterWrite(call[c]).step = IF call[c].todo > 0 THEN "start"
                                        ELSE IF call[c].batch THEN "check" ELSE "wait"
      BY <1>a DEF AfterWrite, Calls, Steps
    <3> QED
      BY <2>1, <3>1, <1>a
  <2>2. CASE Become(c, [call[c] EXCEPT !.step = "unregister"]) /\ UNCHANGED unanswered
    <3> DEFINE s == [call[c] EXCEPT !.step = "unregister"]
    <3>1. /\ s \in Calls /\ s.batch = call[c].batch /\ s.todo = call[c].todo
          /\ s.pending = call[c].pending /\ s.current = call[c].current
          /\ s.step = "unregister"
      BY <1>a DEF Calls, Steps
    <3> QED
      BY <2>2, <3>1
  <2> QED
    BY <2>1, <2>2 DEF Write
<1>c. /\ call' \in [Callers -> Calls]
      /\ call'[c] = r
      /\ \A d \in Callers : d # c => call'[d] = call[d]
  BY <1>a, <1>b, BecomeKeeps DEF TypeOK
<1>d. UNCHANGED <<nextSeq, waiters, closed, queue, arrived, handed, answers, delivering, adapterUp, orphans>>
  BY DEF Write, inner, events
<1>e. \A d \in Callers : call[d].pending \subseteq Nat \ {0}
  BY PendingType DEF TypeOK
<1>inv1. TypeOK'
  BY <1>a, <1>b, <1>c, <1>d, <1>e DEF TypeOK, Messages, Seqs
<1>inv2. Fresh'
  BY <1>a, <1>b, <1>c, <1>d, <1>e DEF Fresh, InTheAir, TypeOK, Seqs
<1>inv3. Apart'
  BY <1>a, <1>b, <1>c, <1>d, <1>e DEF Apart
<1>inv4. (\A d \in Callers : StepInv(d))'
  BY <1>a, <1>b, <1>c, <1>d, <1>e DEF StepInv, Single, Polling
<1>inv5. Own'
  BY <1>a, <1>b, <1>c, <1>d, <1>e DEF Own, InTheAir, Apart
<1>inv6. Unsent'
  BY <1>a, <1>b, <1>c, <1>d, <1>e DEF Unsent, InTheAir, Apart, StepInv
<1>inv7. Once'
  BY <1>a, <1>b, <1>c, <1>d, <1>e DEF Once, Answered, Unsent, InTheAir, Fresh, StepInv
<1>inv8. Waiting'
  BY <1>a, <1>b, <1>c, <1>d, <1>e DEF Waiting, Answered
<1>inv9. AnswerNotLost'
  <2> SUFFICES ASSUME NEW d \in Callers, NEW n \in Written(d)', closed' = FALSE, adapterUp' = TRUE
               PROVE  \E m \in (unanswered \union {delivering} \union answers)' : m.seq = n
    BY <1>d DEF AnswerNotLost, TypeOK
  <2>1. unanswered \subseteq unanswered'
    BY <1>b, <1>d
  <2>2. CASE n \in Written(d)
    BY <2>1, <2>2, <1>d DEF AnswerNotLost
  <2>3. CASE n \notin Written(d)
    <3>1. d = c /\ n = call[c].current /\ r.step # "unregister"
      BY <2>3, <1>a, <1>b, <1>c DEF Written
    <3>2. [seq |-> call[c].current, of |-> c] \in unanswered'
      BY <3>1, <1>b, <1>d
    <3> QED
      BY <3>1, <3>2
  <2> QED
    BY <2>2, <2>3
<1>inv10. ClosedInv'
  BY <1>a, <1>b, <1>c, <1>d, <1>e DEF ClosedInv
<1> QED
  BY <1>inv1, <1>inv2, <1>inv3, <1>inv4, <1>inv5, <1>inv6, <1>inv7, <1>inv8, <1>inv9, <1>inv10

LEMMA UnregisterKeeps ==
    ASSUME ChannelInv, NEW c \in Callers, Unregister(c)
    PROVE  ChannelInv'
<1> USE DEF ChannelInv
<1>a. /\ call[c].step = "unregister" /\ Become(c, Idle)
      /\ call[c].current \in call[c].pending
  BY DEF Unregister, At, Finish, StepInv
<1>c. /\ call' \in [Callers -> Calls]
      /\ call'[c] = Idle
      /\ \A d \in Callers : d # c => call'[d] = call[d]
  BY <1>a, IdleType, BecomeKeeps DEF TypeOK
<1>d. /\ answers' = {m \in answers : m.seq \notin call[c].pending}
      /\ waiters' = waiters \ {call[c].current}
      /\ UNCHANGED <<nextSeq, closed, queue, arrived, handed, delivering, adapterUp, unanswered, orphans>>
  BY DEF Unregister, Finish, events
<1>e. \A d \in Callers : call[d].pending \subseteq Nat \ {0}
  BY PendingType DEF TypeOK
<1>inv1. TypeOK'
  BY <1>a, IdleType, <1>c, <1>d, <1>e DEF TypeOK
<1>inv2. Fresh'
  BY <1>a, IdleType, <1>c, <1>d, <1>e DEF Fresh, InTheAir
<1>inv3. Apart'
  BY <1>a, IdleType, <1>c, <1>d, <1>e DEF Apart
<1>inv4. (\A d \in Callers : StepInv(d))'
  BY <1>a, IdleType, <1>c, <1>d, <1>e DEF StepInv, Single, Polling
<1>inv5. Own'
  BY <1>a, IdleType, <1>c, <1>d, <1>e DEF Own, InTheAir
<1>inv6. Unsent'
  BY <1>a, IdleType, <1>c, <1>d, <1>e DEF Unsent, InTheAir
<1>inv7. Once'
  BY <1>a, IdleType, <1>c, <1>d, <1>e DEF Once, Answered
<1>inv8. Waiting'
  BY <1>a, IdleType, <1>c, <1>d, <1>e DEF Waiting, Answered, Apart, StepInv
<1>inv9. AnswerNotLost'
  BY <1>a, IdleType, <1>c, <1>d, <1>e DEF AnswerNotLost, Written, Apart, StepInv
<1>inv10. ClosedInv'
  BY <1>a, IdleType, <1>c, <1>d, <1>e DEF ClosedInv
<1> QED
  BY <1>inv1, <1>inv2, <1>inv3, <1>inv4, <1>inv5, <1>inv6, <1>inv7, <1>inv8, <1>inv9, <1>inv10

LEMMA CheckDeadlineKeeps ==
    ASSUME ChannelInv, NEW c \in Callers, CheckDeadline(c)
    PROVE  ChannelInv'
<1> USE DEF ChannelInv
<1>1. PICK n \in call[c].pending, step \in {"wait", "remove"} :
        Become(c, [call[c] EXCEPT !.step = step, !.current = n])
  BY DEF CheckDeadline
<1> DEFINE r == [call[c] EXCEPT !.step = step, !.current = n]
<1>a. call[c].step = "check" /\ Become(c, r)
  BY <1>1 DEF CheckDeadline, At
<1>2. call[c] \in Calls /\ n \in Nat
  BY PendingType DEF TypeOK
<1>b. /\ r \in Calls /\ r.step = step /\ r.current = n
      /\ r.batch = call[c].batch /\ r.todo = call[c].todo /\ r.pending = call[c].pending
  BY <1>2 DEF Calls, Steps
<1>c. /\ call' \in [Callers -> Calls]
      /\ call'[c] = r
      /\ \A d \in Callers : d # c => call'[d] = call[d]
  BY <1>a, <1>b, BecomeKeeps DEF TypeOK
<1>d. UNCHANGED <<nextSeq, waiters, closed, queue, arrived, handed, answers, delivering, adapterUp, unanswered, orphans>>
  BY DEF CheckDeadline, inner, events
<1>e. \A d \in Callers : call[d].pending \subseteq Nat \ {0}
  BY PendingType DEF TypeOK
<1> HIDE DEF r
<1>inv1. TypeOK'
  BY <1>a, <1>b, <1>c, <1>d, <1>e DEF TypeOK
<1>inv2. Fresh'
  BY <1>a, <1>b, <1>c, <1>d, <1>e DEF Fresh, InTheAir
<1>inv3. Apart'
  BY <1>a, <1>b, <1>c, <1>d, <1>e DEF Apart
<1>inv4. (\A d \in Callers : StepInv(d))'
  BY <1>a, <1>b, <1>c, <1>d, <1>e DEF StepInv, Single, Polling
<1>inv5. Own'
  BY <1>a, <1>b, <1>c, <1>d, <1>e DEF Own, InTheAir
<1>inv6. Unsent'
  BY <1>a, <1>b, <1>c, <1>d, <1>e DEF Unsent, InTheAir
<1>inv7. Once'
  BY <1>a, <1>b, <1>c, <1>d, <1>e DEF Once, Answered
<1>inv8. Waiting'
  BY <1>a, <1>b, <1>c, <1>d, <1>e DEF Waiting, Answered
<1>inv9. AnswerNotLost'
  BY <1>a, <1>b, <1>c, <1>d, <1>e DEF AnswerNotLost, Written
<1>inv10. ClosedInv'
  BY <1>a, <1>b, <1>c, <1>d, <1>e DEF ClosedInv
<1> QED
  BY <1>inv1, <1>inv2, <1>inv3, <1>inv4, <1>inv5, <1>inv6, <1>inv7, <1>inv8, <1>inv9, <1>inv10

LEMMA ReceiveKeeps ==
    ASSUME ChannelInv, NEW c \in Callers, Receive(c)
    PROVE  ChannelInv'
<1> USE DEF ChannelInv
<1> DEFINE left == call[c].pending \ {call[c].current}
<1>a. /\ call[c] \in Calls /\ call[c].step = "wait" /\ call[c].current \in call[c].pending
      /\ Answered(call[c].current)
  BY PendingType DEF Receive, At, TypeOK, StepInv
<1>b. PICK r \in Calls :
        /\ Become(c, r)
        /\ r.pending = left
        /\ r.step = "idle" \/ r.step = "check"
        /\ r.step = "idle" => left = {}
        /\ r.step = "check" => r.batch = call[c].batch /\ left # {}
  <2>1. CASE left = {}
    BY <2>1, IdleType DEF Receive, Finish
  <2>2. CASE left # {}
    <3> DEFINE s == [call[c] EXCEPT !.step = "check", !.pending = left]
    <3>1. s \in Calls /\ s.pending = left /\ s.step = "check" /\ s.batch = call[c].batch
      BY <1>a DEF Calls, Steps
    <3> QED
      BY <2>2, <3>1 DEF Receive
  <2> QED
    BY <2>1, <2>2
<1>1. answers' = {m \in answers : m.seq # call[c].current}
  <2>1. CASE left = {}
    <3>1. call[c].pending = {call[c].current}
      BY <1>a, <2>1
    <3>2. answers' = {m \in answers : m.seq \notin call[c].pending}
      BY <2>1 DEF Receive, Finish
    <3> QED
      BY <3>1, <3>2
  <2>2. CASE left # {}
    BY <2>2 DEF Receive
  <2> QED
    BY <2>1, <2>2
<1>c. /\ call' \in [Callers -> Calls]
      /\ call'[c] = r
      /\ \A d \in Callers : d # c => call'[d] = call[d]
  BY <1>a, <1>b, BecomeKeeps DEF TypeOK
<1>d. UNCHANGED <<nextSeq, waiters, closed, queue, arrived, handed, delivering, adapterUp, unanswered, orphans>>
  BY DEF Receive, inner, events
<1>e. \A d \in Callers : call[d].pending \subseteq Nat \ {0}
  BY PendingType DEF TypeOK
<1>inv1. TypeOK'
  BY <1>a, <1>b, <1>c, <1>d, <1>e, <1>1 DEF TypeOK
<1>inv2. Fresh'
  BY <1>a, <1>b, <1>c, <1>d, <1>e, <1>1 DEF Fresh, InTheAir
<1>inv3. Apart'
  BY <1>a, <1>b, <1>c, <1>d, <1>e, <1>1 DEF Apart
<1>inv4. (\A d \in Callers : StepInv(d))'
  BY <1>a, <1>b, <1>c, <1>d, <1>e, <1>1 DEF StepInv, Single, Polling
<1>inv5. Own'
  BY <1>a, <1>b, <1>c, <1>d, <1>e, <1>1 DEF Own, InTheAir
<1>inv6. Unsent'
  BY <1>a, <1>b, <1>c, <1>d, <1>e, <1>1 DEF Unsent, InTheAir
<1>inv7. Once'
  BY <1>a, <1>b, <1>c, <1>d, <1>e, <1>1 DEF Once, Answered
<1>inv8. Waiting'
  BY <1>a, <1>b, <1>c, <1>d, <1>e, <1>1 DEF Waiting, Answered, Apart
<1>inv9. AnswerNotLost'
  BY <1>a, <1>b, <1>c, <1>d, <1>e, <1>1 DEF AnswerNotLost, Written, Apart
<1>inv10. ClosedInv'
  BY <1>a, <1>b, <1>c, <1>d, <1>e, <1>1 DEF ClosedInv
<1> QED
  BY <1>inv1, <1>inv2, <1>inv3, <1>inv4, <1>inv5, <1>inv6, <1>inv7, <1>inv8, <1>inv9, <1>inv10

LEMMA ReceiveDisconnectedKeeps ==
    ASSUME ChannelInv, NEW c \in Callers, ReceiveDisconnected(c)
    PROVE  ChannelInv'
<1> USE DEF ChannelInv
<1>a. call[c].step = "wait" /\ Become(c, Idle)
  BY DEF ReceiveDisconnected, At, Finish
<1>c. /\ call' \in [Callers -> Calls]
      /\ call'[c] = Idle
      /\ \A d \in Callers : d # c => call'[d] = call[d]
  BY <1>a, IdleType, BecomeKeeps DEF TypeOK
<1>d. /\ answers' = {m \in answers : m.seq \notin call[c].pending}
      /\ UNCHANGED <<nextSeq, waiters, closed, queue, arrived, handed, delivering, adapterUp, unanswered, orphans>>
  BY DEF ReceiveDisconnected, Finish, inner, events
<1>e. \A d \in Callers : call[d].pending \subseteq Nat \ {0}
  BY PendingType DEF TypeOK
<1>inv1. TypeOK'
  BY <1>a, IdleType, <1>c, <1>d, <1>e DEF TypeOK
<1>inv2. Fresh'
  BY <1>a, IdleType, <1>c, <1>d, <1>e DEF Fresh, InTheAir
<1>inv3. Apart'
  BY <1>a, IdleType, <1>c, <1>d, <1>e DEF Apart
<1>inv4. (\A d \in Callers : StepInv(d))'
  BY <1>a, IdleType, <1>c, <1>d, <1>e DEF StepInv, Single, Polling
<1>inv5. Own'
  BY <1>a, IdleType, <1>c, <1>d, <1>e DEF Own, InTheAir
<1>inv6. Unsent'
  BY <1>a, IdleType, <1>c, <1>d, <1>e DEF Unsent, InTheAir
<1>inv7. Once'
  BY <1>a, IdleType, <1>c, <1>d, <1>e DEF Once, Answered
<1>inv8. Waiting'
  BY <1>a, IdleType, <1>c, <1>d, <1>e DEF Waiting, Answered, Apart, StepInv
<1>inv9. AnswerNotLost'
  BY <1>a, IdleType, <1>c, <1>d, <1>e DEF AnswerNotLost, Written, Apart, StepInv
<1>inv10. ClosedInv'
  BY <1>a, IdleType, <1>c, <1>d, <1>e DEF ClosedInv
<1> QED
  BY <1>inv1, <1>inv2, <1>inv3, <1>inv4, <1>inv5, <1>inv6, <1>inv7, <1>inv8, <1>inv9, <1>inv10

LEMMA ReceiveTimeoutKeeps ==
    ASSUME ChannelInv, NEW c \in Callers, ReceiveTimeout(c)
    PROVE  ChannelInv'
<1> USE DEF ChannelInv
<1> DEFINE r == [call[c] EXCEPT !.step = "remove"]
<1>a. /\ call[c].step = "wait" /\ Become(c, r) /\ call[c] \in Calls
      /\ call[c].current \in call[c].pending
  BY PendingType DEF ReceiveTimeout, At, StepInv, TypeOK
<1>b. /\ r \in Calls /\ r.step = "remove" /\ r.current = call[c].current
      /\ r.batch = call[c].batch /\ r.todo = call[c].todo /\ r.pending = call[c].pending
  BY <1>a DEF Calls, Steps
<1>c. /\ call' \in [Callers -> Calls]
      /\ call'[c] = r
      /\ \A d \in Callers : d # c => call'[d] = call[d]
  BY <1>a, <1>b, BecomeKeeps DEF TypeOK
<1>d. UNCHANGED <<nextSeq, waiters, closed, queue, arrived, handed, answers, delivering, adapterUp, unanswered, orphans>>
  BY DEF ReceiveTimeout, inner, events
<1>e. \A d \in Callers : call[d].pending \subseteq Nat \ {0}
  BY PendingType DEF TypeOK
<1> HIDE DEF r
<1>inv1. TypeOK'
  BY <1>a, <1>b, <1>c, <1>d, <1>e DEF TypeOK
<1>inv2. Fresh'
  BY <1>a, <1>b, <1>c, <1>d, <1>e DEF Fresh, InTheAir
<1>inv3. Apart'
  BY <1>a, <1>b, <1>c, <1>d, <1>e DEF Apart
<1>inv4. (\A d \in Callers : StepInv(d))'
  BY <1>a, <1>b, <1>c, <1>d, <1>e DEF StepInv, Single, Polling
<1>inv5. Own'
  BY <1>a, <1>b, <1>c, <1>d, <1>e DEF Own, InTheAir
<1>inv6. Unsent'
  BY <1>a, <1>b, <1>c, <1>d, <1>e DEF Unsent, InTheAir
<1>inv7. Once'
  BY <1>a, <1>b, <1>c, <1>d, <1>e DEF Once, Answered
<1>inv8. Waiting'
  BY <1>a, <1>b, <1>c, <1>d, <1>e DEF Waiting, Answered
<1>inv9. AnswerNotLost'
  BY <1>a, <1>b, <1>c, <1>d, <1>e DEF AnswerNotLost, Written
<1>inv10. ClosedInv'
  BY <1>a, <1>b, <1>c, <1>d, <1>e DEF ClosedInv
<1> QED
  BY <1>inv1, <1>inv2, <1>inv3, <1>inv4, <1>inv5, <1>inv6, <1>inv7, <1>inv8, <1>inv9, <1>inv10

LEMMA RemoveWaiterKeeps ==
    ASSUME ChannelInv, NEW c \in Callers, RemoveWaiter(c)
    PROVE  ChannelInv'
<1> USE DEF ChannelInv
<1>a. /\ call[c].step = "remove" /\ Become(c, Idle)
      /\ call[c].current \in call[c].pending
  BY DEF RemoveWaiter, At, Finish, StepInv
<1>c. /\ call' \in [Callers -> Calls]
      /\ call'[c] = Idle
      /\ \A d \in Callers : d # c => call'[d] = call[d]
  BY <1>a, IdleType, BecomeKeeps DEF TypeOK
<1>d. /\ answers' = {m \in answers : m.seq \notin call[c].pending}
      /\ waiters' = waiters \ {call[c].current}
      /\ UNCHANGED <<nextSeq, closed, queue, arrived, handed, delivering, adapterUp, unanswered, orphans>>
  BY DEF RemoveWaiter, Finish, events
<1>e. \A d \in Callers : call[d].pending \subseteq Nat \ {0}
  BY PendingType DEF TypeOK
<1>inv1. TypeOK'
  BY <1>a, IdleType, <1>c, <1>d, <1>e DEF TypeOK
<1>inv2. Fresh'
  BY <1>a, IdleType, <1>c, <1>d, <1>e DEF Fresh, InTheAir
<1>inv3. Apart'
  BY <1>a, IdleType, <1>c, <1>d, <1>e DEF Apart
<1>inv4. (\A d \in Callers : StepInv(d))'
  BY <1>a, IdleType, <1>c, <1>d, <1>e DEF StepInv, Single, Polling
<1>inv5. Own'
  BY <1>a, IdleType, <1>c, <1>d, <1>e DEF Own, InTheAir
<1>inv6. Unsent'
  BY <1>a, IdleType, <1>c, <1>d, <1>e DEF Unsent, InTheAir
<1>inv7. Once'
  BY <1>a, IdleType, <1>c, <1>d, <1>e DEF Once, Answered
<1>inv8. Waiting'
  BY <1>a, IdleType, <1>c, <1>d, <1>e DEF Waiting, Answered, Apart, StepInv
<1>inv9. AnswerNotLost'
  BY <1>a, IdleType, <1>c, <1>d, <1>e DEF AnswerNotLost, Written, Apart, StepInv
<1>inv10. ClosedInv'
  BY <1>a, IdleType, <1>c, <1>d, <1>e DEF ClosedInv
<1> QED
  BY <1>inv1, <1>inv2, <1>inv3, <1>inv4, <1>inv5, <1>inv6, <1>inv7, <1>inv8, <1>inv9, <1>inv10

LEMMA PopEventsKeeps ==
    ASSUME ChannelInv, NEW c \in Callers, NEW max \in Nat, PopEvents(c, max)
    PROVE  ChannelInv'
<1> USE DEF ChannelInv
<1>1. queue' \in Seq(Nat) /\ handed' \in Seq(Nat)
  BY TakeKeeps DEF PopEvents, TypeOK
<1>d. UNCHANGED <<nextSeq, waiters, closed, arrived, answers, delivering, adapterUp, unanswered, orphans, call>>
  BY DEF PopEvents, inner
<1>e. \A d \in Callers : call[d].pending \subseteq Nat \ {0}
  BY PendingType DEF TypeOK
<1>inv1. TypeOK'
  BY <1>d, <1>e, <1>1 DEF TypeOK
<1>inv2. Fresh'
  BY <1>d, <1>e, <1>1 DEF Fresh, InTheAir
<1>inv3. Apart'
  BY <1>d, <1>e, <1>1 DEF Apart
<1>inv4. (\A d \in Callers : StepInv(d))'
  BY <1>d, <1>e, <1>1 DEF StepInv, Single, Polling
<1>inv5. Own'
  BY <1>d, <1>e, <1>1 DEF Own, InTheAir
<1>inv6. Unsent'
  BY <1>d, <1>e, <1>1 DEF Unsent, InTheAir
<1>inv7. Once'
  BY <1>d, <1>e, <1>1 DEF Once, Answered
<1>inv8. Waiting'
  BY <1>d, <1>e, <1>1 DEF Waiting, Answered
<1>inv9. AnswerNotLost'
  BY <1>d, <1>e, <1>1 DEF AnswerNotLost, Written
<1>inv10. ClosedInv'
  BY <1>d, <1>e, <1>1 DEF ClosedInv
<1> QED
  BY <1>inv1, <1>inv2, <1>inv3, <1>inv4, <1>inv5, <1>inv6, <1>inv7, <1>inv8, <1>inv9, <1>inv10

LEMMA PopEventsWaitKeeps ==
    ASSUME ChannelInv, NEW c \in Callers, NEW max \in Nat, PopEventsWait(c, max)
    PROVE  ChannelInv'
<1> USE DEF ChannelInv
<1> DEFINE r == [Idle EXCEPT !.step = "poll", !.max = max]
<1>a. call[c].step = "idle" /\ Become(c, r)
  BY DEF PopEventsWait, Begin, At
<1>b. /\ r \in Calls
      /\ r.step = "poll" /\ r.batch = FALSE /\ r.todo = 0 /\ r.pending = {} /\ r.current = 0
  BY DEF Idle, Calls, Steps
<1>c. /\ call' \in [Callers -> Calls]
      /\ call'[c] = r
      /\ \A d \in Callers : d # c => call'[d] = call[d]
  BY <1>a, <1>b, BecomeKeeps DEF TypeOK
<1>d. UNCHANGED <<nextSeq, waiters, closed, queue, arrived, handed, answers, delivering, adapterUp, unanswered, orphans>>
  BY DEF PopEventsWait, inner, events
<1>e. \A d \in Callers : call[d].pending \subseteq Nat \ {0}
  BY PendingType DEF TypeOK
<1> HIDE DEF r
<1>inv1. TypeOK'
  BY <1>a, <1>b, <1>c, <1>d, <1>e DEF TypeOK
<1>inv2. Fresh'
  BY <1>a, <1>b, <1>c, <1>d, <1>e DEF Fresh, InTheAir
<1>inv3. Apart'
  BY <1>a, <1>b, <1>c, <1>d, <1>e DEF Apart
<1>inv4. (\A d \in Callers : StepInv(d))'
  BY <1>a, <1>b, <1>c, <1>d, <1>e DEF StepInv, Single, Polling
<1>inv5. Own'
  BY <1>a, <1>b, <1>c, <1>d, <1>e DEF Own, InTheAir
<1>inv6. Unsent'
  BY <1>a, <1>b, <1>c, <1>d, <1>e DEF Unsent, InTheAir
<1>inv7. Once'
  BY <1>a, <1>b, <1>c, <1>d, <1>e DEF Once, Answered
<1>inv8. Waiting'
  BY <1>a, <1>b, <1>c, <1>d, <1>e DEF Waiting, Answered
<1>inv9. AnswerNotLost'
  BY <1>a, <1>b, <1>c, <1>d, <1>e DEF AnswerNotLost, Written
<1>inv10. ClosedInv'
  BY <1>a, <1>b, <1>c, <1>d, <1>e DEF ClosedInv
<1> QED
  BY <1>inv1, <1>inv2, <1>inv3, <1>inv4, <1>inv5, <1>inv6, <1>inv7, <1>inv8, <1>inv9, <1>inv10

LEMMA PopEventsWakeKeeps ==
    ASSUME ChannelInv, NEW c \in Callers, PopEventsWake(c)
    PROVE  ChannelInv'
<1> USE DEF ChannelInv
<1>a. call[c].step = "poll" /\ Become(c, Idle)
  BY DEF PopEventsWake, At
<1>1. queue' \in Seq(Nat) /\ handed' \in Seq(Nat)
  BY PendingType, TakeKeeps DEF PopEventsWake, TypeOK
<1>c. /\ call' \in [Callers -> Calls]
      /\ call'[c] = Idle
      /\ \A d \in Callers : d # c => call'[d] = call[d]
  BY <1>a, IdleType, BecomeKeeps DEF TypeOK
<1>d. UNCHANGED <<nextSeq, waiters, closed, arrived, answers, delivering, adapterUp, unanswered, orphans>>
  BY DEF PopEventsWake, inner
<1>e. \A d \in Callers : call[d].pending \subseteq Nat \ {0}
  BY PendingType DEF TypeOK
<1>inv1. TypeOK'
  BY <1>a, IdleType, <1>c, <1>d, <1>e, <1>1 DEF TypeOK
<1>inv2. Fresh'
  BY <1>a, IdleType, <1>c, <1>d, <1>e, <1>1 DEF Fresh, InTheAir
<1>inv3. Apart'
  BY <1>a, IdleType, <1>c, <1>d, <1>e, <1>1 DEF Apart
<1>inv4. (\A d \in Callers : StepInv(d))'
  BY <1>a, IdleType, <1>c, <1>d, <1>e, <1>1 DEF StepInv, Single, Polling
<1>inv5. Own'
  BY <1>a, IdleType, <1>c, <1>d, <1>e, <1>1 DEF Own, InTheAir
<1>inv6. Unsent'
  BY <1>a, IdleType, <1>c, <1>d, <1>e, <1>1 DEF Unsent, InTheAir
<1>inv7. Once'
  BY <1>a, IdleType, <1>c, <1>d, <1>e, <1>1 DEF Once, Answered
<1>inv8. Waiting'
  BY <1>a, IdleType, <1>c, <1>d, <1>e, <1>1 DEF Waiting, Answered
<1>inv9. AnswerNotLost'
  BY <1>a, IdleType, <1>c, <1>d, <1>e, <1>1 DEF AnswerNotLost, Written
<1>inv10. ClosedInv'
  BY <1>a, IdleType, <1>c, <1>d, <1>e, <1>1 DEF ClosedInv
<1> QED
  BY <1>inv1, <1>inv2, <1>inv3, <1>inv4, <1>inv5, <1>inv6, <1>inv7, <1>inv8, <1>inv9, <1>inv10

LEMMA ReadResponseKeeps ==
    ASSUME ChannelInv, NEW m \in unanswered, ReadResponse(m)
    PROVE  ChannelInv'
<1> USE DEF ChannelInv
<1>d. /\ unanswered' = unanswered \ {m}
      /\ waiters' = waiters \ {m.seq}
      /\ delivering' = IF m.seq \in waiters THEN m ELSE NoMessage
      /\ ~closed /\ delivering = NoMessage
      /\ UNCHANGED <<nextSeq, closed, queue, arrived, handed, answers, adapterUp, orphans, call>>
  BY DEF ReadResponse, Reading, events
<1>e. \A d \in Callers : call[d].pending \subseteq Nat \ {0}
  BY PendingType DEF TypeOK
<1>inv1. TypeOK'
  BY <1>d, <1>e DEF TypeOK
<1>inv2. Fresh'
  BY <1>d, <1>e DEF Fresh, InTheAir, NoMessage, TypeOK, Seqs
<1>inv3. Apart'
  BY <1>d, <1>e DEF Apart
<1>inv4. (\A d \in Callers : StepInv(d))'
  BY <1>d, <1>e DEF StepInv, Single, Polling
<1>inv5. Own'
  BY <1>d, <1>e DEF Own, InTheAir, NoMessage
<1>inv6. Unsent'
  BY <1>d, <1>e DEF Unsent, InTheAir, StepInv, NoMessage
<1>inv7. Once'
  BY <1>d, <1>e DEF Once, Answered, NoMessage, TypeOK, Messages, Seqs
<1>inv8. Waiting'
  BY <1>d, <1>e DEF Waiting, Answered, Once, NoMessage
<1>inv9. AnswerNotLost'
  BY <1>d, <1>e DEF AnswerNotLost, Written, Waiting, Once, Answered, NoMessage
<1>inv10. ClosedInv'
  BY <1>d, <1>e DEF ClosedInv
<1> QED
  BY <1>inv1, <1>inv2, <1>inv3, <1>inv4, <1>inv5, <1>inv6, <1>inv7, <1>inv8, <1>inv9, <1>inv10

LEMMA DeliverKeeps ==
    ASSUME ChannelInv, Deliver
    PROVE  ChannelInv'
<1> USE DEF ChannelInv
<1>d. /\ answers' = IF \E c \in Callers : delivering.seq \in call[c].pending
                      THEN answers \union {delivering} ELSE answers
      /\ delivering' = NoMessage /\ delivering # NoMessage
      /\ UNCHANGED <<nextSeq, waiters, closed, queue, arrived, handed, adapterUp, unanswered, orphans, call>>
  BY DEF Deliver, inner, events
<1>e. \A d \in Callers : call[d].pending \subseteq Nat \ {0}
  BY PendingType DEF TypeOK
<1>inv1. TypeOK'
  BY <1>d, <1>e DEF TypeOK, NoMessage
<1>inv2. Fresh'
  BY <1>d, <1>e DEF Fresh, InTheAir, NoMessage, TypeOK, Seqs
<1>inv3. Apart'
  BY <1>d, <1>e DEF Apart
<1>inv4. (\A d \in Callers : StepInv(d))'
  BY <1>d, <1>e DEF StepInv, Single, Polling
<1>inv5. Own'
  BY <1>d, <1>e DEF Own, InTheAir, NoMessage
<1>inv6. Unsent'
  BY <1>d, <1>e DEF Unsent, InTheAir, StepInv, NoMessage
<1>inv7. Once'
  BY <1>d, <1>e DEF Once, Answered, NoMessage, TypeOK, Messages, Seqs
<1>inv8. Waiting'
  BY <1>d, <1>e DEF Waiting, Answered
<1>inv9. AnswerNotLost'
  BY <1>d, <1>e DEF AnswerNotLost, Written
<1>inv10. ClosedInv'
  BY <1>d, <1>e DEF ClosedInv
<1> QED
  BY <1>inv1, <1>inv2, <1>inv3, <1>inv4, <1>inv5, <1>inv6, <1>inv7, <1>inv8, <1>inv9, <1>inv10

LEMMA ReadEventKeeps ==
    ASSUME ChannelInv, ReadEvent
    PROVE  ChannelInv'
<1> USE DEF ChannelInv
<1>1. queue' \in Seq(Nat) /\ arrived' \in Nat
  BY PushEventKeeps DEF ReadEvent, TypeOK
<1>d. UNCHANGED <<nextSeq, waiters, closed, handed, answers, delivering, adapterUp, unanswered, orphans, call>>
  BY DEF ReadEvent, inner
<1>e. \A d \in Callers : call[d].pending \subseteq Nat \ {0}
  BY PendingType DEF TypeOK
<1>inv1. TypeOK'
  BY <1>d, <1>e, <1>1 DEF TypeOK
<1>inv2. Fresh'
  BY <1>d, <1>e, <1>1 DEF Fresh, InTheAir
<1>inv3. Apart'
  BY <1>d, <1>e, <1>1 DEF Apart
<1>inv4. (\A d \in Callers : StepInv(d))'
  BY <1>d, <1>e, <1>1 DEF StepInv, Single, Polling
<1>inv5. Own'
  BY <1>d, <1>e, <1>1 DEF Own, InTheAir
<1>inv6. Unsent'
  BY <1>d, <1>e, <1>1 DEF Unsent, InTheAir
<1>inv7. Once'
  BY <1>d, <1>e, <1>1 DEF Once, Answered
<1>inv8. Waiting'
  BY <1>d, <1>e, <1>1 DEF Waiting, Answered
<1>inv9. AnswerNotLost'
  BY <1>d, <1>e, <1>1 DEF AnswerNotLost, Written
<1>inv10. ClosedInv'
  BY <1>d, <1>e, <1>1 DEF ClosedInv
<1> QED
  BY <1>inv1, <1>inv2, <1>inv3, <1>inv4, <1>inv5, <1>inv6, <1>inv7, <1>inv8, <1>inv9, <1>inv10

LEMMA ReadRequestKeeps ==
    ASSUME ChannelInv, ReadRequest
    PROVE  ChannelInv'
<1> USE DEF ChannelInv
<1>d. /\ nextSeq' = nextSeq + 1
      /\ UNCHANGED <<waiters, closed, queue, arrived, handed, answers, delivering, adapterUp, unanswered, orphans, call>>
  BY DEF ReadRequest, inner, events
<1>e. \A d \in Callers : call[d].pending \subseteq Nat \ {0}
  BY PendingType DEF TypeOK
<1>inv1. TypeOK'
  <2>1. nextSeq' \in Seqs
    BY <1>d DEF TypeOK, Seqs
  <2> QED
    BY <2>1, <1>d DEF TypeOK
<1>inv2. Fresh'
  BY <1>d, <1>e DEF Fresh, InTheAir, TypeOK, Messages, NoMessage, Seqs
<1>inv3. Apart'
  BY <1>d, <1>e DEF Apart
<1>inv4. (\A d \in Callers : StepInv(d))'
  BY <1>d, <1>e DEF StepInv, Single, Polling
<1>inv5. Own'
  BY <1>d, <1>e DEF Own, InTheAir
<1>inv6. Unsent'
  BY <1>d, <1>e DEF Unsent, InTheAir
<1>inv7. Once'
  BY <1>d, <1>e DEF Once, Answered
<1>inv8. Waiting'
  BY <1>d, <1>e DEF Waiting, Answered
<1>inv9. AnswerNotLost'
  BY <1>d, <1>e DEF AnswerNotLost, Written
<1>inv10. ClosedInv'
  BY <1>d, <1>e DEF ClosedInv
<1> QED
  BY <1>inv1, <1>inv2, <1>inv3, <1>inv4, <1>inv5, <1>inv6, <1>inv7, <1>inv8, <1>inv9, <1>inv10

LEMMA CloseKeeps ==
    ASSUME ChannelInv, Close
    PROVE  ChannelInv'
<1> USE DEF ChannelInv
<1>d. /\ closed' = TRUE /\ waiters' = {}
      /\ adapterUp' \in BOOLEAN /\ (adapterUp' => adapterUp)
      /\ ~closed /\ delivering = NoMessage
      /\ UNCHANGED <<nextSeq, queue, arrived, handed, answers, delivering, unanswered, orphans, call>>
  BY DEF Close, Reading, events, TypeOK
<1>e. \A d \in Callers : call[d].pending \subseteq Nat \ {0}
  BY PendingType DEF TypeOK
<1>inv1. TypeOK'
  BY <1>d, <1>e DEF TypeOK
<1>inv2. Fresh'
  BY <1>d, <1>e DEF Fresh, InTheAir
<1>inv3. Apart'
  BY <1>d, <1>e DEF Apart
<1>inv4. (\A d \in Callers : StepInv(d))'
  BY <1>d, <1>e DEF StepInv, Single, Polling
<1>inv5. Own'
  BY <1>d, <1>e DEF Own, InTheAir
<1>inv6. Unsent'
  BY <1>d, <1>e DEF Unsent, InTheAir
<1>inv7. Once'
  BY <1>d, <1>e DEF Once, Answered
<1>inv8. Waiting'
  BY <1>d, <1>e DEF Waiting, Answered
<1>inv9. AnswerNotLost'
  BY <1>d, <1>e DEF AnswerNotLost, Written
<1>inv10. ClosedInv'
  BY <1>d, <1>e DEF ClosedInv
<1> QED
  BY <1>inv1, <1>inv2, <1>inv3, <1>inv4, <1>inv5, <1>inv6, <1>inv7, <1>inv8, <1>inv9, <1>inv10

LEMMA AdapterGoneKeeps ==
    ASSUME ChannelInv, AdapterGone
    PROVE  ChannelInv'
<1> USE DEF ChannelInv
<1>d. /\ adapterUp' = FALSE
      /\ UNCHANGED <<nextSeq, waiters, closed, queue, arrived, handed, answers, delivering, unanswered, orphans, call>>
  BY DEF AdapterGone, inner, events
<1>e. \A d \in Callers : call[d].pending \subseteq Nat \ {0}
  BY PendingType DEF TypeOK
<1>inv1. TypeOK'
  BY <1>d, <1>e DEF TypeOK
<1>inv2. Fresh'
  BY <1>d, <1>e DEF Fresh, InTheAir
<1>inv3. Apart'
  BY <1>d, <1>e DEF Apart
<1>inv4. (\A d \in Callers : StepInv(d))'
  BY <1>d, <1>e DEF StepInv, Single, Polling
<1>inv5. Own'
  BY <1>d, <1>e DEF Own, InTheAir
<1>inv6. Unsent'
  BY <1>d, <1>e DEF Unsent, InTheAir
<1>inv7. Once'
  BY <1>d, <1>e DEF Once, Answered
<1>inv8. Waiting'
  BY <1>d, <1>e DEF Waiting, Answered
<1>inv9. AnswerNotLost'
  BY <1>d, <1>e DEF AnswerNotLost, Written
<1>inv10. ClosedInv'
  BY <1>d, <1>e DEF ClosedInv
<1> QED
  BY <1>inv1, <1>inv2, <1>inv3, <1>inv4, <1>inv5, <1>inv6, <1>inv7, <1>inv8, <1>inv9, <1>inv10

-----------------------------------------------------------------------------

LEMMA InitInv == Init => ChannelInv
<1> SUFFICES ASSUME Init PROVE ChannelInv
  OBVIOUS
<1> USE DEF Init
<1>1. TypeOK
  <2>1. call \in [Callers -> Calls] /\ nextSeq \in Seqs
    BY IdleType DEF Seqs
  <2>2. queue \in Seq(Nat) /\ handed \in Seq(Nat)
    OBVIOUS
  <2> QED
    BY <2>1, <2>2 DEF TypeOK
<1>2. \A c \in Callers : call[c].pending = {} /\ call[c].step = "idle"
  BY IdleType
<1>3. Fresh /\ Own /\ Unsent /\ Once
  BY <1>2 DEF Fresh, InTheAir, NoMessage, Own, Unsent, Once, Answered
<1>4. Apart /\ Waiting /\ AnswerNotLost /\ ClosedInv
  BY <1>2 DEF Apart, Waiting, AnswerNotLost, Written, ClosedInv
<1>5. \A c \in Callers : StepInv(c)
  BY <1>2 DEF StepInv, Single, Polling
<1> QED
  BY <1>1, <1>3, <1>4, <1>5 DEF ChannelInv

LEMMA StutterKeeps == ChannelInv /\ UNCHANGED vars => ChannelInv'
<1> SUFFICES ASSUME ChannelInv, UNCHANGED vars PROVE ChannelInv'
  OBVIOUS
<1> QED
  BY DEF vars, inner, events, ChannelInv, TypeOK, Fresh, InTheAir, Apart, StepInv, Single, Own,
         Unsent, Once, Answered, Waiting, AnswerNotLost, Written, ClosedInv

LEMMA NextKeeps == ChannelInv /\ [Next]_vars => ChannelInv'
<1> SUFFICES ASSUME ChannelInv, [Next]_vars PROVE ChannelInv'
  OBVIOUS
<1>1. ASSUME NEW c \in Callers, Caller(c) PROVE ChannelInv'
  <2>1. CASE SendRequest(c) \/ SendBatch(c) \/ StartRequest(c) \/ Unregister(c)
    BY <2>1, SendRequestKeeps, SendBatchKeeps, RegisterKeeps, WriteKeeps, UnregisterKeeps
       DEF StartRequest
  <2>2. CASE CheckDeadline(c) \/ Await(c)
    BY <2>2, CheckDeadlineKeeps, ReceiveKeeps, ReceiveDisconnectedKeeps, ReceiveTimeoutKeeps,
       RemoveWaiterKeeps DEF Await
  <2>3. CASE Poll(c)
    <3>1. \A max \in 1 .. QueueLen : max \in Nat
      BY ChannelAssumption
    <3> QED
      BY <2>3, <3>1, PopEventsKeeps, PopEventsWaitKeeps, PopEventsWakeKeeps DEF Poll
  <2> QED
    BY <1>1, <2>1, <2>2, <2>3 DEF Caller
<1>2. CASE ReaderLoop
  BY <1>2, ReadResponseKeeps, DeliverKeeps, ReadEventKeeps, ReadRequestKeeps, CloseKeeps
     DEF ReaderLoop
<1>3. CASE AdapterGone
  BY <1>3, AdapterGoneKeeps
<1> QED
  BY <1>1, <1>2, <1>3, StutterKeeps DEF Next

\* A connection's invariant, for every number of callers and sizes of batch
\* (TcpDapProxy and StdioAdapterDapProxy).
THEOREM ChannelInvariant == Spec => []ChannelInv
<1>1. Init => ChannelInv
  BY InitInv
<1>2. ChannelInv /\ [Next]_vars => ChannelInv'
  BY NextKeeps
<1> QED
  BY <1>1, <1>2, PTL DEF Spec

\* A response reaches the request it answers and no other.
THEOREM OwnAnswerAlways == Spec => []OwnAnswer
<1>1. ChannelInv => OwnAnswer
  BY DEF ChannelInv, Own, InTheAir, OwnAnswer
<1> QED
  BY <1>1, ChannelInvariant, PTL

\* No response is thrown away while its caller is in the call.
THEOREM AnswerNotLostAlways == Spec => []AnswerNotLost
<1>1. ChannelInv => AnswerNotLost
  BY DEF ChannelInv
<1> QED
  BY <1>1, ChannelInvariant, PTL

\* The end of the connection answers all that was waiting.
THEOREM ClosedAnswersAllAlways == Spec => []ClosedAnswersAll
<1>1. ChannelInv => ClosedAnswersAll
  <2> SUFFICES ASSUME ChannelInv, closed, NEW c \in Callers, At(c, "wait"),
                      call[c].current \notin orphans
               PROVE  Answered(call[c].current) \/ Disconnected(call[c].current)
    BY DEF ClosedAnswersAll
  <2>1. delivering = NoMessage /\ call[c].current \notin waiters
    BY DEF ChannelInv, ClosedInv
  <2>2. call[c].current # 0
    BY PendingType DEF ChannelInv, TypeOK, StepInv, At
  <2> QED
    BY <2>1, <2>2 DEF Disconnected, NoMessage
<1> QED
  BY <1>1, ChannelInvariant, PTL

\* Some other caller's step is none of this caller's.
LEMMA OthersStay ==
    ASSUME call \in [Callers -> Calls], NEW c \in Callers, NEW d \in Callers, c # d, Caller(d)
    PROVE  call'[c] = call[c]
<1>1. CASE SendRequest(d) \/ SendBatch(d) \/ StartRequest(d) \/ Unregister(d) \/ CheckDeadline(d)
  BY <1>1 DEF SendRequest, SendBatch, StartRequest, Register, Write, Unregister, CheckDeadline,
              Begin, Become, Finish
<1>2. CASE Await(d)
  BY <1>2 DEF Await, Receive, ReceiveDisconnected, ReceiveTimeout, RemoveWaiter, Become, Finish
<1>3. CASE Poll(d)
  BY <1>3 DEF Poll, PopEvents, PopEventsWait, PopEventsWake, Begin, Become
<1> QED
  BY <1>1, <1>2, <1>3 DEF Caller

LEMMA EndsBy ==
    ASSUME ChannelInv, [Next]_vars, NEW c \in Callers, ~At(c, "idle"), At(c, "idle")'
    PROVE  \/ Unregister(c) \/ RemoveWaiter(c) \/ Receive(c)
           \/ ReceiveDisconnected(c) \/ PopEventsWake(c)
<1> USE DEF At
<1>1. call \in [Callers -> Calls] /\ call[c] \in Calls
  BY DEF ChannelInv, TypeOK
<1>2. ASSUME NEW d \in Callers, Caller(d) PROVE d = c
  BY <1>1, <1>2, OthersStay
<1>3. ~(SendRequest(c) \/ SendBatch(c) \/ \E max \in 1 .. QueueLen : PopEventsWait(c, max))
  BY DEF SendRequest, SendBatch, PopEventsWait, Begin
<1>4. ~\E max \in 1 .. QueueLen : PopEvents(c, max)
  BY DEF PopEvents
<1>5. ~Register(c)
  BY <1>1 DEF Register, Become, Calls
<1>6. ~Write(c)
  BY <1>1 DEF Write, AfterWrite, Become, Calls
<1>7. ~CheckDeadline(c) /\ ~ReceiveTimeout(c)
  BY <1>1 DEF CheckDeadline, ReceiveTimeout, Become, Calls
<1>8. ~ReaderLoop /\ ~AdapterGone /\ ~UNCHANGED vars
  BY DEF ReaderLoop, ReadResponse, Deliver, ReadEvent, ReadRequest, Close, AdapterGone, vars
<1>9. Caller(c)
  BY <1>2, <1>8 DEF Next
<1> QED
  BY <1>3, <1>4, <1>5, <1>6, <1>7, <1>9 DEF Caller, StartRequest, Await, Poll

\* Only a batch that gives up leaves waiters behind, and never the one it gave up at.
THEOREM OnlyFailedBatchLeavesAlways == Spec => OnlyFailedBatchLeaves
<1> DEFINE Leaves(c) == ~At(c, "idle") /\ At(c, "idle")' =>
         \A n \in waiters' \intersect call[c].pending :
            call[c].batch /\ n # call[c].current
<1>1. ChannelInv /\ [Next]_vars => \A c \in Callers : Leaves(c)
  <2> SUFFICES ASSUME ChannelInv, ChannelInv', [Next]_vars, NEW c \in Callers,
                      ~At(c, "idle"), At(c, "idle")',
                      NEW n \in waiters' \intersect call[c].pending
               PROVE  call[c].batch /\ n # call[c].current
    BY NextKeeps
  <2>1. \/ Unregister(c) \/ RemoveWaiter(c) \/ Receive(c)
        \/ ReceiveDisconnected(c) \/ PopEventsWake(c)
    BY EndsBy
  <2>2. ASSUME Unregister(c) \/ RemoveWaiter(c) PROVE n # call[c].current
    BY <2>2 DEF Unregister, RemoveWaiter
  <2>3. ASSUME Receive(c) \/ ReceiveDisconnected(c) PROVE n # call[c].current
    BY <2>3 DEF Receive, ReceiveDisconnected, Disconnected, inner, ChannelInv, Once
  <2>4. StepInv(c) /\ call[c].step # "idle" /\ n \in call[c].pending
    BY DEF ChannelInv, At
  <2>6. ~PopEventsWake(c)
    BY <2>4 DEF PopEventsWake, At, StepInv, Polling
  <2>5. n # call[c].current
    BY <2>1, <2>2, <2>3, <2>6
  <2> QED
    BY <2>4, <2>5 DEF StepInv, Single, Polling
<1>2. ChannelInv /\ [Next]_vars =>
        [\A c \in Callers : Leaves(c)]_vars
  BY <1>1
<1> QED
  BY <1>2, ChannelInvariant, PTL DEF OnlyFailedBatchLeaves, Spec

-----------------------------------------------------------------------------
(* The order of events *)

\* A sequence of numbers that grow.
Grows(q) == \A i, j \in 1 .. Len(q) : i < j => q[i] < q[j]

\* What polls have answered is older than what is queued, and that than what will come.
OrderInv ==
    /\ Grows(handed) /\ Grows(queue)
    /\ \A i \in 1 .. Len(handed), j \in 1 .. Len(queue) : handed[i] < queue[j]
    /\ \A i \in 1 .. Len(handed) : handed[i] <= arrived
    /\ \A j \in 1 .. Len(queue) : queue[j] <= arrived

\* An element of a concatenation is an element of its first or of its second part.
LEMMA Joined ==
    ASSUME NEW q \in Seq(Nat), NEW r \in Seq(Nat)
    PROVE  /\ q \o r \in Seq(Nat) /\ Len(q \o r) = Len(q) + Len(r)
           /\ \A i \in 1 .. Len(q \o r) :
                \/ i \in 1 .. Len(q) /\ (q \o r)[i] = q[i]
                \/ i > Len(q) /\ i - Len(q) \in 1 .. Len(r) /\ (q \o r)[i] = r[i - Len(q)]
<1>1. /\ q \o r \in Seq(Nat) /\ Len(q \o r) = Len(q) + Len(r)
      /\ \A i \in 1 .. Len(q) + Len(r) : (q \o r)[i] = IF i <= Len(q) THEN q[i] ELSE r[i - Len(q)]
  BY ConcatProperties
<1>2. Len(q) \in Nat /\ Len(r) \in Nat
  OBVIOUS
<1> QED
  BY <1>1, <1>2

LEMMA TakeInOrder ==
    ASSUME TypeOK, OrderInv, NEW max \in Nat, Take(max), arrived' = arrived
    PROVE  OrderInv'
<1> DEFINE n == Least(max, Len(queue))
           front == SubSeq(queue, 1, n)
<1>1. queue \in Seq(Nat) /\ handed \in Seq(Nat) /\ arrived \in Nat
  BY DEF TypeOK
<1>2. n \in 0 .. Len(queue)
  BY <1>1 DEF Least
<1>3. handed' = handed \o front /\ queue' = SubSeq(queue, n + 1, Len(queue))
  BY DEF Take
<1> HIDE DEF n
<1>4. /\ front \in Seq(Nat) /\ Len(front) = n /\ \A i \in 1 .. n : front[i] = queue[i]
  BY <1>1, <1>2
<1>5. /\ queue' \in Seq(Nat) /\ Len(queue') = Len(queue) - n
      /\ \A i \in 1 .. Len(queue') : queue'[i] = queue[i + n] /\ i + n \in 1 .. Len(queue)
  BY <1>1, <1>2, <1>3
<1> HIDE DEF front
<1>6. /\ handed' \in Seq(Nat) /\ Len(handed') = Len(handed) + n
      /\ \A i \in 1 .. Len(handed') :
           \/ i \in 1 .. Len(handed) /\ handed'[i] = handed[i]
           \/ i > Len(handed) /\ i - Len(handed) \in 1 .. n /\ handed'[i] = queue[i - Len(handed)]
  BY <1>1, <1>2, <1>3, <1>4, Joined
<1>7. Len(handed) \in Nat /\ Len(queue) \in Nat /\ n \in Nat /\ 1 .. n \subseteq 1 .. Len(queue)
  BY <1>1, <1>2
<1>8. /\ \A i \in 1 .. Len(handed) : handed[i] \in Nat
      /\ \A i \in 1 .. Len(queue) : queue[i] \in Nat
  BY <1>1
<1>9. Grows(queue')
  <2> SUFFICES ASSUME NEW i \in 1 .. Len(queue'), NEW j \in 1 .. Len(queue'), i < j
               PROVE  queue'[i] < queue'[j]
    BY DEF Grows
  <2>1. i + n \in 1 .. Len(queue) /\ j + n \in 1 .. Len(queue) /\ i + n < j + n
    BY <1>5, <1>7
  <2> QED
    BY <1>5, <2>1 DEF OrderInv, Grows
<1>10. Grows(handed')
  <2> SUFFICES ASSUME NEW i \in 1 .. Len(handed'), NEW j \in 1 .. Len(handed'), i < j
               PROVE  handed'[i] < handed'[j]
    BY DEF Grows
  <2>1. CASE j \in 1 .. Len(handed) /\ handed'[j] = handed[j]
    <3>1. i \in 1 .. Len(handed) /\ handed'[i] = handed[i]
      BY <1>6, <1>7, <2>1
    <3> QED
      BY <2>1, <3>1 DEF OrderInv, Grows
  <2>2. CASE j - Len(handed) \in 1 .. n /\ handed'[j] = queue[j - Len(handed)]
    <3>1. j - Len(handed) \in 1 .. Len(queue)
      BY <1>7, <2>2
    <3>2. CASE i \in 1 .. Len(handed) /\ handed'[i] = handed[i]
      BY <2>2, <3>1, <3>2 DEF OrderInv
    <3>3. CASE i - Len(handed) \in 1 .. n /\ handed'[i] = queue[i - Len(handed)]
      <4>1. i - Len(handed) \in 1 .. Len(queue) /\ i - Len(handed) < j - Len(handed)
        BY <1>7, <3>3
      <4> QED
        BY <2>2, <3>1, <3>3, <4>1 DEF OrderInv, Grows
    <3> QED
      BY <1>6, <3>2, <3>3
  <2> QED
    BY <1>6, <2>1, <2>2
<1>11. \A i \in 1 .. Len(handed'), j \in 1 .. Len(queue') : handed'[i] < queue'[j]
  <2> SUFFICES ASSUME NEW i \in 1 .. Len(handed'), NEW j \in 1 .. Len(queue')
               PROVE  handed'[i] < queue'[j]
    OBVIOUS
  <2>1. queue'[j] = queue[j + n] /\ j + n \in 1 .. Len(queue)
    BY <1>5
  <2>2. CASE i \in 1 .. Len(handed) /\ handed'[i] = handed[i]
    BY <2>1, <2>2 DEF OrderInv
  <2>3. CASE i - Len(handed) \in 1 .. n /\ handed'[i] = queue[i - Len(handed)]
    BY <1>5, <1>7, <2>1, <2>3 DEF OrderInv, Grows
  <2> QED
    BY <1>6, <2>2, <2>3
<1>12. /\ \A i \in 1 .. Len(handed') : handed'[i] <= arrived
       /\ \A j \in 1 .. Len(queue') : queue'[j] <= arrived
  BY <1>5, <1>6, <1>7 DEF OrderInv
<1> QED
  BY <1>9, <1>10, <1>11, <1>12 DEF OrderInv

LEMMA ReadEventInOrder ==
    ASSUME TypeOK, OrderInv, ReadEvent
    PROVE  OrderInv'
<1> DEFINE e == arrived + 1
           longer == Append(queue, e)
<1>1. queue \in Seq(Nat) /\ handed \in Seq(Nat) /\ arrived \in Nat /\ e \in Nat
  BY DEF TypeOK
<1>2. arrived' = e /\ handed' = handed /\ queue' = PushEvent(queue, e)
  BY DEF ReadEvent
<1>3. /\ longer \in Seq(Nat) /\ Len(longer) = Len(queue) + 1 /\ Len(queue) \in Nat
      /\ \A i \in 1 .. Len(longer) :
           \/ i \in 1 .. Len(queue) /\ longer[i] = queue[i]
           \/ i = Len(queue) + 1 /\ longer[i] = e
  BY <1>1
<1> HIDE DEF longer
<1>4. /\ Grows(longer)
      /\ \A i \in 1 .. Len(handed), j \in 1 .. Len(longer) : handed[i] < longer[j]
      /\ \A i \in 1 .. Len(handed) : handed[i] <= e
      /\ \A j \in 1 .. Len(longer) : longer[j] <= e
  <2>1. /\ \A i \in 1 .. Len(handed) : handed[i] \in Nat
        /\ \A i \in 1 .. Len(queue) : queue[i] \in Nat
    BY <1>1
  <2>2. /\ \A i \in 1 .. Len(handed) : handed[i] < e
        /\ \A i \in 1 .. Len(queue) : queue[i] < e
    BY <1>1, <2>1 DEF OrderInv
  <2>3. Grows(longer)
    BY <1>3, <2>2 DEF OrderInv, Grows
  <2>4. \A i \in 1 .. Len(handed), j \in 1 .. Len(longer) : handed[i] < longer[j]
    BY <1>3, <2>2 DEF OrderInv
  <2>5. \A i \in 1 .. Len(handed) : handed[i] <= e
    BY <1>1, <2>1, <2>2
  <2>6. ASSUME NEW j \in 1 .. Len(longer) PROVE longer[j] <= e
    <3>1. (j \in 1 .. Len(queue) /\ longer[j] = queue[j]) \/ longer[j] = e
      BY <1>3
    <3> HIDE DEF e
    <3> QED
      BY <1>1, <2>1, <2>2, <3>1
  <2> QED
    BY <2>3, <2>4, <2>5, <2>6
<1> HIDE DEF e
<1>5. CASE queue' = longer
  <2>1. /\ Grows(handed) /\ arrived' = e /\ handed' = handed
    BY <1>2 DEF OrderInv
  <2> QED
    BY <1>4, <1>5, <2>1 DEF OrderInv
<1>6. CASE queue' = Tail(longer)
  <2>1. /\ Len(queue') = Len(longer) - 1
        /\ \A i \in 1 .. Len(queue') : queue'[i] = longer[i + 1] /\ i + 1 \in 1 .. Len(longer)
    BY <1>3, <1>6
  <2>2. Len(queue') \in Nat
    BY <1>3, <2>1
  <2>3. Grows(queue')
    BY <1>4, <2>1, <2>2 DEF Grows
  <2> QED
    BY <1>2, <1>4, <2>1, <2>2, <2>3 DEF OrderInv
<1> QED
  BY <1>2, <1>5, <1>6 DEF PushEvent, longer

\* However polls and the reader take turns, and whatever a full queue loses.
THEOREM EventsInOrderAlways == Spec => []EventsInOrder
<1>1. Init => OrderInv
  BY DEF Init, OrderInv, Grows
<1>2. ChannelInv /\ OrderInv /\ [Next]_vars => OrderInv'
  <2> SUFFICES ASSUME ChannelInv, OrderInv, [Next]_vars
               PROVE  OrderInv'
    OBVIOUS
  <2>1. TypeOK
    BY DEF ChannelInv
  <2>2. CASE UNCHANGED events
    BY <2>2 DEF events, OrderInv
  <2>3. ASSUME NEW c \in Callers, NEW max \in 1 .. QueueLen, PopEvents(c, max)
        PROVE  OrderInv'
    BY <2>1, <2>3, TakeInOrder DEF PopEvents
  <2>4. ASSUME NEW c \in Callers, PopEventsWake(c)
        PROVE  OrderInv'
    <3>1. call[c].max \in Nat
      BY <2>1, PendingType DEF TypeOK
    <3> QED
      BY <2>1, <2>4, <3>1, TakeInOrder DEF PopEventsWake
  <2>5. CASE ReadEvent
    BY <2>1, <2>5, ReadEventInOrder
  <2>6. ASSUME NEW c \in Callers, Caller(c)
        PROVE  OrderInv'
    BY <2>2, <2>3, <2>4, <2>6
    DEF Caller, SendRequest, SendBatch, StartRequest, Register, Write, Unregister, CheckDeadline, Await,
        Receive, ReceiveDisconnected, ReceiveTimeout, RemoveWaiter, Poll, PopEventsWait
  <2>7. CASE ReaderLoop
    BY <2>2, <2>5, <2>7 DEF ReaderLoop, ReadResponse, Deliver, ReadRequest, Close
  <2>8. CASE AdapterGone \/ UNCHANGED vars
    BY <2>2, <2>8 DEF AdapterGone, vars
  <2> QED
    BY <2>6, <2>7, <2>8 DEF Next
<1>3. ChannelInv /\ OrderInv => EventsInOrder
  <2> SUFFICES ASSUME ChannelInv, OrderInv
               PROVE  EventsInOrder
    OBVIOUS
  <2> DEFINE seen == handed \o queue
  <2>1. queue \in Seq(Nat) /\ handed \in Seq(Nat)
    BY DEF ChannelInv, TypeOK
  <2>2. /\ Len(seen) = Len(handed) + Len(queue) /\ Len(handed) \in Nat /\ Len(queue) \in Nat
        /\ \A i \in 1 .. Len(seen) :
             \/ i \in 1 .. Len(handed) /\ seen[i] = handed[i]
             \/ i > Len(handed) /\ i - Len(handed) \in 1 .. Len(queue) /\ seen[i] = queue[i - Len(handed)]
    BY <2>1, Joined
  <2> HIDE DEF seen
  <2>3. ASSUME NEW i \in 1 .. Len(seen), NEW j \in 1 .. Len(seen), i < j
        PROVE  seen[i] < seen[j]
    <3>1. CASE j \in 1 .. Len(handed) /\ seen[j] = handed[j]
      <4>1. i \in 1 .. Len(handed) /\ seen[i] = handed[i]
        BY <2>2, <2>3, <3>1
      <4> QED
        BY <2>3, <3>1, <4>1 DEF OrderInv, Grows
    <3>2. CASE j - Len(handed) \in 1 .. Len(queue) /\ seen[j] = queue[j - Len(handed)]
      <4>1. CASE i \in 1 .. Len(handed) /\ seen[i] = handed[i]
        BY <3>2, <4>1 DEF OrderInv
      <4>2. CASE i - Len(handed) \in 1 .. Len(queue) /\ seen[i] = queue[i - Len(handed)]
        <5>1. i - Len(handed) < j - Len(handed)
          BY <2>2, <2>3
        <5> QED
          BY <3>2, <4>2, <5>1 DEF OrderInv, Grows
      <4> QED
        BY <2>2, <4>1, <4>2
    <3> QED
      BY <2>2, <3>1, <3>2
  <2> QED
    BY <2>3 DEF EventsInOrder, seen
<1> QED
  BY <1>1, <1>2, <1>3, ChannelInvariant, PTL DEF Spec
=============================================================================
