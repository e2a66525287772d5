\* Two threads on one connection to an adapter listening on a TCP port: requests,
\* batches of two, polls, late answers, events beyond the queue, the end of the
\* connection.
CONSTANTS
    NoCaller = NoCaller
    Callers = {c1, c2}
    MaxBatch = 2
    QueueLen = 2
    KillsAdapter = FALSE
    MaxSeq = 5
    MaxEvents = 3
SPECIFICATION Spec
SYMMETRY CallerSymmetry
INVARIANTS ChannelInv OwnAnswer AnswerNotLost ClosedAnswersAll EventsInOrder
PROPERTIES OnlyFailedBatchLeaves
