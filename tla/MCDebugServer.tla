---------------------------- MODULE MCDebugServer ----------------------------
\* A session, of either runtime, and one port to spare, for a child or to move to.
EXTENDS DebugServer, TLC

CONSTANTS parent, child

MCStartPort == parent :> 1

Route(op, s) == [op |-> op, session |-> s]

MCRoutes ==
    {Route("request", parent), Route("handshake", parent), Route("events", parent),
     Route("adopt", parent), Route("request", child), Route("batch", child)}

MCFewRoutes == {Route("request", parent), Route("adopt", parent), Route("batch", child)}
=============================================================================
