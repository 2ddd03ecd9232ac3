--------------------------- MODULE MCActorContext ---------------------------
EXTENDS ActorContext

\* What the runs let an actor do.  In every repertoire futures do not cancel
\* futures, a wait future does not wait, and stopping() changes nothing: the
\* runs named after those cases add them.
Quiet == [c \in Callbacks |-> {}]

Usual == [Quiet EXCEPT
    !["create"] = {"spawn", "stop"},
    !["started"] = {"spawn", "wait", "stop", "terminate", "address"},
    !["waitfut"] = {"spawn", "cancel", "stop", "terminate", "capacity"},
    !["handler"] = {"spawn", "wait", "cancel", "stop", "terminate", "address", "capacity"},
    !["item"] = {"spawn", "wait", "stop", "terminate", "address"},
    !["stopped"] = {"spawn", "address"},
    !["restarting"] = {"spawn", "stop"}]

\* Liveness: handlers and futures that make the actor wait, and a handler that
\* stops it; the other calls are those of the safety run.
Busy == [Quiet EXCEPT
    !["started"] = {"spawn"},
    !["handler"] = {"wait", "stop"},
    !["item"] = {"wait"}]

\* Futures that wait, spawned by started().
Pausing == [Quiet EXCEPT !["started"] = {"spawn"}, !["item"] = {"wait"}]

\* A wait future that waits.
Nested == [Quiet EXCEPT !["started"] = {"wait"}, !["waitfut"] = {"wait"}]

\* A future that cancels futures.
Cancelling == [Quiet EXCEPT !["started"] = {"spawn"}, !["item"] = {"cancel"}]

\* A stopping() that adds a future and answers Continue.
Restoring == [Quiet EXCEPT !["askDrained"] = {"spawn"}]
=============================================================================
