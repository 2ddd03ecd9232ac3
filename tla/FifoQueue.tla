------------------------------ MODULE FifoQueue ------------------------------
(***************************************************************************)
(* What src/src/address/queue.rs promises its users: an unbounded          *)
(* multi-producer, single-consumer FIFO queue.  A push appends atomically; *)
(* a pop takes the oldest value, reports Empty only when the queue is      *)
(* empty, and may report Inconsistent only when it is not (the PopResult   *)
(* documentation, lines 51-62 and 111-122).                                *)
(***************************************************************************)
EXTENDS Sequences

CONSTANT Value          \* what is pushed (envelopes, parked task handles)

VARIABLES
    queue,              \* the values pushed and not yet popped, oldest first
    ret,                \* the PopResult of the consumer's last pop
    dropped             \* the queue has been dropped

fifoVars == <<queue, ret, dropped>>

\* PopResult (lines 52-62), before the first pop "none".
Data(v) == [kind |-> "Data", val |-> v]
Result(k) == [kind |-> k]

Init == queue = <<>> /\ ret = Result("none") /\ dropped = FALSE

Push(v) ==
    /\ ~dropped
    /\ queue' = Append(queue, v)
    /\ UNCHANGED <<ret, dropped>>

PopData ==
    /\ ~dropped
    /\ queue # <<>>
    /\ ret' = Data(Head(queue))
    /\ queue' = Tail(queue)
    /\ UNCHANGED dropped

PopEmpty ==
    /\ ~dropped
    /\ queue = <<>>
    /\ ret' = Result("Empty")
    /\ UNCHANGED <<queue, dropped>>

PopInconsistent ==
    /\ ~dropped
    /\ queue # <<>>
    /\ ret' = Result("Inconsistent")
    /\ UNCHANGED <<queue, dropped>>

Drop ==
    /\ ~dropped
    /\ dropped' = TRUE
    /\ queue' = <<>>
    /\ UNCHANGED ret

Next ==
    \/ \E v \in Value : Push(v)
    \/ PopData \/ PopEmpty \/ PopInconsistent \/ Drop

Spec == Init /\ [][Next]_fifoVars

=============================================================================
