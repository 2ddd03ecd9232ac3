------------------------------- MODULE Writer -------------------------------
(***************************************************************************)
(* io::Writer and io::FramedWrite (src/src/io.rs): an actor appends to a     *)
(* buffer, the future WriterFut among the items of its context hands the     *)
(* buffer to an AsyncWrite, and when too much is left a WriterDrain future   *)
(* makes the context wait.  write() and close() wake nobody: they rely on    *)
(* WriterFut being polled later in the same poll of the context.  The loop   *)
(* of the context is the one of ActorContext, reduced to the wait futures,   *)
(* the mailbox and two items: WriterFut and one other future of the actor.   *)
(***************************************************************************)
EXTENDS Integers, Sequences

CONSTANTS Orders,     \* possible initial orders of the items "writer" and "other"
          Marks,      \* the watermarks that are used, records with fields low and high
          Faults,     \* what may fail, any number of times: "encode", "transport"
          MaxWrite,   \* bound: bytes written by the actor
          MaxEvent    \* bound: messages and events for the actor's callbacks

ASSUME WriterAssumption ==
    /\ Orders \subseteq {<<"writer", "other">>, <<"other", "writer">>} /\ Orders # {}
    /\ Marks \subseteq [low : Nat, high : Nat] /\ Marks # {}
    /\ Faults \subseteq {"encode", "transport"}
    /\ MaxWrite \in Nat /\ MaxEvent \in Nat

VARIABLES
    pc,        \* the context's poll: "idle", "wait", "mail", "item", the steps of
               \* WriterFut::poll (InWriter), or "ended"
    idx,       \* index of the item loop
    items,     \* ContextImpl::items
    drains,    \* the WriterDrain futures in ContextImpl::wait
    buffer,    \* InnerWriter::buffer, its length
    error,     \* InnerWriter::error is Some
    closing, closed,   \* InnerWriter::flags
    marks,     \* InnerWriter::low and high
    ready,     \* the transport takes bytes
    ioTask,    \* the task is registered with the transport
    notified,  \* the context's task is notified
    mail, events,  \* waiting messages, and events of the other item
    arrived,   \* messages and events so far
    accepted,  \* history: bytes the actor wrote
    out,       \* history: bytes the transport took
    late       \* history: the bytes, the encoder's error and the close of the actor
               \* since WriterFut or a drain looked at each of them the last time

inner == <<buffer, error, closing, closed, marks>>
io == <<ready, ioTask>>
env == <<mail, events, arrived>>
loop == <<pc, idx, items, drains>>
vars == <<loop, inner, io, notified, env, accepted, out, late>>

InWriter == pc \in {"taken", "write", "failed", "flush", "unflushed", "close", "finished"}

TypeOK ==
    /\ pc \in {"idle", "wait", "mail", "item", "ended"} \/ InWriter
    /\ idx \in 1..3 /\ items \in Seq({"writer", "other"}) /\ drains \in Nat
    /\ buffer \in 0..MaxWrite /\ marks \in Marks
    /\ {error, closing, closed, ready, ioTask, notified} \subseteq BOOLEAN
    /\ mail \in 0..MaxEvent /\ events \in 0..MaxEvent /\ arrived \in 0..MaxEvent
    /\ accepted \in 0..MaxWrite /\ out \in 0..MaxWrite
    /\ late \in [bytes : 0..MaxWrite, error : BOOLEAN, close : BOOLEAN]

\* Writer::new, or FramedWrite::from_buffer with bytes, in a callback of an
\* actor that has another item.
Init ==
    /\ pc = "idle" /\ idx = 1 /\ items \in Orders /\ drains = 0
    /\ buffer \in 0..MaxWrite /\ error = FALSE /\ closing = FALSE /\ closed = FALSE /\ marks \in Marks
    /\ ready \in BOOLEAN /\ ioTask = FALSE /\ notified = TRUE
    /\ mail = 0 /\ events = 0 /\ arrived = 0
    /\ accepted = buffer /\ out = 0 /\ late = [bytes |-> buffer, error |-> FALSE, close |-> FALSE]

-----------------------------------------------------------------------------
(* Outside the poll. *)

Has(item) == \E i \in DOMAIN items : items[i] = item

Arrive ==
    /\ pc # "ended" /\ arrived < MaxEvent /\ arrived' = arrived + 1 /\ notified' = TRUE
    /\ \/ mail' = mail + 1 /\ UNCHANGED events
       \/ Has("other") /\ events' = events + 1 /\ UNCHANGED mail
    /\ UNCHANGED <<loop, inner, io, accepted, out, late>>

\* The transport has room again and wakes the task that met WouldBlock; the
\* event loop notices between two polls.
Writable ==
    /\ pc \in {"idle", "ended"} /\ ioTask /\ ioTask' = FALSE /\ ready' = TRUE /\ notified' = TRUE
    /\ UNCHANGED <<loop, inner, env, accepted, out, late>>

StartPoll ==
    /\ pc = "idle" /\ notified
    /\ pc' = "wait" /\ notified' = FALSE
    /\ UNCHANGED <<idx, items, drains, inner, io, env, accepted, out, late>>

-----------------------------------------------------------------------------
\* What one callback of the actor does with its writer: write() any number of
\* bytes, in which the encoder may fail, close() and set_buffer_capacity().
Use ==
    \E n \in 0..(MaxWrite - accepted), fails \in BOOLEAN, closes \in BOOLEAN :
        /\ fails => "encode" \in Faults
        /\ buffer' = buffer + n /\ accepted' = accepted + n
        /\ error' = (error \/ fails) /\ closing' = (closing \/ closes) /\ UNCHANGED closed
        /\ marks' \in Marks
        /\ late' = [bytes |-> late.bytes + n, error |-> late.error \/ fails, close |-> late.close \/ closes]

\* A message handler; nothing is handled while the context waits.
HandleMail ==
    /\ pc = "mail" /\ mail > 0 /\ mail' = mail - 1 /\ Use
    /\ UNCHANGED <<loop, io, notified, events, arrived, out>>

MailDone ==
    /\ pc = "mail" /\ mail = 0 /\ pc' = "item" /\ idx' = 1
    /\ UNCHANGED <<items, drains, inner, io, notified, env, accepted, out, late>>

At(item) == pc = "item" /\ idx <= Len(items) /\ items[idx] = item

PollOther ==
    /\ At("other")
    /\ IF events > 0
       THEN events' = events - 1 /\ Use /\ UNCHANGED idx
       ELSE idx' = idx + 1 /\ UNCHANGED <<events, inner, accepted, late>>
    /\ UNCHANGED <<pc, items, drains, io, notified, mail, arrived, out>>

\* The item loop is over and nothing was added.
ItemsDone ==
    /\ pc = "item" /\ idx > Len(items) /\ pc' = "idle"
    /\ UNCHANGED <<idx, items, drains, inner, io, notified, env, accepted, out, late>>

-----------------------------------------------------------------------------
\* mutant: clears the buffer after a partial write
MutantWrites(result, left) ==
    /\ buffer' = 0 /\ out' = out + (buffer - left) /\ late' = [late EXCEPT !.bytes = 0]
    /\ result = "empty" /\ (left < buffer => ready) /\ UNCHANGED <<ioTask, ready>>

\* The writes of `while !buffer.is_empty()` up to the next one that is not a
\* plain success, with what it returns.  A transport that blocks registers the task.
Writes(result, left) ==
    /\ buffer' = left /\ out' = out + (buffer - left) /\ late' = [late EXCEPT !.bytes = 0]
    /\ left < buffer => ready
    /\ \/ /\ result = "empty" /\ left = 0 /\ ready' \in {ready, ready /\ buffer = 0}
          /\ UNCHANGED ioTask
       \/ /\ result = "block" /\ left > 0 /\ (ready => left < buffer)
          /\ ready' = FALSE /\ ioTask' = TRUE
       \/ /\ result \in {"zero", "fail"} /\ left > 0 /\ "transport" \in Faults
          /\ UNCHANGED <<ready, ioTask>>

\* mutant: ready below the low watermark, not when the buffer is empty
MutantDrainReady(result, left) == result \in {"zero", "fail"} \/ left \in 1..(marks.low - 1)

\* WriterDrain::poll returns Ready or Err, and the context pops it.
DrainReady(result, left) == result # "block" \/ left < marks.low

\* WriterDrain::poll in the wait loop of the context.
PollDrain ==
    /\ pc = "wait" /\ drains > 0
    /\ \/ error /\ drains' = drains - 1 /\ UNCHANGED <<pc, inner, io, out, late>>
       \/ ~error /\ \E result \in {"empty", "block", "zero", "fail"}, left \in 0..buffer :
             /\ Writes(result, left)
             /\ error' = (result \in {"zero", "fail"})
             /\ IF DrainReady(result, left)
                THEN drains' = drains - 1 /\ UNCHANGED pc
                ELSE pc' = "idle" /\ UNCHANGED drains
             /\ UNCHANGED <<closing, closed, marks>>
    /\ UNCHANGED <<idx, items, notified, env, accepted>>

WaitDone ==
    /\ pc = "wait" /\ drains = 0 /\ pc' = "mail"
    /\ UNCHANGED <<idx, items, drains, inner, io, notified, env, accepted, out, late>>

-----------------------------------------------------------------------------
(* WriterFut::poll: "taken", "failed" and "unflushed" are its three kinds of   *)
(* calls of error(), "finished" its calls of finished().                       *)

\* mutant: the error is not taken
MutantTakeError ==
    /\ At("writer") /\ pc' = IF error THEN "taken" ELSE "write"
    /\ late' = [late EXCEPT !.error = FALSE]
    /\ UNCHANGED <<idx, items, drains, inner, io, notified, env, accepted, out>>

TakeError ==
    /\ At("writer") /\ pc' = IF error THEN "taken" ELSE "write"
    /\ error' = FALSE /\ late' = [late EXCEPT !.error = FALSE]
    /\ UNCHANGED <<idx, items, drains, buffer, closing, closed, marks, io, notified, env, accepted, out>>

\* act.error(), a callback like any other: Stop finishes, Continue goes on with
\* the writes, after a failed flush with the test for CLOSING.
ErrorAction ==
    /\ pc \in {"taken", "failed", "unflushed"} /\ Use
    /\ pc' \in {"finished", IF pc = "unflushed" THEN "close" ELSE "write"}
    /\ UNCHANGED <<idx, items, drains, io, notified, env, out>>

\* mutant: waits for a drain whenever something is left
MutantBlocked(left) ==
    /\ drains' = drains + 1 /\ pc' = "wait" /\ UNCHANGED idx
    /\ items' = [items EXCEPT ![idx] = items[Len(items)], ![Len(items)] = items[idx]]

\* WouldBlock: above the high watermark the context waits for a drain, and the
\* item goes to the end of the list; otherwise the loop goes to the next item.
Blocked(left) ==
    IF left > marks.high
    THEN /\ drains' = drains + 1 /\ pc' = "wait" /\ UNCHANGED idx
         /\ items' = [items EXCEPT ![idx] = items[Len(items)], ![Len(items)] = items[idx]]
    ELSE pc' = "item" /\ idx' = idx + 1 /\ UNCHANGED <<items, drains>>

WriteBuffer ==
    /\ pc = "write"
    /\ \E result \in {"empty", "block", "zero", "fail"}, left \in 0..buffer :
          /\ Writes(result, left)
          /\ CASE result = "empty" -> pc' = "flush" /\ UNCHANGED <<idx, items, drains>>
               [] result = "block" -> Blocked(left)
               [] OTHER -> pc' = "failed" /\ UNCHANGED <<idx, items, drains>>
    /\ UNCHANGED <<error, closing, closed, marks, notified, env, accepted>>

\* flush() succeeds, blocks and registers the task, or fails.
Flush ==
    /\ pc = "flush"
    /\ \/ pc' = "close" /\ UNCHANGED <<idx, ioTask>>
       \/ ~ready /\ ioTask' = TRUE /\ pc' = "item" /\ idx' = idx + 1
       \/ "transport" \in Faults /\ pc' = "unflushed" /\ UNCHANGED <<idx, ioTask>>
    /\ UNCHANGED <<items, drains, inner, ready, notified, env, accepted, out, late>>

\* "close if closing and we dont need to flush any data"
Close ==
    /\ pc = "close" /\ late' = [late EXCEPT !.close = FALSE]
    /\ IF closing THEN closed' = TRUE /\ pc' = "finished" /\ UNCHANGED idx
                  ELSE pc' = "item" /\ idx' = idx + 1 /\ UNCHANGED closed
    /\ UNCHANGED <<items, drains, buffer, error, closing, marks, io, notified, env, accepted, out>>

\* SmallVec::swap_remove
SwapRemove(s, i) == SubSeq([s EXCEPT ![i] = s[Len(s)]], 1, Len(s) - 1)

\* act.finished(), then Ready: the item is removed; finished() may stop the actor.
Finish ==
    /\ pc = "finished" /\ Use
    /\ items' = SwapRemove(items, idx) /\ pc' \in {"item", "ended"}
    /\ UNCHANGED <<idx, drains, io, notified, env, out>>

-----------------------------------------------------------------------------
Poll == \/ StartPoll \/ PollDrain \/ WaitDone \/ HandleMail \/ MailDone \/ PollOther \/ ItemsDone
        \/ TakeError \/ ErrorAction \/ WriteBuffer \/ Flush \/ Close \/ Finish

Next == Arrive \/ Writable \/ Poll

Spec == Init /\ [][Next]_vars

\* The event loop polls a notified task, and a blocked transport gets room.
FairSpec == Spec /\ WF_vars(Poll) /\ WF_vars(Writable)

-----------------------------------------------------------------------------
Live == Has("writer") /\ pc # "ended"

(* A context that rests without an event on its way has sent, reported and     *)
(* closed all that the actor asked for before the writer looked last: what is  *)
(* left came later in the same poll, from an item behind the writer or from    *)
(* error() itself.                                                             *)
NothingForgotten ==
    (pc = "idle" /\ Live /\ ~notified /\ ~ioTask) =>
        buffer = late.bytes /\ (error => late.error) /\ (closing => late.close)

(* "Gracefully close sink": when the sink is closed the transport has every    *)
(* byte but those that error() wrote in answer to the flush that failed.       *)
GracefulClose == [][closed' /\ ~closed => out' = accepted' - late'.bytes]_vars

(* An actor that had to wait for the transport goes on.                        *)
BackpressureEnds == (drains > 0) ~> (drains = 0 \/ pc = "ended")

(* Polls of the context return to the event loop, unless error() answers       *)
(* Continue for ever to a transport that keeps failing, or a drain is ready    *)
(* for ever although it is asked for again, which takes watermarks that cross. *)
PollReturns ==
    \/ []<>(pc \in {"idle", "ended"})
    \/ []<>(pc \in {"taken", "failed"})
    \/ []<>(pc = "wait" /\ drains > 0 /\ marks.low > marks.high + 1)

-----------------------------------------------------------------------------
(* What the documentation makes one expect, and the code does not keep.        *)

(* write: "Send item to a sink": whenever the context rests with something to  *)
(* send, to report or to close, an event is on its way.                        *)
WriteIsSent ==
    (pc = "idle" /\ Live /\ (buffer > 0 \/ error \/ closing)) => notified \/ ioTask

(* "Gracefully close sink": every byte is out when the sink is closed.         *)
AllSentAtClose == [][closed' /\ ~closed => out' = accepted']_vars

(* Every poll returns to the event loop.                                       *)
EveryPollReturns == []<>(pc \in {"idle", "ended"})

=============================================================================
