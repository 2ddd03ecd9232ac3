--------------------------- MODULE UnsyncChannel ---------------------------
(***************************************************************************)
(* The mailbox channel for addresses of the same thread                     *)
(* (src/src/address/unsync_channel.rs) with the requests that wait for it   *)
(* (Request of src/src/address/message.rs, the envelopes of envelope.rs).   *)
(* Everything runs on one event loop, so a method or a poll is one step;    *)
(* what can go wrong is the order in which tasks are woken and polled.  A    *)
(* handler may pause its actor with ctx.wait() after any message, so other   *)
(* tasks run between two messages taken from the mailbox.                    *)
(***************************************************************************)
EXTENDS Integers, Sequences, FiniteSets

CONSTANTS
    Req,         \* requests made with Addr::send
    InitCap,     \* capacity of the new mailbox
    Caps,        \* capacities set_capacity() may be called with
    SameTask,    \* is a request polled by the task that called send()?
    Timeouts,    \* requests given a timeout
    MaxAddr,     \* bound: live addresses
    MaxFire,     \* bound: messages sent with do_send or try_send
    MaxSet       \* bound: calls of set_capacity

ASSUME ReqAssumption == IsFiniteSet(Req) /\ Timeouts \subseteq Req /\ "caller" \notin Req /\ "fire" \notin Req
ASSUME CapAssumption == InitCap \in Nat /\ Caps \subseteq Nat /\ SameTask \in BOOLEAN
ASSUME BoundAssumption == MaxAddr \in Nat \ {0} /\ MaxFire \in Nat /\ MaxSet \in Nat

VARIABLES
    buffer,       \* Shared::buffer, messages by the request that sent them
    capacity,     \* Shared::capacity, 0 is unbounded
    blocked,      \* Shared::blocked_senders, tasks by the request they poll
    blockedRecv,  \* Shared::blocked_recv is Some
    addrs,        \* live addresses
    rpc,          \* the receiving actor: "asleep", "polling" or "gone"
    rxNotified,   \* its task is notified
    st,           \* per request: what it holds, or how it ended
    note,         \* per request: its task is notified
    timer,        \* per request: Request::timeout
    reply,        \* per request: the oneshot its message carries
    handled,      \* requests whose message was handled
    fires, sets   \* calls made

chanVars == <<buffer, capacity, blocked, blockedRecv>>
reqVars  == <<st, note, timer, reply>>
vars == <<chanVars, addrs, rpc, rxNotified, reqVars, handled, fires, sets>>

Ended == {"ok", "timeout", "closed", "dropped"}

\* Weak references: the addresses and the senders that blocked requests hold.
Weak == addrs + Cardinality({r \in Req : st[r] = "info"})

HasRoom == capacity = 0 \/ Len(buffer) < capacity

Init ==
    /\ buffer = <<>> /\ capacity = InitCap /\ blocked = <<>> /\ blockedRecv = FALSE
    /\ addrs = 1 /\ rpc = "asleep" /\ rxNotified = TRUE
    /\ st = [r \in Req |-> "new"] /\ note = [r \in Req |-> FALSE]
    /\ timer = [r \in Req |-> IF r \in Timeouts THEN "armed" ELSE "off"]
    /\ reply = [r \in Req |-> "none"]
    /\ handled = {} /\ fires = 0 /\ sets = 0

-----------------------------------------------------------------------------
(* Sending. *)

\* mutant: leaves the receiver's task asleep
MutantPushBack(m) ==
    /\ buffer' = Append(buffer, m)
    /\ UNCHANGED <<blockedRecv, rxNotified>>

\* buffer.push_back, then the receiver's task is taken and notified.
PushBack(m) ==
    /\ buffer' = Append(buffer, m)
    /\ blockedRecv' = FALSE
    /\ rxNotified' = (rxNotified \/ blockedRecv)

\* do_send(), and try_send() of an Addr when there is room.
Fire ==
    /\ addrs > 0 /\ rpc # "gone" /\ fires < MaxFire
    /\ PushBack("fire")
    /\ fires' = fires + 1
    /\ UNCHANGED <<capacity, blocked, addrs, rpc, reqVars, handled, sets>>

\* try_send() of a Recipient when there is no room: its task is registered.
TrySendFull ==
    /\ addrs > 0 /\ rpc # "gone" /\ fires < MaxFire /\ ~HasRoom
    /\ blocked' = Append(blocked, "caller")
    /\ fires' = fires + 1
    /\ UNCHANGED <<buffer, capacity, blockedRecv, addrs, rpc, rxNotified, reqVars, handled, sets>>

\* Addr::send, which makes the Request: the first call of send() is made by
\* the caller's task.
AddrSend(r) ==
    /\ st[r] = "new" /\ addrs > 0
    /\ note' = [note EXCEPT ![r] = TRUE]
    /\ \/ /\ rpc = "gone" /\ st' = [st EXCEPT ![r] = "empty"]
          /\ UNCHANGED <<chanVars, rxNotified, reply>>
       \/ /\ rpc # "gone" /\ HasRoom /\ PushBack(r)
          /\ st' = [st EXCEPT ![r] = "rx"] /\ reply' = [reply EXCEPT ![r] = "wait"]
          /\ UNCHANGED <<capacity, blocked>>
       \/ /\ rpc # "gone" /\ ~HasRoom
          /\ blocked' = Append(blocked, IF SameTask THEN r ELSE "caller")
          /\ st' = [st EXCEPT ![r] = "info"]
          /\ UNCHANGED <<buffer, capacity, blockedRecv, rxNotified, reply>>
    /\ UNCHANGED <<addrs, rpc, timer, handled, fires, sets>>

-----------------------------------------------------------------------------
(* Request::poll *)

\* mutant: keeps the message after it was sent
MutantPollInfo(r) ==
    /\ note[r] /\ st[r] = "info" /\ rpc # "gone" /\ HasRoom /\ PushBack(r)
    /\ reply' = [reply EXCEPT ![r] = "wait"]
    /\ UNCHANGED <<capacity, blocked, note, st, addrs, rpc, timer, handled, fires, sets>>

\* The message is still here: send it again.  On Full the poll is over and
\* the timeout is not looked at.
PollInfo(r) ==
    /\ note[r] /\ st[r] = "info"
    /\ \/ /\ rpc = "gone" /\ st' = [st EXCEPT ![r] = "closed"]
          /\ note' = [note EXCEPT ![r] = FALSE]
          /\ UNCHANGED <<chanVars, rxNotified, reply>>
       \/ /\ rpc # "gone" /\ HasRoom /\ PushBack(r)
          /\ st' = [st EXCEPT ![r] = "rx"] /\ reply' = [reply EXCEPT ![r] = "wait"]
          /\ UNCHANGED <<capacity, blocked, note>>
       \/ /\ rpc # "gone" /\ ~HasRoom
          /\ blocked' = Append(blocked, r) /\ note' = [note EXCEPT ![r] = FALSE]
          /\ UNCHANGED <<buffer, capacity, blockedRecv, rxNotified, st, reply>>
    /\ UNCHANGED <<addrs, rpc, timer, handled, fires, sets>>

\* The message is delivered: poll the reply, then the timeout.
PollRx(r) ==
    /\ note[r] /\ st[r] \in {"rx", "empty"}
    /\ note' = [note EXCEPT ![r] = FALSE]
    /\ LET result == IF st[r] = "empty" \/ reply[r] = "lost" THEN "closed"
                     ELSE IF reply[r] = "sent" THEN "ok"
                     ELSE IF timer[r] = "fired" THEN "timeout" ELSE "rx"
       IN  /\ st' = [st EXCEPT ![r] = result]
           /\ timer' = [timer EXCEPT ![r] =
                 IF result = "rx" /\ @ = "armed" THEN "ticking" ELSE @]
    /\ UNCHANGED <<chanVars, addrs, rpc, rxNotified, reply, handled, fires, sets>>

\* The reactor's timer notifies the task that polled it.
TimerFires(r) ==
    /\ st[r] \in {"info", "rx", "empty"} /\ timer[r] \in {"armed", "ticking"}
    /\ timer' = [timer EXCEPT ![r] = "fired"]
    /\ note' = [note EXCEPT ![r] = @ \/ timer[r] = "ticking"]
    /\ UNCHANGED <<chanVars, addrs, rpc, rxNotified, st, reply, handled, fires, sets>>

\* A sender goes away: the last one wakes the receiver.
LastSender ==
    /\ blockedRecv' = (blockedRecv /\ ~(Weak = 1))
    /\ rxNotified' = (rxNotified \/ (blockedRecv /\ Weak = 1))

\* The owner drops a request it no longer wants.
DropRequest(r) ==
    /\ st[r] \in {"info", "rx", "empty"}
    /\ st' = [st EXCEPT ![r] = "dropped"]
    /\ IF st[r] = "info" /\ rpc # "gone" THEN LastSender ELSE UNCHANGED <<blockedRecv, rxNotified>>
    /\ UNCHANGED <<buffer, capacity, blocked, addrs, rpc, note, timer, reply, handled, fires, sets>>

CloneAddr ==
    /\ addrs \in 1..(MaxAddr - 1) /\ addrs' = addrs + 1
    /\ UNCHANGED <<chanVars, rpc, rxNotified, reqVars, handled, fires, sets>>

DropAddr ==
    /\ addrs > 0 /\ addrs' = addrs - 1
    /\ IF rpc # "gone" THEN LastSender ELSE UNCHANGED <<blockedRecv, rxNotified>>
    /\ UNCHANGED <<buffer, capacity, blocked, rpc, reqVars, handled, fires, sets>>

-----------------------------------------------------------------------------
(* The receiving actor. *)

Wake ==
    /\ rpc = "asleep" /\ rxNotified
    /\ rpc' = "polling" /\ rxNotified' = FALSE
    /\ UNCHANGED <<chanVars, addrs, reqVars, handled, fires, sets>>

\* ctx.address()
NewAddr ==
    /\ rpc = "polling" /\ addrs < MaxAddr /\ addrs' = addrs + 1
    /\ UNCHANGED <<chanVars, rpc, rxNotified, reqVars, handled, fires, sets>>

\* The envelope gives its message to the handler unless the request was
\* dropped (one that timed out was: its owner has the result).
Envelope(m) == m \in Req /\ st[m] \notin Ended

\* poll() takes a message and wakes one blocked task, unless no sender is left.
Pop ==
    /\ rpc = "polling" /\ buffer # <<>>
    /\ LET m == Head(buffer)
           wakes == Weak > 0 /\ blocked # <<>>
           live == Envelope(m)
       IN  /\ buffer' = Tail(buffer)
           /\ blocked' = IF wakes THEN Tail(blocked) ELSE blocked
           /\ handled' = IF live THEN handled \cup {m} ELSE handled
           /\ \E now \in {"wait", "sent"} :
                 reply' = [r \in Req |-> IF r = m THEN IF live THEN now ELSE "lost" ELSE reply[r]]
           /\ note' = [r \in Req |-> \/ note[r]
                                     \/ wakes /\ Head(blocked) = r
                                     \/ r = m /\ reply'[r] = "sent"]
    /\ UNCHANGED <<capacity, blockedRecv, addrs, rpc, rxNotified, st, timer, fires, sets>>

\* mutant: the task of the request is not notified
MutantRespond(r) ==
    /\ r \in handled /\ reply[r] = "wait"
    /\ \E x \in {"sent", "lost"} : reply' = [reply EXCEPT ![r] = x]
    /\ UNCHANGED <<chanVars, addrs, rpc, rxNotified, st, note, timer, handled, fires, sets>>

\* The response future of a handler resolves, or is dropped.
Respond(r) ==
    /\ r \in handled /\ reply[r] = "wait"
    /\ \E x \in {"sent", "lost"} : reply' = [reply EXCEPT ![r] = x]
    /\ note' = [note EXCEPT ![r] = TRUE]
    /\ UNCHANGED <<chanVars, addrs, rpc, rxNotified, st, timer, handled, fires, sets>>

\* poll() finds nothing: it registers the task if there is a sender.
PollEmpty ==
    /\ rpc = "polling" /\ buffer = <<>>
    /\ rpc' = "asleep" /\ blockedRecv' = (blockedRecv \/ Weak > 0)
    /\ UNCHANGED <<buffer, capacity, blocked, addrs, rxNotified, reqVars, handled, fires, sets>>

\* How many blocked tasks set_capacity(n) notifies.
Woken(n) == LET free == n - Len(buffer) IN
            IF free <= 0 THEN 0 ELSE IF free < Len(blocked) THEN free ELSE Len(blocked)

SetCapacity(n) ==
    /\ rpc = "polling" /\ sets < MaxSet /\ sets' = sets + 1
    /\ capacity' = n
    /\ blocked' = SubSeq(blocked, Woken(n) + 1, Len(blocked))
    /\ note' = [r \in Req |-> note[r] \/ \E i \in 1..Woken(n) : blocked[i] = r]
    /\ UNCHANGED <<buffer, blockedRecv, addrs, rpc, rxNotified, st, timer, reply, handled, fires>>

\* mutant: the blocked senders are not notified
MutantDropReceiver ==
    /\ rpc # "gone" /\ rpc' = "gone"
    /\ buffer' = <<>> /\ blocked' = <<>> /\ blockedRecv' = FALSE
    /\ note' = [r \in Req |-> note[r] \/ reply[r] = "wait"]
    /\ reply' = [r \in Req |-> IF reply[r] = "wait" THEN "lost" ELSE reply[r]]
    /\ UNCHANGED <<capacity, addrs, rxNotified, st, timer, handled, fires, sets>>

\* The replies that go with the actor: those of queued messages and of response
\* futures spawned into its context; futures spawned into the arbiter stay.
Lost(kept) == {r \in Req : reply[r] = "wait" /\ r \notin kept}

\* Drop of the receiver: every blocked task is notified.
DropReceiver ==
    /\ rpc # "gone" /\ rpc' = "gone"
    /\ buffer' = <<>> /\ blocked' = <<>> /\ blockedRecv' = FALSE
    /\ \E kept \in SUBSET handled :
          /\ note' = [r \in Req |-> \/ note[r]
                                    \/ r \in Lost(kept)
                                    \/ \E i \in DOMAIN blocked : blocked[i] = r]
          /\ reply' = [r \in Req |-> IF r \in Lost(kept) THEN "lost" ELSE reply[r]]
    /\ UNCHANGED <<capacity, addrs, rxNotified, st, timer, handled, fires, sets>>

-----------------------------------------------------------------------------
Client(r) == PollInfo(r) \/ PollRx(r)
Receiver == Wake \/ Pop \/ PollEmpty

Next ==
    \/ \E r \in Req : AddrSend(r) \/ Client(r) \/ TimerFires(r) \/ DropRequest(r) \/ Respond(r)
    \/ Fire \/ TrySendFull \/ CloneAddr \/ DropAddr
    \/ Receiver \/ NewAddr \/ DropReceiver
    \/ \E n \in Caps : SetCapacity(n)

Spec == Init /\ [][Next]_vars

(* The event loop polls every notified task and timers fire.  A response      *)
(* future resolves, but need not when its request has a timeout.             *)
FairSpec == /\ Spec /\ WF_vars(Receiver)
            /\ \A r \in Req : WF_vars(Client(r)) /\ WF_vars(TimerFires(r))
            /\ \A r \in Req \ Timeouts : WF_vars(Respond(r))

-----------------------------------------------------------------------------
(* Types of the channel and of the requests. *)
TypeOK ==
    /\ buffer \in Seq(Req \cup {"fire"}) /\ capacity \in Nat
    /\ blocked \in Seq(Req \cup {"caller"}) /\ blockedRecv \in BOOLEAN
    /\ addrs \in 0..MaxAddr /\ rpc \in {"asleep", "polling", "gone"} /\ rxNotified \in BOOLEAN
    /\ st \in [Req -> {"new", "info", "rx", "empty"} \cup Ended]
    /\ note \in [Req -> BOOLEAN]
    /\ timer \in [Req -> {"off", "armed", "ticking", "fired"}]
    /\ reply \in [Req -> {"none", "wait", "sent", "lost"}]
    /\ handled \subseteq Req /\ fires \in 0..MaxFire /\ sets \in 0..MaxSet

(* An actor asleep on its Unsync mailbox has no message there, and is         *)
(* registered with it while anyone can send one.                              *)
ReceiverWoken ==
    rpc = "asleep" /\ ~rxNotified => buffer = <<>> /\ (Weak > 0 => blockedRecv)

(* A request that sleeps can be woken: its task is among the blocked senders  *)
(* of a living channel, or its reply is still to come and its timeout is      *)
(* ticking.                                                                   *)
RequestWakeable ==
    \A r \in Req : ~note[r] =>
        /\ st[r] = "info" => rpc # "gone" /\ \E i \in DOMAIN blocked : blocked[i] = r
        /\ st[r] = "rx" => reply[r] = "wait" /\ timer[r] \in {"off", "ticking"}

(* However often a request retries, its message is queued once and handled    *)
(* once, and an answer comes from its handler.                                *)
DeliveredOnce ==
    /\ \A i, j \in DOMAIN buffer : buffer[i] = buffer[j] /\ buffer[i] \in Req => i = j
    /\ \A r \in Req : /\ (\E i \in DOMAIN buffer : buffer[i] = r) => r \notin handled
                      /\ reply[r] = "sent" => r \in handled

(* A delivered request ends: with the answer, with Closed when the actor or   *)
(* its response future is gone, and with Timeout although the handler never   *)
(* answers, whichever of them comes first.                                    *)
DeliveredSettles == \A r \in Req : st[r] = "rx" ~> st[r] \in Ended

(* "Send asynchronous message and wait for response": a request that found    *)
(* the mailbox full is delivered or ends.                                     *)
BlockedSettles == \A r \in Req : st[r] = "info" ~> st[r] # "info"

(* "Set message delivery timeout": a request ends once its timeout is over.   *)
TimeoutEnds == \A r \in Req : timer[r] = "fired" ~> st[r] \in Ended

(* "Set channel capacity. This method also wakes up waiting senders": nobody  *)
(* sleeps on an unbounded mailbox.                                            *)
UnboundedIsFree == capacity = 0 => \A r \in Req : st[r] = "info" => note[r]
=============================================================================
