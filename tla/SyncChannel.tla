----------------------------- MODULE SyncChannel -----------------------------
(***************************************************************************)
(* The thread-safe mailbox channel of src/src/address/sync_channel.rs.     *)
(* Senders live on any thread and share an `Inner` with one receiver, the  *)
(* mailbox of an actor.  There is no lock around the channel: each step    *)
(* below is one atomic access, one queue operation or one short mutex      *)
(* section, and steps of different threads interleave.                     *)
(*                                                                         *)
(* The two queues are sequences: MpscQueue is proved to implement an       *)
(* atomic FIFO queue, and the callers of pop() spin on Inconsistent.       *)
(*                                                                         *)
(* A sender handle is used by one task, which is its name here as well.    *)
(* The receiver runs inside the task of its actor's Context.               *)
(***************************************************************************)
EXTENDS Integers, Sequences, FiniteSets

CONSTANTS
    Sender,         \* handles that can exist (SyncAddressSender)
    First,          \* the handle channel() returns
    InitCap,        \* capacity given to channel()
    Caps,           \* capacities set_capacity() may be called with
    Ops,            \* the calls the clients make, a subset of AllOps
    MaxCalls,       \* bound: calls per sender
    MaxSets,        \* bound: calls of set_capacity
    SpuriousPolls   \* whether a task is also polled without being notified

\* send() from a request that waits; try_send(park = false) of an Addr;
\* try_send(park = true) of a Recipient; do_send().
AllOps == {"send", "try", "try_park", "do"}

ASSUME SenderAssumption == IsFiniteSet(Sender) /\ First \in Sender
ASSUME CapAssumption == InitCap \in Nat /\ Caps \subseteq Nat
ASSUME OpsAssumption == Ops \subseteq AllOps
ASSUME BoundAssumption ==
    MaxCalls \in Nat /\ MaxSets \in Nat /\ SpuriousPolls \in BOOLEAN

VARIABLES
    buffer,         \* Inner::buffer, 0 is unbounded
    isOpen,         \* Inner::state, decoded: is_open
    numMessages,    \* Inner::state, decoded: num_messages
    messageQueue,   \* Inner::message_queue, each message as the op that sent it
    parkedQueue,    \* Inner::parked_queue, handles as the sender they belong to
    numSenders,     \* Inner::num_senders
    recvUnparked,   \* ReceiverTask::unparked
    recvTask,       \* ReceiverTask::task is Some
    sParked,        \* SenderTask::is_parked, per sender
    sTask,          \* SenderTask::task is Some, per sender
    maybeParked,    \* SyncAddressSender::maybe_parked
    spc,            \* where each sender is
    op,             \* the call it is in
    curr,           \* inc_num_messages: the state it loaded
    woken,          \* the sender's task was notified and not polled since
    rpc,            \* where the receiver is
    rxHandle,       \* the handle the receiver popped and is about to notify
    rxNotified,     \* the receiver's task was notified and not polled since
    calls,          \* calls made, per sender
    sets            \* calls of set_capacity made

stateVars == <<isOpen, numMessages>>
recvVars == <<recvUnparked, recvTask>>
taskVars == <<sParked, sTask, maybeParked>>
rxVars == <<rpc, rxHandle>>
boundVars == <<calls, sets>>
vars == <<buffer, isOpen, numMessages, messageQueue, parkedQueue, numSenders,
          recvUnparked, recvTask, sParked, sTask, maybeParked, spc, op, curr,
          woken, rpc, rxHandle, rxNotified, calls, sets>>

NoState == [open |-> FALSE, num |-> 0]
NoHandle == "no handle"

ASSUME HandleAssumption == NoHandle \notin Sender

\* channel(): open, empty, one sender; the receiver's task is running.
Init ==
    /\ buffer = InitCap
    /\ isOpen = TRUE
    /\ numMessages = 0
    /\ messageQueue = <<>>
    /\ parkedQueue = <<>>
    /\ numSenders = 1
    /\ recvUnparked = FALSE
    /\ recvTask = FALSE
    /\ sParked = [s \in Sender |-> FALSE]
    /\ sTask = [s \in Sender |-> FALSE]
    /\ maybeParked = [s \in Sender |-> FALSE]
    /\ spc = [s \in Sender |-> IF s = First THEN "idle" ELSE "none"]
    /\ op = [s \in Sender |-> "none"]
    /\ curr = [s \in Sender |-> NoState]
    /\ woken = [s \in Sender |-> FALSE]
    /\ rpc = "run"
    /\ rxHandle = NoHandle
    /\ rxNotified = FALSE
    /\ calls = [s \in Sender |-> 0]
    /\ sets = 0

-----------------------------------------------------------------------------
(* Senders: send, try_send, do_send *)

\* A rejected request waits for its task to be notified; other callers go on.
AfterFull(k) == IF k = "send" THEN "blocked" ELSE "idle"

\* A call returned Ok or Closed, or the drop of the handle is complete.
AfterDone(k) == IF k = "drop" THEN "gone" ELSE "idle"

\* poll_unparked(false), which send and try_send begin with.
PollUnparked(s, k) ==
    \/ /\ k = "do" \/ ~maybeParked[s]
       /\ spc' = [spc EXCEPT ![s] = "load"]
       /\ UNCHANGED taskVars
    \/ /\ k # "do" /\ maybeParked[s] /\ ~sParked[s]
       /\ maybeParked' = [maybeParked EXCEPT ![s] = FALSE]
       /\ spc' = [spc EXCEPT ![s] = "load"]
       /\ UNCHANGED <<sParked, sTask>>
    \/ /\ k # "do" /\ maybeParked[s] /\ sParked[s]
       /\ sTask' = [sTask EXCEPT ![s] = FALSE]
       /\ spc' = [spc EXCEPT ![s] = AfterFull(k)]
       /\ UNCHANGED <<sParked, maybeParked>>

\* A client calls send, try_send or do_send.
Call(s, k) ==
    /\ spc[s] = "idle"
    /\ calls[s] < MaxCalls
    /\ calls' = [calls EXCEPT ![s] = @ + 1]
    /\ op' = [op EXCEPT ![s] = k]
    /\ woken' = [woken EXCEPT ![s] = FALSE]
    /\ PollUnparked(s, k)
    /\ UNCHANGED <<buffer, stateVars, messageQueue, parkedQueue, numSenders, recvVars,
                   curr, rxVars, rxNotified, sets>>

\* The task of a rejected request is polled again and the request calls send
\* again (Request::poll, src/src/address/message.rs).
Retry(s) ==
    /\ spc[s] = "blocked"
    /\ woken[s] \/ SpuriousPolls
    /\ woken' = [woken EXCEPT ![s] = FALSE]
    /\ PollUnparked(s, "send")
    /\ UNCHANGED <<buffer, stateVars, messageQueue, parkedQueue, numSenders, recvVars,
                   op, curr, rxVars, rxNotified, boundVars>>

\* inc_num_messages, inc_num_messages_force: state.load
Load(s) ==
    /\ spc[s] = "load"
    /\ curr' = [curr EXCEPT ![s] = [open |-> isOpen, num |-> numMessages]]
    /\ spc' = [spc EXCEPT ![s] = "check"]
    /\ UNCHANGED <<buffer, stateVars, messageQueue, parkedQueue, numSenders, recvVars,
                   taskVars, op, woken, rxVars, rxNotified, boundVars>>

\* The same test with one slot too many.
MutantIsFull(s) == op[s] # "do" /\ buffer # 0 /\ curr[s].num > buffer

\* The loaded state says that the channel is full.  do_send does not look.
IsFull(s) == op[s] # "do" /\ buffer # 0 /\ curr[s].num >= buffer

\* do_send does not count its message.
MutantCheck(s) ==
    /\ spc[s] = "check"
    /\ \/ /\ ~curr[s].open
          /\ spc' = [spc EXCEPT ![s] = "idle"]
       \/ /\ curr[s].open /\ IsFull(s)
          /\ spc' = [spc EXCEPT ![s] = IF op[s] = "try" THEN "idle" ELSE "park"]
       \/ /\ curr[s].open /\ ~IsFull(s)
          /\ spc' = [spc EXCEPT ![s] = IF op[s] = "do" THEN "push" ELSE "cas"]
    /\ UNCHANGED <<buffer, stateVars, messageQueue, parkedQueue, numSenders, recvVars,
                   taskVars, op, curr, woken, rxVars, rxNotified, boundVars>>

\* The body of the loop up to the compare_exchange: Closed, Full or go on.
Check(s) ==
    /\ spc[s] = "check"
    /\ \/ /\ ~curr[s].open
          /\ spc' = [spc EXCEPT ![s] = "idle"]
          /\ curr' = [curr EXCEPT ![s] = NoState]
       \/ /\ curr[s].open /\ IsFull(s)
          /\ spc' = [spc EXCEPT ![s] = IF op[s] = "try" THEN "idle" ELSE "park"]
          /\ curr' = [curr EXCEPT ![s] = NoState]
       \/ /\ curr[s].open /\ ~IsFull(s)
          /\ spc' = [spc EXCEPT ![s] = "cas"]
          /\ UNCHANGED curr
    /\ UNCHANGED <<buffer, stateVars, messageQueue, parkedQueue, numSenders, recvVars,
                   taskVars, op, woken, rxVars, rxNotified, boundVars>>

\* state.compare_exchange: count the message, or take the actual state.
Cas(s) ==
    /\ spc[s] = "cas"
    /\ \/ /\ curr[s] = [open |-> isOpen, num |-> numMessages]
          /\ numMessages' = numMessages + 1
          /\ curr' = [curr EXCEPT ![s] = NoState]
          /\ spc' = [spc EXCEPT ![s] = "push"]
       \/ /\ curr[s] # [open |-> isOpen, num |-> numMessages]
          /\ curr' = [curr EXCEPT ![s] = [open |-> isOpen, num |-> numMessages]]
          /\ spc' = [spc EXCEPT ![s] = "check"]
          /\ UNCHANGED numMessages
    /\ UNCHANGED <<buffer, isOpen, messageQueue, parkedQueue, numSenders, recvVars,
                   taskVars, op, woken, rxVars, rxNotified, boundVars>>

\* queue_push_and_signal: message_queue.push
Push(s) ==
    /\ spc[s] = "push"
    /\ messageQueue' = Append(messageQueue, op[s])
    /\ spc' = [spc EXCEPT ![s] = "signal"]
    /\ UNCHANGED <<buffer, stateVars, parkedQueue, numSenders, recvVars, taskVars,
                   op, curr, woken, rxVars, rxNotified, boundVars>>

\* The flag is only set when there is a task to take.
MutantSignal(s) ==
    /\ spc[s] = "signal"
    /\ recvUnparked' = (recvUnparked \/ recvTask)
    /\ recvTask' = FALSE
    /\ spc' = [spc EXCEPT ![s] = IF ~recvUnparked /\ recvTask THEN "notify"
                                 ELSE AfterDone(op[s])]
    /\ UNCHANGED <<buffer, stateVars, messageQueue, parkedQueue, numSenders,
                   taskVars, op, curr, woken, rxVars, rxNotified, boundVars>>

\* signal(): the section under recv_task's lock.
Signal(s) ==
    /\ spc[s] = "signal"
    /\ recvUnparked' = TRUE
    /\ recvTask' = (recvTask /\ recvUnparked)
    /\ spc' = [spc EXCEPT ![s] = IF ~recvUnparked /\ recvTask THEN "notify"
                                 ELSE AfterDone(op[s])]
    /\ UNCHANGED <<buffer, stateVars, messageQueue, parkedQueue, numSenders,
                   taskVars, op, curr, woken, rxVars, rxNotified, boundVars>>

\* The task taken from the slot is not notified.
MutantNotify(s) ==
    /\ spc[s] = "notify"
    /\ spc' = [spc EXCEPT ![s] = AfterDone(op[s])]
    /\ UNCHANGED <<buffer, stateVars, messageQueue, parkedQueue, numSenders, recvVars,
                   taskVars, op, curr, woken, rxVars, rxNotified, boundVars>>

\* signal(): task.notify() after the lock is released.
Notify(s) ==
    /\ spc[s] = "notify"
    /\ rxNotified' = TRUE
    /\ spc' = [spc EXCEPT ![s] = AfterDone(op[s])]
    /\ UNCHANGED <<buffer, stateVars, messageQueue, parkedQueue, numSenders, recvVars,
                   taskVars, op, curr, woken, rxVars, boundVars>>

\* park(true): the section under sender_task's lock.
Park(s) ==
    /\ spc[s] = "park"
    /\ sTask' = [sTask EXCEPT ![s] = TRUE]
    /\ sParked' = [sParked EXCEPT ![s] = TRUE]
    /\ spc' = [spc EXCEPT ![s] = "parkpush"]
    /\ UNCHANGED <<buffer, stateVars, messageQueue, parkedQueue, numSenders, recvVars,
                   maybeParked, op, curr, woken, rxVars, rxNotified, boundVars>>

\* park(true): parked_queue.push
ParkPush(s) ==
    /\ spc[s] = "parkpush"
    /\ parkedQueue' = Append(parkedQueue, s)
    /\ spc' = [spc EXCEPT ![s] = "parkcheck"]
    /\ UNCHANGED <<buffer, stateVars, messageQueue, numSenders, recvVars, taskVars,
                   op, curr, woken, rxVars, rxNotified, boundVars>>

\* park(true): was the channel closed meanwhile?  The call returns Full.
ParkCheck(s) ==
    /\ spc[s] = "parkcheck"
    /\ maybeParked' = [maybeParked EXCEPT ![s] = isOpen]
    /\ spc' = [spc EXCEPT ![s] = AfterFull(op[s])]
    /\ UNCHANGED <<buffer, stateVars, messageQueue, parkedQueue, numSenders, recvVars,
                   sParked, sTask, op, curr, woken, rxVars, rxNotified, boundVars>>

-----------------------------------------------------------------------------
(* Sender handles: clone and drop *)

\* SyncAddressSender::clone by s; the new handle is t.
Clone(s, t) ==
    /\ spc[s] = "idle"
    /\ spc[t] = "none"
    /\ numSenders' = numSenders + 1
    /\ spc' = [spc EXCEPT ![t] = "idle"]
    /\ UNCHANGED <<buffer, stateVars, messageQueue, parkedQueue, recvVars, taskVars,
                   op, curr, woken, rxVars, rxNotified, boundVars>>

\* fetch_sub returns the previous value: comparing it with 0 is too late.
MutantDropSender(s) ==
    /\ spc[s] \in {"idle", "blocked"}
    /\ numSenders' = numSenders - 1
    /\ op' = [op EXCEPT ![s] = "drop"]
    /\ spc' = [spc EXCEPT ![s] = IF numSenders = 0 THEN "signal" ELSE "gone"]
    /\ UNCHANGED <<buffer, stateVars, messageQueue, parkedQueue, recvVars, taskVars,
                   curr, woken, rxVars, rxNotified, boundVars>>

\* Drop for SyncAddressSender, also while its request is waiting: the last
\* one signals the receiver.
DropSender(s) ==
    /\ spc[s] \in {"idle", "blocked"}
    /\ numSenders' = numSenders - 1
    /\ op' = [op EXCEPT ![s] = "drop"]
    /\ spc' = [spc EXCEPT ![s] = IF numSenders = 1 THEN "signal" ELSE "gone"]
    /\ UNCHANGED <<buffer, stateVars, messageQueue, parkedQueue, recvVars, taskVars,
                   curr, woken, rxVars, rxNotified, boundVars>>

-----------------------------------------------------------------------------
(* Receiver: poll *)

\* poll() is called by the running task.
Poll ==
    /\ rpc = "run"
    /\ rpc' = "pop"
    /\ UNCHANGED <<buffer, stateVars, messageQueue, parkedQueue, numSenders, recvVars,
                   taskVars, spc, op, curr, woken, rxHandle, rxNotified, boundVars>>

\* next_message: message_queue.pop
Pop ==
    /\ rpc = "pop"
    /\ \/ /\ messageQueue # <<>>
          /\ messageQueue' = Tail(messageQueue)
          /\ rpc' = "unpark"
       \/ /\ messageQueue = <<>>
          /\ rpc' = "trypark"
          /\ UNCHANGED messageQueue
    /\ UNCHANGED <<buffer, stateVars, parkedQueue, numSenders, recvVars, taskVars,
                   spc, op, curr, woken, rxHandle, rxNotified, boundVars>>

\* Parking without looking at the unparked flag.
MutantTryPark ==
    /\ rpc = "trypark"
    /\ recvTask' = TRUE
    /\ rpc' = "connected"
    /\ UNCHANGED <<buffer, stateVars, messageQueue, parkedQueue, numSenders, recvUnparked,
                   taskVars, spc, op, curr, woken, rxHandle, rxNotified, boundVars>>

\* try_park: NotEmpty loops, Parked makes poll() return NotReady.
TryPark ==
    /\ rpc = "trypark"
    /\ \/ /\ recvUnparked
          /\ recvUnparked' = FALSE
          /\ rpc' = "pop"
          /\ UNCHANGED recvTask
       \/ /\ ~recvUnparked
          /\ recvTask' = TRUE
          /\ rpc' = "connected"
          /\ UNCHANGED recvUnparked
    /\ UNCHANGED <<buffer, stateVars, messageQueue, parkedQueue, numSenders, taskVars,
                   spc, op, curr, woken, rxHandle, rxNotified, boundVars>>

\* unpark_one, and the wake-all loops of set_capacity and drop:
\* parked_queue.pop, then notify() or the end of the loop.
UnparkPop(from, wake, after) ==
    /\ rpc = from
    /\ \/ /\ parkedQueue # <<>>
          /\ rxHandle' = Head(parkedQueue)
          /\ parkedQueue' = Tail(parkedQueue)
          /\ rpc' = wake
       \/ /\ parkedQueue = <<>>
          /\ rpc' = after
          /\ UNCHANGED <<rxHandle, parkedQueue>>
    /\ UNCHANGED <<buffer, stateVars, messageQueue, numSenders, recvVars, taskVars,
                   spc, op, curr, woken, rxNotified, boundVars>>

\* SenderTask::notify, under the handle's lock.
NotifyHandle(from, after) ==
    /\ rpc = from
    /\ sParked' = [sParked EXCEPT ![rxHandle] = FALSE]
    /\ sTask' = [sTask EXCEPT ![rxHandle] = FALSE]
    /\ woken' = [woken EXCEPT ![rxHandle] = @ \/ sTask[rxHandle]]
    /\ rxHandle' = NoHandle
    /\ rpc' = after
    /\ UNCHANGED <<buffer, stateVars, messageQueue, parkedQueue, numSenders, recvVars,
                   maybeParked, spc, op, curr, rxNotified, boundVars>>

UnparkOne == UnparkPop("unpark", "wake_one", "dec") \/ NotifyHandle("wake_one", "dec")

\* dec_num_messages; poll() returns the message to the mailbox.
Dec ==
    /\ rpc = "dec"
    /\ numMessages' = numMessages - 1
    /\ rpc' = "run"
    /\ UNCHANGED <<buffer, isOpen, messageQueue, parkedQueue, numSenders, recvVars,
                   taskVars, spc, op, curr, woken, rxHandle, rxNotified, boundVars>>

-----------------------------------------------------------------------------
(* Receiver: the context around it *)

\* The context asks connected(); an actor nobody can reach stops and drops its
\* mailbox (ContextImpl::alive).  Otherwise its task returns NotReady.
Connected ==
    /\ rpc = "connected"
    /\ rpc' = IF numSenders # 0 THEN "asleep" ELSE "close"
    /\ UNCHANGED <<buffer, stateVars, messageQueue, parkedQueue, numSenders, recvVars,
                   taskVars, spc, op, curr, woken, rxHandle, rxNotified, boundVars>>

\* The executor polls the task again: it was notified ...
Wake ==
    /\ rpc = "asleep"
    /\ rxNotified
    /\ rxNotified' = FALSE
    /\ rpc' = "run"
    /\ UNCHANGED <<buffer, stateVars, messageQueue, parkedQueue, numSenders, recvVars,
                   taskVars, spc, op, curr, woken, rxHandle, boundVars>>

\* ... or something else the context waits for is ready.
SpuriousWake ==
    /\ rpc = "asleep"
    /\ SpuriousPolls
    /\ ~rxNotified
    /\ rpc' = "run"
    /\ UNCHANGED <<buffer, stateVars, messageQueue, parkedQueue, numSenders, recvVars,
                   taskVars, spc, op, curr, woken, rxHandle, rxNotified, boundVars>>

\* set_capacity(c)
SetCapacity(c) ==
    /\ rpc = "run"
    /\ sets < MaxSets
    /\ sets' = sets + 1
    /\ buffer' = c
    /\ rpc' = IF c > buffer THEN "capwake" ELSE "run"
    /\ UNCHANGED <<stateVars, messageQueue, parkedQueue, numSenders, recvVars,
                   taskVars, spc, op, curr, woken, rxHandle, rxNotified, calls>>

CapWake == UnparkPop("capwake", "wake_cap", "run") \/ NotifyHandle("wake_cap", "capwake")

\* SyncAddressReceiver::sender(), handing out t.
NewSender(t) ==
    /\ rpc = "run"
    /\ spc[t] = "none"
    /\ numSenders' = numSenders + 1
    /\ spc' = [spc EXCEPT ![t] = "idle"]
    /\ UNCHANGED <<buffer, stateVars, messageQueue, parkedQueue, recvVars, taskVars,
                   op, curr, woken, rxVars, rxNotified, boundVars>>

\* The actor stops for a reason of its own and its mailbox is dropped.
Stop ==
    /\ rpc = "run"
    /\ rpc' = "close"
    /\ UNCHANGED <<buffer, stateVars, messageQueue, parkedQueue, numSenders, recvVars,
                   taskVars, spc, op, curr, woken, rxHandle, rxNotified, boundVars>>

-----------------------------------------------------------------------------
(* Drop for SyncAddressReceiver: close, wake everybody, drain *)

Close ==
    /\ rpc = "close"
    /\ isOpen' = FALSE
    /\ rpc' = "dropwake"
    /\ UNCHANGED <<buffer, numMessages, messageQueue, parkedQueue, numSenders, recvVars,
                   taskVars, spc, op, curr, woken, rxHandle, rxNotified, boundVars>>

\* mutant: one handle is popped instead of all
MutantDropWake == UnparkPop("dropwake", "wake_drop", "drain") \/ NotifyHandle("wake_drop", "drain")

DropWake == UnparkPop("dropwake", "wake_drop", "drain") \/ NotifyHandle("wake_drop", "dropwake")

\* One pop of the drain loop.
Drain ==
    /\ rpc = "drain"
    /\ \/ /\ messageQueue # <<>>
          /\ messageQueue' = Tail(messageQueue)
          /\ UNCHANGED rpc
       \/ /\ messageQueue = <<>>
          /\ rpc' = "dropped"
          /\ UNCHANGED messageQueue
    /\ UNCHANGED <<buffer, stateVars, parkedQueue, numSenders, recvVars, taskVars,
                   spc, op, curr, woken, rxHandle, rxNotified, boundVars>>

-----------------------------------------------------------------------------

SenderStep(s) ==
    \/ Load(s) \/ Check(s) \/ Cas(s) \/ Push(s) \/ Signal(s) \/ Notify(s)
    \/ Park(s) \/ ParkPush(s) \/ ParkCheck(s)

ReceiverStep ==
    \/ Poll \/ Pop \/ TryPark \/ UnparkOne \/ Dec \/ Connected \/ CapWake
    \/ Close \/ DropWake \/ Drain

Next ==
    \/ \E s \in Sender :
        \/ \E k \in Ops : Call(s, k)
        \/ Retry(s)
        \/ SenderStep(s)
        \/ \E t \in Sender : Clone(s, t)
        \/ DropSender(s)
        \/ NewSender(s)
    \/ ReceiverStep
    \/ Wake \/ SpuriousWake \/ Stop
    \/ \E c \in Caps : SetCapacity(c)

Spec == Init /\ [][Next]_vars

\* Threads inside a call are scheduled, the executor polls a notified task,
\* and a running context polls its mailbox until NotReady.  Nothing makes a
\* client call, clone or drop, or the executor poll without a notification.
Fairness ==
    /\ \A s \in Sender : WF_vars(SenderStep(s)) /\ WF_vars(woken[s] /\ Retry(s))
    /\ WF_vars(ReceiverStep)
    /\ WF_vars(Wake)

FairSpec == Spec /\ Fairness

-----------------------------------------------------------------------------
(* Properties that hold *)

InCall == {"load", "check", "cas", "push", "park", "parkpush", "parkcheck"}
SenderPcs == InCall \union {"none", "idle", "signal", "notify", "blocked", "gone"}
Waking == {"wake_one", "wake_cap", "wake_drop"}
Popped == {"unpark", "wake_one", "dec"}
Dropping == {"dropwake", "wake_drop", "drain", "dropped"}
ReceiverPcs == Waking \union Popped \union Dropping \union
    {"run", "pop", "trypark", "connected", "asleep", "capwake", "close"}

\* Type correctness; the message counter never goes below zero.
TypeOK ==
    /\ buffer \in Nat
    /\ isOpen \in BOOLEAN
    /\ numMessages \in Nat
    /\ messageQueue \in Seq(AllOps)
    /\ parkedQueue \in Seq(Sender)
    /\ numSenders \in Nat
    /\ recvUnparked \in BOOLEAN /\ recvTask \in BOOLEAN
    /\ sParked \in [Sender -> BOOLEAN]
    /\ sTask \in [Sender -> BOOLEAN]
    /\ maybeParked \in [Sender -> BOOLEAN]
    /\ spc \in [Sender -> SenderPcs]
    /\ op \in [Sender -> AllOps \union {"none", "drop"}]
    /\ curr \in [Sender -> [open : BOOLEAN, num : Nat]]
    /\ woken \in [Sender -> BOOLEAN]
    /\ rpc \in ReceiverPcs
    /\ rxHandle \in Sender \union {NoHandle}
    /\ rxNotified \in BOOLEAN
    /\ calls \in [Sender -> Nat]
    /\ sets \in Nat

\* While the channel is open its counter is exact: the messages in the queue,
\* those counted and not yet pushed, and the one popped and not yet
\* uncounted.  dec_num_messages therefore never underflows into the flag.
Pushing == {s \in Sender : spc[s] = "push"}
CountExact ==
    isOpen => numMessages = Len(messageQueue) + Cardinality(Pushing)
                            + (IF rpc \in Popped THEN 1 ELSE 0)

\* num_senders counts the handles that exist and are not being dropped.
Handles == {s \in Sender : spc[s] \notin {"none", "gone"} /\ op[s] # "drop"}
SendersExact == numSenders = Cardinality(Handles)

\* The handle of a sender is at most once with the receiver (in parked_queue
\* or popped from it), and exactly while its is_parked flag is set.
HandleOnce ==
    /\ \A i, j \in 1..Len(parkedQueue) : parkedQueue[i] = parkedQueue[j] => i = j
    /\ \A i \in 1..Len(parkedQueue) :
        sParked[parkedQueue[i]] /\ parkedQueue[i] # rxHandle /\ spc[parkedQueue[i]] # "parkpush"
    /\ rxHandle # NoHandle => sParked[rxHandle] /\ spc[rxHandle] # "parkpush"
    /\ \A s \in Sender : sParked[s] =>
        \/ spc[s] = "parkpush"
        \/ rxHandle = s
        \/ \E i \in 1..Len(parkedQueue) : parkedQueue[i] = s

\* The receiver's task was told, or a sender is on its way to tell it.
WakePending ==
    \/ rxNotified
    \/ \E s \in Sender : spc[s] = "notify"
    \/ recvTask /\ ~recvUnparked /\ \E s \in Sender : spc[s] = "signal"

\* A receiver that is about to sleep or asleep does not miss a message.
NoLostMessageWakeup ==
    rpc \in {"connected", "asleep"} /\ messageQueue # <<>> => WakePending

\* A sleeping receiver does not miss that its last sender is gone.
NoLostDisconnect == rpc = "asleep" /\ numSenders = 0 => WakePending

\* Once closed, a sender's flag may be stale; until then maybe_parked tells
\* whether the handle is parked, and a parked sender does not park again.
ParkOK ==
    \A s \in Sender :
        /\ sParked[s] /\ ~maybeParked[s] /\ spc[s] \notin {"parkpush", "parkcheck"} => ~isOpen
        /\ sParked[s] /\ op[s] # "do" /\ spc[s] \in {"check", "cas"} => ~curr[s].open
        /\ op[s] # "do" /\ spc[s] \in {"load", "check", "cas", "park"} => ~maybeParked[s]
        /\ spc[s] = "park" => ~sParked[s]
        /\ spc[s] = "parkpush" => sParked[s]

\* The receiver's program counter, the open flag and the popped handle agree.
RxOK ==
    /\ isOpen <=> rpc \notin Dropping
    /\ rxHandle # NoHandle <=> rpc \in Waking

\* What call a sender can be in at each point.
OpOK ==
    \A s \in Sender :
        /\ op[s] = "drop" => spc[s] \in {"signal", "notify", "gone"}
        /\ spc[s] \in InCall => op[s] \in AllOps
        /\ spc[s] \in {"park", "parkpush", "parkcheck"} => op[s] # "do"
        /\ spc[s] = "blocked" => op[s] = "send"
        /\ spc[s] = "none" => op[s] = "none"
        /\ spc[s] = "cas" => curr[s].open

\* A parked receiver is registered for the next signal, or has been signalled
\* and its notification is on its way; between the empty pop and try_park a
\* new message leaves the unparked flag or its signal behind.
WakeOK ==
    /\ rpc \in {"connected", "asleep"} =>
        \/ recvTask /\ ~recvUnparked
        \/ recvUnparked /\ (rxNotified \/ \E s \in Sender : spc[s] = "notify")
    /\ rpc = "trypark" /\ messageQueue # <<>> =>
        recvUnparked \/ \E s \in Sender : spc[s] = "signal"

\* The inductive invariant of the channel.
ChannelInv ==
    /\ RxOK /\ OpOK /\ ParkOK /\ WakeOK /\ HandleOnce /\ CountExact /\ SendersExact
    /\ NoLostMessageWakeup /\ NoLostDisconnect

\* Back pressure: whatever the clients and the compare_exchange loops
\* interleave, the messages that respect the capacity never exceed the
\* largest capacity the channel was given; only do_send goes beyond it.
MaxCap == CHOOSE c \in Caps \union {InitCap} : \A d \in Caps \union {InitCap} : d <= c
Forced ==
    Cardinality({i \in 1..Len(messageQueue) : messageQueue[i] = "do"})
    + Cardinality({s \in Sender : spc[s] = "push" /\ op[s] = "do"})
BackPressure ==
    0 \notin Caps \union {InitCap} /\ isOpen /\ rpc \notin Popped =>
        numMessages <= MaxCap + Forced

\* Once the receiver has closed the channel it stays closed and no sender, not
\* even one that loaded the state before, counts another message in.
ClosedForGood == [][~isOpen => ~isOpen' /\ numMessages' <= numMessages]_vars

\* Every message queued before the receiver is gone leaves the queue, handled
\* or drained: also one whose sender was between its compare_exchange and its
\* push when the channel was closed, as long as the drain has not ended.
MessagesDrained == (messageQueue # <<>> /\ rpc # "dropped") ~> (messageQueue = <<>>)

\* A request whose handle reached parked_queue before the drop of the receiver
\* has emptied it is woken and sees the channel closed; the exception is one
\* that was polled again meanwhile, which clears the task of its handle.
CloseWakesParked ==
    \A s \in Sender :
        (rpc = "dropwake" /\ spc[s] = "blocked" /\ sTask[s] /\ \E i \in DOMAIN parkedQueue : parkedQueue[i] = s)
            ~> (spc[s] # "blocked" \/ woken[s] \/ (sParked[s] /\ ~sTask[s]))

\* An actor whose last address is dropped stops and closes its mailbox, unless
\* it hands out a new address.
DisconnectStops == (numSenders = 0) ~> (numSenders > 0 \/ rpc = "dropped")

-----------------------------------------------------------------------------
(* What the comments of sync_channel.rs claim and the code does not keep *)

\* Nobody is inside a call and the receiver's task has nothing to do.
AtRest ==
    /\ rpc \in {"asleep", "dropped"}
    /\ rpc = "asleep" => ~rxNotified
    /\ \A s \in Sender : spc[s] \in {"none", "idle", "blocked", "gone"}

\* "an unpark request is pending, so there will be an unpark sometime in the
\* future" (lines 418-419): when everything has come to rest on an open,
\* empty channel, no request is left waiting for room.
UnparkComes ==
    AtRest /\ rpc = "asleep" => \A s \in Sender : spc[s] = "blocked" => woken[s]

\* "make sure that the correct task will be notified" (lines 419-420): the
\* handle the receiver will unpark knows the task that waits.
UnparkHasTask ==
    \A s \in Sender : spc[s] = "blocked" /\ sParked[s] /\ isOpen => sTask[s]

\* "Wake up any threads waiting as they'll see that we've closed the channel"
\* (lines 716-717): no request waits on a dropped receiver.
CloseWakes ==
    AtRest /\ rpc = "dropped" => \A s \in Sender : spc[s] = "blocked" => woken[s]

\* "Drain the channel of all pending messages" (line 728).
CloseDrains == AtRest /\ rpc = "dropped" => messageQueue = <<>>

\* "each sender gets a guaranteed slot in the channel capacity, and on top of
\* that there are `buffer` ... slots" (lines 151-154): a sender is told to
\* park only when buffer + num-senders messages are in the channel.
GuaranteedSlot ==
    [][\A s \in Sender : spc[s] = "check" /\ spc'[s] = "park" =>
            curr[s].num >= buffer + numSenders]_vars

\* "the next iteration is guaranteed to get the message" (lines 676-678): after
\* NotEmpty the queue is not empty.
NotEmptyIsNotEmpty ==
    [][rpc = "trypark" /\ rpc' = "pop" => messageQueue # <<>>]_vars

=============================================================================
