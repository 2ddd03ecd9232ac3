---------------------------- MODULE ActorContext ----------------------------
(***************************************************************************)
(* The execution context of an asynchronous actor: ContextImpl::poll of     *)
(* src/src/contextimpl.rs with the Mailbox::poll it calls, and the restart  *)
(* loop of a Supervisor around it.                                          *)
(*                                                                          *)
(* The context is a task of its arbiter's event loop.  One poll calls the   *)
(* actor back many times, and every callback may call the context again:    *)
(* spawn and wait for futures, cancel them, make addresses, stop.  A step   *)
(* is one such call, one callback return or one decision of the loop.       *)
(* Addresses of the Syn flavour live on other threads, so messages arrive   *)
(* and addresses disappear between any two steps; Unsync ones only act      *)
(* while the event loop runs something else or inside a callback.           *)
(*                                                                          *)
(* The two mailbox channels appear by what their receivers do (SyncChannel  *)
(* and unsync_channel.rs): a FIFO of messages, a count of live addresses,   *)
(* and the receiver's task, registered when it is polled and finds nothing. *)
(***************************************************************************)
EXTENDS Integers, Sequences, FiniteSets

CONSTANTS
    MayCall,      \* per callback, the context methods the actor may call there
    Supervised,   \* is the context owned by a Supervisor?
    MaxHandle,    \* bound: futures spawned by one incarnation of the actor
    MaxFut,       \* bound: futures alive at a time
    MaxAddr,      \* bound: live addresses
    MaxSend       \* bound: messages sent

Callbacks == {"create", "started", "waitfut", "handler", "item",
              "askDrained", "askStop", "stopped", "restarting"}

Methods == {"spawn", "wait", "cancel", "stop", "terminate", "address", "capacity"}

ASSUME MayCallAssumption == MayCall \in [Callbacks -> SUBSET Methods]
ASSUME SupervisedAssumption == Supervised \in BOOLEAN
ASSUME BoundAssumption == /\ MaxHandle \in Nat /\ MaxFut \in Nat \ {0}
                          /\ MaxAddr \in Nat \ {0} /\ MaxSend \in Nat

Fut == 1..MaxFut
Channel == {"unsync", "sync"}
Flag == {"STARTED", "RUNNING", "STOPPING", "STOPPED", "MODIFIED"}

VARIABLES
    pc,         \* where poll() is: a callback, or a place of the loop
    flags,      \* ContextImpl::flags
    wait,       \* ContextImpl::wait, futures by name
    items,      \* ContextImpl::items, [h: SpawnHandle, f: future]
    handle,     \* ContextImpl::handle
    idx,        \* poll(): index of the item loop, from 1
    cur,        \* the future being polled
    chan,       \* Mailbox::poll: the channel it drains
    notReady,   \* Mailbox::poll: not_ready
    hasSync,    \* Mailbox::sync_msgs is Some
    queue,      \* messages queued, per channel
    addrs,      \* live addresses, per channel
    parked,     \* the receiver registered the context's task, per channel
    notified,   \* the context's task is notified and not polled since
    sent,       \* messages sent
    owed,       \* futures no event will wake: not polled since they were added,
                \* or returned early because the context was waiting
    completed,  \* futures that returned Ready
    restored    \* the last answer of stopping() to a drained context was Continue

ctxVars  == <<flags, wait, items, handle>>
loopVars == <<idx, cur, chan, notReady>>
mailVars == <<hasSync, queue, addrs, parked, sent>>
histVars == <<owed, completed, restored>>
vars == <<pc, ctxVars, loopVars, mailVars, notified, histVars>>

-----------------------------------------------------------------------------
ItemFuts == {items[i].f : i \in DOMAIN items}
WaitFuts == {wait[i] : i \in DOMAIN wait}

\* A free name for a new future; the running one keeps its name.
Free == Fut \ (ItemFuts \cup WaitFuts \cup {cur})

Stopping == flags \cap {"STOPPING", "STOPPED"} # {}
Waiting == wait # <<>> \/ Stopping
Connected == addrs["unsync"] > 0 \/ (hasSync /\ addrs["sync"] > 0)
Alive == ~Stopping /\ (Connected \/ items # <<>> \/ wait # <<>>)

\* mutant: truncates at the removed index
MutantSwapRemove(s, i) == SubSeq(s, 1, i - 1)

\* SmallVec::swap_remove
SwapRemove(s, i) == SubSeq([s EXCEPT ![i] = s[Len(s)]], 1, Len(s) - 1)

\* mutant: the item that waits keeps its place
MutantSwapLast(s, i) == s

\* SmallVec::swap with the last element
SwapLast(s, i) == [s EXCEPT ![i] = s[Len(s)], ![Len(s)] = s[i]]

Calls(m) == pc \in Callbacks /\ m \in MayCall[pc]

-----------------------------------------------------------------------------
(* Actor::create, Supervisor::start: the context gets its first address,    *)
(* the actor is built with the context at hand.                             *)
Init ==
    /\ pc = "create" /\ flags = {"RUNNING", "MODIFIED"}
    /\ wait = <<>> /\ items = <<>> /\ handle = 0
    /\ idx = 1 /\ cur = 0 /\ chan = "unsync" /\ notReady = TRUE
    /\ \E c \in Channel : /\ addrs = [d \in Channel |-> IF d = c THEN 1 ELSE 0]
                          /\ hasSync = (c = "sync")
    /\ queue = [c \in Channel |-> 0] /\ parked = [c \in Channel |-> FALSE]
    /\ notified = TRUE /\ sent = 0
    /\ owed = {} /\ completed = {} /\ restored = FALSE

-----------------------------------------------------------------------------
(* The methods of the context, called from a callback. *)

Spawn ==
    /\ Calls("spawn") /\ handle < MaxHandle
    /\ \E f \in Free : /\ \A g \in Free : f <= g
                       /\ items' = Append(items, [h |-> handle + 1, f |-> f])
                       /\ owed' = owed \cup {f}
                       /\ completed' = completed \ {f}
    /\ handle' = handle + 1
    /\ flags' = flags \cup {"MODIFIED"}
    /\ UNCHANGED <<pc, wait, loopVars, mailVars, notified, restored>>

Wait ==
    /\ Calls("wait")
    /\ \E f \in Free : /\ \A g \in Free : f <= g
                       /\ wait' = Append(wait, f)
                       /\ owed' = owed \cup {f}
                       /\ completed' = completed \ {f}
    /\ flags' = flags \cup {"MODIFIED"}
    /\ UNCHANGED <<pc, items, handle, loopVars, mailVars, notified, restored>>

CancelFuture ==
    /\ Calls("cancel")
    /\ \E i \in DOMAIN items : /\ items' = SwapRemove(items, i)
                               /\ owed' = owed \ {items[i].f}
    /\ flags' = flags \cup {"MODIFIED"}
    /\ UNCHANGED <<pc, wait, handle, loopVars, mailVars, notified, completed, restored>>

\* mutant: stops a context that is not running
MutantStop ==
    /\ Calls("stop")
    /\ flags' = (flags \ {"RUNNING", "MODIFIED"}) \cup {"STOPPING"}
    /\ UNCHANGED <<pc, wait, items, handle, loopVars, mailVars, notified, histVars>>

Stop ==
    /\ Calls("stop") /\ "RUNNING" \in flags
    /\ flags' = (flags \ {"RUNNING", "MODIFIED"}) \cup {"STOPPING"}
    /\ UNCHANGED <<pc, wait, items, handle, loopVars, mailVars, notified, histVars>>

Terminate ==
    /\ Calls("terminate")
    /\ flags' = {"STOPPED"}
    /\ UNCHANGED <<pc, wait, items, handle, loopVars, mailVars, notified, histVars>>

SetMailboxCapacity ==
    /\ Calls("capacity")
    /\ flags' = flags \cup {"MODIFIED"}
    /\ UNCHANGED <<pc, wait, items, handle, loopVars, mailVars, notified, histVars>>

\* mutant: does not mark the context as modified
MutantAddress(c) ==
    /\ Calls("address") /\ addrs["unsync"] + addrs["sync"] < MaxAddr
    /\ addrs' = [addrs EXCEPT ![c] = @ + 1]
    /\ hasSync' = (hasSync \/ c = "sync")
    /\ UNCHANGED <<pc, ctxVars, loopVars, queue, parked, sent, notified, histVars>>

(* unsync_address, sync_address; the channel of the latter is made on first use *)
Address(c) ==
    /\ Calls("address") /\ addrs["unsync"] + addrs["sync"] < MaxAddr
    /\ addrs' = [addrs EXCEPT ![c] = @ + 1]
    /\ hasSync' = (hasSync \/ c = "sync")
    /\ flags' = flags \cup {"MODIFIED"}
    /\ UNCHANGED <<pc, wait, items, handle, loopVars, queue, parked, sent, notified, histVars>>

-----------------------------------------------------------------------------
(* Holders of addresses. *)

\* When a holder of an address of this channel may run.
Holder(c) == /\ addrs[c] > 0
             /\ pc \notin {"gone", "panicked"}
             /\ c = "unsync" => pc \in Callbacks \cup {"idle"}

\* mutant: leaves the receiver's task asleep
MutantSend(c) ==
    /\ Holder(c) /\ sent < MaxSend
    /\ queue' = [queue EXCEPT ![c] = @ + 1]
    /\ sent' = sent + 1
    /\ UNCHANGED <<pc, ctxVars, loopVars, hasSync, addrs, parked, notified, histVars>>

Send(c) ==
    /\ Holder(c) /\ sent < MaxSend
    /\ queue' = [queue EXCEPT ![c] = @ + 1]
    /\ sent' = sent + 1
    /\ parked' = [parked EXCEPT ![c] = FALSE]
    /\ notified' = (notified \/ parked[c])
    /\ UNCHANGED <<pc, ctxVars, loopVars, hasSync, addrs, histVars>>

CloneAddress(c) ==
    /\ Holder(c) /\ addrs["unsync"] + addrs["sync"] < MaxAddr
    /\ addrs' = [addrs EXCEPT ![c] = @ + 1]
    /\ UNCHANGED <<pc, ctxVars, loopVars, hasSync, queue, parked, sent, notified, histVars>>

DropAddress(c) ==
    /\ Holder(c)
    /\ addrs' = [addrs EXCEPT ![c] = @ - 1]
    /\ IF addrs[c] = 1
       THEN /\ parked' = [parked EXCEPT ![c] = FALSE]
            /\ notified' = (notified \/ parked[c])
       ELSE UNCHANGED <<parked, notified>>
    /\ UNCHANGED <<pc, ctxVars, loopVars, hasSync, queue, sent, histVars>>

(* What a polled, pending future waits for happens. *)
Event ==
    /\ ~notified /\ \E f \in (ItemFuts \cup WaitFuts) \ owed : TRUE
    /\ pc \notin {"gone", "panicked"}
    /\ notified' = TRUE
    /\ UNCHANGED <<pc, ctxVars, loopVars, mailVars, histVars>>

-----------------------------------------------------------------------------
(* ContextImpl::poll *)

(* set_actor and run: the event loop polls the new task. *)
Created ==
    /\ pc = "create" /\ pc' = "idle"
    /\ flags' = flags \cup {"MODIFIED"}
    /\ UNCHANGED <<wait, items, handle, loopVars, mailVars, notified, histVars>>

\* The entry of poll(), which calls started() once.
Enter ==
    IF "STARTED" \in flags
    THEN pc' = "outer" /\ UNCHANGED flags
    ELSE pc' = "started" /\ flags' = flags \cup {"STARTED"}

Poll ==
    /\ pc = "idle" /\ notified
    /\ Enter
    /\ notified' = FALSE /\ restored' = FALSE
    /\ UNCHANGED <<wait, items, handle, loopVars, mailVars, owed, completed>>

Started ==
    /\ pc = "started" /\ pc' = "outer"
    /\ UNCHANGED <<ctxVars, loopVars, mailVars, notified, histVars>>

Outer ==
    /\ pc = "outer" /\ pc' = "wait"
    /\ flags' = flags \ {"MODIFIED"}
    /\ UNCHANGED <<wait, items, handle, loopVars, mailVars, notified, histVars>>

\* wait.last_mut() is polled, or the loop over wait futures ends.
PollWait ==
    /\ pc = "wait"
    /\ IF wait # <<>> /\ ~Stopping
       THEN /\ pc' = "waitfut" /\ cur' = wait[Len(wait)]
            /\ owed' = owed \ {wait[Len(wait)]}
            /\ UNCHANGED <<chan, notReady>>
       ELSE /\ pc' = "mailbox" /\ chan' = "unsync" /\ notReady' = TRUE
            /\ UNCHANGED <<cur, owed>>
    /\ UNCHANGED <<ctxVars, idx, mailVars, notified, completed, restored>>

\* ActorWaitItem::poll said Ready: wait.pop(), whatever is last by now.
PopWait ==
    /\ wait' = SubSeq(wait, 1, Len(wait) - 1)
    /\ owed' = owed \ {wait[Len(wait)]}
    /\ pc' = "wait" /\ cur' = 0

WaitReady ==
    /\ pc = "waitfut" /\ PopWait
    /\ completed' = completed \cup {cur}
    /\ UNCHANGED <<flags, items, handle, idx, chan, notReady, mailVars, notified, restored>>

\* NotReady is turned into Ready when ctx.state() is not alive.
WaitPending ==
    /\ pc = "waitfut"
    /\ IF "RUNNING" \in flags \/ ~Stopping
       THEN pc' = "idle" /\ cur' = 0 /\ UNCHANGED <<wait, owed>>
       ELSE PopWait
    /\ UNCHANGED <<flags, items, handle, idx, chan, notReady, mailVars, notified, completed, restored>>

\* Mailbox::poll is over.
LeaveMailbox ==
    IF wait # <<>> /\ ~Stopping THEN pc' = "outer" /\ UNCHANGED idx
                                ELSE pc' = "items" /\ idx' = 1

(* One turn of the inner loops of Mailbox::poll: stop if the context waits,  *)
(* handle a message, or register the task and go to the next channel.        *)
Mailbox ==
    /\ pc = "mailbox"
    /\ \/ /\ Waiting /\ LeaveMailbox
          /\ UNCHANGED <<chan, notReady, queue, parked>>
       \/ /\ ~Waiting /\ queue[chan] > 0
          /\ queue' = [queue EXCEPT ![chan] = @ - 1]
          /\ notReady' = FALSE /\ pc' = "handler"
          /\ UNCHANGED <<idx, chan, parked>>
       \/ /\ ~Waiting /\ queue[chan] = 0
          /\ parked' = [parked EXCEPT ![chan] = @ \/ chan = "sync" \/ addrs[chan] > 0]
          /\ IF chan = "unsync" /\ hasSync
             THEN chan' = "sync" /\ UNCHANGED <<pc, idx, notReady>>
             ELSE IF notReady
             THEN LeaveMailbox /\ UNCHANGED <<chan, notReady>>
             ELSE chan' = "unsync" /\ notReady' = TRUE /\ UNCHANGED <<pc, idx>>
          /\ UNCHANGED queue
    /\ UNCHANGED <<ctxVars, cur, hasSync, addrs, sent, notified, histVars>>

Handled ==
    /\ pc = "handler" /\ pc' = "mailbox"
    /\ UNCHANGED <<ctxVars, loopVars, mailVars, notified, histVars>>

PollItem ==
    /\ pc = "items"
    /\ IF idx <= Len(items) /\ ~Stopping
       THEN /\ pc' = "item" /\ cur' = items[idx].f
            /\ owed' = owed \ {items[idx].f}
       ELSE pc' = "check" /\ UNCHANGED <<cur, owed>>
    /\ UNCHANGED <<ctxVars, idx, chan, notReady, mailVars, notified, completed, restored>>

\* mutant: goes on with the next item although this one scheduled a wait
MutantItemPending ==
    /\ pc = "item" /\ cur' = 0
    /\ pc' = "items" /\ idx' = idx + 1
    /\ UNCHANGED <<flags, wait, items, handle, chan, notReady, mailVars, notified, histVars>>

\* A future may also return NotReady because it saw ctx.waiting(): no event
\* will wake it then.
ItemPending ==
    /\ pc = "item" /\ cur' = 0
    /\ IF wait # <<>> /\ ~Stopping
       THEN IF idx \in DOMAIN items
            THEN items' = SwapLast(items, idx) /\ pc' = "outer" /\ UNCHANGED idx
            ELSE pc' = "panicked" /\ UNCHANGED <<items, idx>>
       ELSE pc' = "items" /\ idx' = idx + 1 /\ UNCHANGED items
    /\ \/ UNCHANGED owed
       \/ Waiting /\ cur \in ItemFuts /\ owed' = owed \cup {cur}
    /\ UNCHANGED <<flags, wait, handle, chan, notReady, mailVars, notified, completed, restored>>

\* mutant: keeps the completed item
MutantItemReady ==
    /\ pc = "item" /\ cur' = 0
    /\ completed' = completed \cup {cur}
    /\ idx' = idx + 1
    /\ pc' = IF wait # <<>> /\ ~Stopping THEN "outer" ELSE "items"
    /\ UNCHANGED <<flags, wait, items, handle, chan, notReady, mailVars, notified, owed, restored>>

ItemReady ==
    /\ pc = "item" /\ cur' = 0
    /\ completed' = completed \cup {cur}
    /\ IF idx \in DOMAIN items
       THEN /\ items' = SwapRemove(items, idx)
            /\ owed' = owed \ {items[idx].f}
            /\ pc' = IF wait # <<>> /\ ~Stopping THEN "outer" ELSE "items"
       ELSE pc' = "panicked" /\ UNCHANGED <<items, owed>>
    /\ UNCHANGED <<flags, wait, handle, idx, chan, notReady, mailVars, notified, restored>>

\* mutant: forgets the stop request
MutantCheck ==
    /\ pc = "check"
    /\ pc' = IF "MODIFIED" \in flags /\ "STOPPING" \notin flags THEN "outer"
             ELSE IF "RUNNING" \in flags THEN IF Alive THEN "idle" ELSE "askDrained"
             ELSE IF "STOPPED" \in flags THEN "stopped" ELSE "idle"
    /\ UNCHANGED <<ctxVars, loopVars, mailVars, notified, histVars>>

(* The end of the loop body: go round again, ask the actor, end, or sleep. *)
Check ==
    /\ pc = "check"
    /\ pc' = IF "MODIFIED" \in flags /\ "STOPPING" \notin flags THEN "outer"
             ELSE IF "RUNNING" \in flags THEN IF Alive THEN "idle" ELSE "askDrained"
             ELSE IF "STOPPING" \in flags THEN "askStop"
             ELSE IF "STOPPED" \in flags THEN "stopped" ELSE "idle"
    /\ UNCHANGED <<ctxVars, loopVars, mailVars, notified, histVars>>

\* Actor::stopping returned Running::Stop.
AgreeStop ==
    /\ pc \in {"askDrained", "askStop"} /\ pc' = "stopped"
    /\ flags' = {"STOPPED"}
    /\ UNCHANGED <<wait, items, handle, loopVars, mailVars, notified, histVars>>

\* Actor::stopping returned Running::Continue.
Continue ==
    /\ \/ /\ pc = "askDrained" /\ pc' = "idle"
          /\ restored' = TRUE /\ UNCHANGED flags
       \/ /\ pc = "askStop" /\ pc' = "outer"
          /\ flags' = (flags \ {"STOPPING"}) \cup {"RUNNING"}
          /\ UNCHANGED restored
    /\ UNCHANGED <<wait, items, handle, loopVars, mailVars, notified, owed, completed>>

(* poll() returns Ready: a Supervisor restarts a context that still has      *)
(* addresses, keeping the mailbox; everything else is dropped.               *)
Stopped ==
    /\ pc = "stopped"
    /\ wait' = <<>> /\ items' = <<>> /\ owed' = {}
    /\ IF Supervised /\ Connected
       THEN pc' = "restarting" /\ flags' = {"RUNNING"} /\ handle' = 0
       ELSE pc' = "gone" /\ UNCHANGED <<flags, handle>>
    /\ UNCHANGED <<loopVars, mailVars, notified, completed, restored>>

Restarted ==
    /\ pc = "restarting"
    /\ Enter
    /\ UNCHANGED <<wait, items, handle, loopVars, mailVars, notified, histVars>>

-----------------------------------------------------------------------------
Call == Spawn \/ Wait \/ CancelFuture \/ Stop \/ Terminate \/ SetMailboxCapacity
            \/ \E c \in Channel : Address(c)

Environment == Event \/ \E c \in Channel : Send(c) \/ CloneAddress(c) \/ DropAddress(c)

Loop == Created \/ Poll \/ Started \/ Outer \/ PollWait \/ WaitReady \/ WaitPending
            \/ Mailbox \/ Handled \/ PollItem \/ ItemPending \/ ItemReady
            \/ Check \/ AgreeStop \/ Continue \/ Stopped \/ Restarted

Next == Call \/ Environment \/ Loop

Spec == Init /\ [][Next]_vars

(* The event loop polls notified tasks and poll() itself never blocks; a     *)
(* callback returns; what a pending future waits for happens.                *)
Fairness == WF_vars(Loop) /\ WF_vars(Event)

(* And a future given to ctx.wait() completes if it is polled again and again. *)
FairSpec == Spec /\ Fairness /\ SF_vars(WaitReady)

-----------------------------------------------------------------------------
(* Properties. *)

(* Types of the context's state. *)
TypeOK ==
    /\ pc \in Callbacks \cup {"idle", "outer", "wait", "mailbox", "items", "check",
                              "gone", "panicked"}
    /\ flags \subseteq Flag
    /\ wait \in Seq(Fut) /\ items \in Seq([h : 1..MaxHandle, f : Fut])
    /\ handle \in 0..MaxHandle
    /\ idx \in Nat \ {0} /\ cur \in Fut \cup {0}
    /\ chan \in Channel /\ notReady \in BOOLEAN /\ hasSync \in BOOLEAN
    /\ queue \in [Channel -> 0..MaxSend] /\ addrs \in [Channel -> 0..MaxAddr]
    /\ parked \in [Channel -> BOOLEAN] /\ notified \in BOOLEAN /\ sent \in 0..MaxSend
    /\ owed \subseteq Fut /\ completed \subseteq Fut /\ restored \in BOOLEAN

(* An actor that sleeps (poll returned NotReady and nothing has notified its *)
(* task) missed nothing: it waits for a wait future that was polled, or it   *)
(* has no message queued, is registered with every channel that has          *)
(* addresses, and every spawned future was polled since it last asked to be. *)
(* Nor does it sleep without addresses, futures and streams: it is asked to  *)
(* stop, unless it answered Running::Continue.                               *)
SleepsSafely ==
    pc = "idle" /\ ~notified =>
        /\ IF wait # <<>> THEN wait[Len(wait)] \notin owed
           ELSE /\ owed = {}
                /\ \A c \in Channel : queue[c] = 0 /\ (addrs[c] > 0 => parked[c])
        /\ ~restored => Alive

(* A future that returned Ready is never polled again (the contract of        *)
(* futures: ActorMessageItem and ActorDelayedMessageItem panic).              *)
CompletedNotPolled ==
    pc \in {"waitfut", "item"} => cur \notin completed

(* While a wait future is pending the actor gets no message and no other      *)
(* future of it runs.                                                         *)
PausedWhileWaiting ==
    [][pc' # pc /\ pc' \in {"handler", "item"} => wait = <<>>]_vars

(* A spawned future leaves the context only because it is done, it was        *)
(* cancelled, or the actor ended.                                             *)
KeptUntilDone ==
    [][\A f \in ItemFuts : f \in ItemFuts' \/ f \in completed' \/ CancelFuture \/ Stopped]_vars

(* The context keeps the promises of the actor's lifecycle.                   *)
Phase == CASE pc \in {"create", "restarting"}           -> "new"
           [] pc = "idle" /\ "STARTED" \notin flags     -> "new"
           [] pc \in {"started", "waitfut", "handler", "item"} -> "working"
           [] pc \in {"askDrained", "askStop"}          -> "stopping"
           [] pc = "stopped"                            -> "stopped"
           [] pc = "gone"                               -> "gone"
           [] OTHER                                     -> "running"
Will == IF "STOPPED" \in flags THEN "end" ELSE IF "STOPPING" \in flags THEN "stop" ELSE "run"
L == INSTANCE ActorLifecycle WITH phase <- Phase, will <- Will
Lifecycle == L!Spec

(* A queued message is handled, unless the actor ends.                        *)
MessagesHandled ==
    \A c \in Channel : queue[c] > 0 ~> queue[c] = 0 \/ pc = "gone"

\* A spawned future, by its handle, that no event will wake; and one that is
\* polled while the context has to wait.
Owed(h) == \E i \in DOMAIN items : items[i].h = h /\ items[i].f \in owed
WaitsIn(h) == pc = "item" /\ wait # <<>> /\ idx \in DOMAIN items /\ items[idx].h = h

(* "move current item to end of poll queue, otherwise it is possible that     *)
(* same item generate wait future and prevents polling of other items": no    *)
(* single item g keeps a spawned future h from being polled for ever by       *)
(* waiting.  It takes messages or requests to stop without end, or another    *)
(* item that keeps waiting too.                                               *)
ItemsServed ==
    \A h \in 1..MaxHandle : \A g \in 1..MaxHandle \ {h} :
        \/ Owed(h) ~> ~Owed(h)
        \/ []<>(pc = "handler" \/ "STOPPING" \in flags \/ \E other \in 1..MaxHandle \ {g, h} : WaitsIn(other))

(* The same comment, read as a promise to every spawned future.               *)
EveryItemServed == \A h \in 1..MaxHandle : Owed(h) ~> ~Owed(h)

(* A stop request is answered: the actor ends, or says Running::Continue.     *)
StopAnswered == "STOPPING" \in flags ~> "STOPPING" \notin flags

(* "Mark context as modified, this cause extra poll loop over all items":     *)
(* the context does not sleep on a future or an address that was added.       *)
ModifiedIsPolled == pc = "idle" /\ ~notified /\ wait = <<>> => owed = {}
=============================================================================
