# Verification of actix

TLA+ models of the actor runtime in `src/src/`, the TLC runs that check them on
small instances, and TLAPS proofs, for every value of the constants, of what
matters most: the lock-free queue and channel, the context and its lifecycle, the
same-thread channel with its requests, the registry and the signals, the arbiters,
the sync actors, the writers, the connector and the combinators. Every safety
property that a passing run checks is also proved.

1. [The system](#1-the-system)
2. [Modules and their code](#2-modules-and-their-code)
3. [Runs: what is checked and what it shows](#3-runs)
4. [Bounds](#4-bounds)
5. [Fairness](#5-fairness)
6. [What is proved](#6-what-is-proved)
7. [Statements the code does not keep](#7-statements-the-code-does-not-keep)
8. [What is not modelled](#8-what-is-not-modelled)
9. [Plan](#9-plan)

## 1. The system

An *actor* lives on one thread, inside a *context* that is a future of that
thread's event loop (an *arbiter*). It gets messages from a *mailbox* with two
channels: one for senders on the same thread (`Unsync`), one for senders on any
thread (`Syn`). A *supervisor* restarts an actor that stops while it has
addresses. The *system* is the arbiter of the main thread; it keeps the list of
the other arbiters and the registry of system-wide services. *Sync actors* run
on a pool of threads that share one queue.

| Component | State | Operations | Talks to | Hard part | What makes it correct |
|---|---|---|---|---|---|
| MPSC queue, `address/queue.rs` | linked nodes, `head` (atomic), `tail` (popper's) | `push` from any thread, `pop`, `drop` | both queues of the Syn channel | a pusher preempted between its swap and its link; addresses reused by the allocator | an atomic FIFO queue; no use after free; no leak |
| Syn channel, `address/sync_channel.rs` | packed word (open, count), message queue, queue of parked senders, counter of senders, the receiver's task, a task and a flag per sender | `send`, `try_send`, `do_send`, `clone`, `drop`; `poll`, `set_capacity`, `sender`, `drop` of the receiver | contexts, requests | every access is a separate atomic step of one of many threads; wake-ups race sleeps | exact counters, a receiver that never sleeps on a message or on its last sender, capacity respected |
| Unsync channel and requests, `address/unsync_channel.rs`, `message.rs`, `unsync.rs`, `envelope.rs` | buffer, capacity, blocked tasks, the receiver's task; per request what it holds, its timer, the reply | `do_send`, `try_send`, `send`, `poll` of request and receiver, `set_capacity`, drops | contexts, timers | retries after Full, timers against late answers, wake-ups that go to the wrong task | every sleeper is registered, a message is handled at most once, a delivered request ends |
| Context, mailbox, supervisor: `contextimpl.rs`, `context.rs`, `mailbox.rs`, `supervisor.rs` | flags, wait futures, items with handles, loop index | `poll`; `spawn`, `wait`, `cancel_future`, `stop`, `terminate`, `address`, `set_mailbox_capacity` from any callback; `restart` | actor callbacks, both channels | callbacks change what the loop iterates over; other threads send between the last look and the sleep | the lifecycle; no sleep on work; pause while waiting; futures kept until done and served |
| Combinators and stream items: `fut/*`, `stream.rs`, `contextitems.rs` | one small state each | `poll` | the context | state taken out during a poll and put back on every path; registration of the leaf that is not ready | the result of the composed closures; never polled after the end; never asleep unregistered |
| Registry, `registry.rs` | map from type to address behind a lock | `get` | system arbiter's mailbox | lock released between lookup and insertion | what a thread gets is an address of an instance that runs or will |
| Process signals, `actors/signal.rs` | per service its signal streams and subscribers; per handler its mailbox and request | `Subscribe`, `SignalType`, `Signal`; `started` of `DefaultSignalsHandler` | registry, system, requests over Syn addresses | the race of `get` starts several services; subscribers and services end at any time; a handler waits in `started` | a subscriber gets every signal of its service once and in order; nobody waits for ever; SIGINT, SIGTERM and SIGQUIT end the system |
| System and arbiters: `system.rs`, `arbiter.rs` | map of arbiters, exit code; per arbiter its loop and mailbox | `System::new`, `run`, `Arbiter::new`, `RegisterArbiter`, `UnregisterArbiter`, `StopArbiter`, `SystemExit` | each other by messages | registration travels while the system exits | the map describes the running loops; exit stops what is registered |
| Sync actors, `sync.rs` | mailbox, shared queue, per worker its context | `start`, `poll`, `run`, restarts | channels, threads | stop markers share the queue with messages; handlers panic | order, nothing stranded, threads end |
| Writers, `io.rs` | buffer, flags, error, drain task | `write`, `close`, `set_buffer_capacity` from any callback, `error` and `finished` included; `WriterFut::poll`, `WriterDrain::poll` | the context's loop, the transport, the actor's `error` and `finished` | nothing wakes the writer for what was written; `error` changes what the poll is working on | nothing forgotten that the writer could have seen; graceful close; back-pressure ends; polls return |
| Connector, `actors/resolver.rs` | lookup, addresses left, connection being made, timer | `Resolve`, `Connect`, `ConnectAddr` | context, combinators, external crates | one timer for all addresses, looked at before a connection that may be ready | addresses in order, the first that accepts, errors only when nothing is left, always an answer |
| Timers, traits: `utils.rs`, `actor.rs`, `handler.rs`, `msgs.rs` | none or one option | delegation | context | timer and closure taken once | the lifecycle promised in `actor.rs` is `ActorLifecycle` |

`PROJECT.json` lists the components with their files, the hazards at their
lines, and the source lines of every definition.

## 2. Modules and their code

| Module | Models | State and actions |
|---|---|---|
| `FifoQueue` | specification of `queue.rs` | an atomic queue; what `pop` may answer, `Inconsistent` included |
| `MpscQueue` | `address/queue.rs` | `head`, `tail`, `next`, `value` per address, `live` addresses, program counters. `PushAlloc`, `PushSwap`, `PushLink` are the three atomic parts of `push`; `PopData`, `PopNull`, `PopHead` those of `pop`; `DropQueue`, `DropNode`, `DropEnd` the loop of `drop`. Freed addresses can be allocated again at once |
| `SyncChannel` | `address/sync_channel.rs` | one step per atomic access or lock section: `Call`/`Retry`, load, compare-exchange, push, signal, park; `pop`, unpark, decrement, try_park; `SetCapacity`, `Stop` with its drain, `Clone`, `DropSender`, `NewSender`. The two inner queues are sequences: that the real queue implements them is what `MpscQueueProofs` proves |
| `ActorLifecycle` | what `actor.rs` promises | created, started, running, stopping, stopped, and when callbacks may run; restarts for supervised actors |
| `ActorContext` | `contextimpl.rs`, `mailbox.rs`, `supervisor.rs`, context methods of `context.rs`/`actor.rs` | the loop of `ContextImpl::poll` as program counter; every callback is a state in which any allowed context method may be called any number of times (`MayCall` says which); the two channels as queue, addresses and registered task |
| `UnsyncChannel` | `address/unsync_channel.rs`, `message.rs`, `unsync.rs`, `handler.rs`, the envelope | channel state and, per request, `Addr::send`, `Request::poll`, timeout, cancellation, answer now, later or never |
| `ServiceRegistry` | `registry.rs`, `Supervisor::start_in`, `Execute` | threads in `get`: lookup, start, insert as separate steps; instances queued, running, ended |
| `Signals` | `actors/signal.rs`, Syn requests, over `ServiceRegistry` | the instances of `ServiceRegistry` are `ProcessSignals`: `StartService`, `OpenStream` (a stream is made or fails), `HandleSubscribe`, `HandleSignal`, `EndService`; the threads are `DefaultSignalsHandler` actors: `Get`, `SendSubscribe`, `PollRequest`, `Handle`, `DropHandle`, `HandlerEnds`, `ArbiterEnds`; `Raise` and `Exit` are the process and the system. `home` and `owed` are history variables for the property |
| `ArbiterSystem` | `system.rs`, `arbiter.rs` | per arbiter boot, register, stop, end; the system's mailbox and map |
| `SyncArbiter` | `sync.rs` | the arbiter's future, the shared queue, workers with restarts and panics |
| `Writer` | `io.rs` in the loop of `contextimpl.rs` | `TakeError`, `WriteBuffer`, `Flush`, `Close` are the parts of `WriterFut::poll`; between them `ErrorAction` and `Finish` are the calls of `error()` and `finished()`, which may write, close and set the watermarks (`Use`) like every callback; `PollDrain`, the other item, the transport. `late` is a history variable: what the actor did since the writer looked |
| `ActorFutures` | `fut/*`, `stream.rs`, `contextitems.rs`, `TimerFunc` of `utils.rs` | a poll is an operator on the state of the composed future; one turn of a consumer's loop is a step; leaves become ready between turns; `notify`, `notify_later` and `run_later` are items with one message |
| `Connector` | `actors/resolver.rs`, over `ActorFutures` | `PollAsked` polls `Resolver`, `TcpConnector` or the two chained; `TcpConnector` is one turn of its loop; `Answer` is the lookup, the timer or an address |
| `MpscQueueProofs`, `SyncChannelProofs`, `ActorContextProofs`, `UnsyncChannelProofs`, `SignalsProofs` (with `ServiceRegistry`), `ArbiterProofs` (`ArbiterSystem` and `SyncArbiter`, side by side), `WriterProofs`, `ConnectorProofs` (with `ActorFutures`) | – | theorems and proofs (section 6) |
| `MC*` | – | constants for TLC: which callbacks call what, orders of items |

How they fit together. `SyncChannel` uses the interface of `FifoQueue`, which
`MpscQueue` implements. `ActorContext` uses, of each channel, what
`SyncChannel` and `UnsyncChannel` establish: a receiver that found nothing is
registered and is notified by the next message and by the drop of the last
address (`NoLostMessageWakeup`, `NoLostDisconnect`, `ReceiverWoken`).
`ActorContext` implements `ActorLifecycle` (property `Lifecycle`, an
`INSTANCE` with a refinement mapping). `Signals` extends `ServiceRegistry` and
`Connector` extends `ActorFutures`: each adds its variables and conjoins its own
part to the actions it shares, so that the run of the extension also checks the
module below it. `ServiceRegistry`, `SyncArbiter` and `Writer` contain the part of
the loop or of the mailbox they need.

Abstractions common to all modules: a message is a number or the call that sent
it; what a callback of the user does is a nondeterministic choice among the
library calls it can make; logging, error texts, types of messages and
formatting are left out. The callbacks of `Writer` choose among the calls of the
writer only; what they may do with the context is the subject of `ActorContext`.
Each mutant (`Mutant...`) stands before the definition
it would replace, and changes it the way a plausible slip in the code would; TLC
finds the property violated under every one of them.

## 3. Runs

Passing runs:

| Run | Config | Shows |
|---|---|---|
| `mpsc_queue` | `MCMpscQueue.cfg` | `ListInv` (shape of the list), `NoUseAfterFree`, `ImplementsFifo` (the queue implements `FifoQueue`; linearised at the swap), `InconsistentEnds` |
| `sync_channel` | `MCSyncChannel.cfg` | `ChannelInv` (the inductive invariant: the packed counter is the number of messages queued, about to be pushed or about to be discounted; handles are parked once; the receiver is told of the last drop), `NoLostMessageWakeup`, `BackPressure` |
| `sync_channel_live` | `MCSyncChannelLive.cfg` | `MessagesDrained` (also by the drop of the receiver), `DisconnectStops`, `CloseWakesParked` (the drop wakes every request that is parked) |
| `actor_context` | `MCActorContext.cfg` | `SleepsSafely` (no sleep on work, nor of an actor nobody can reach), `CompletedNotPolled`, `PausedWhileWaiting`, `KeptUntilDone`, `Lifecycle` |
| `actor_context_live` | `MCActorContextLive.cfg` | `MessagesHandled`, `ItemsServed` (no single item that keeps waiting starves another, unless handlers or requests to stop do not end), `StopAnswered` |
| `unsync_channel` | `MCUnsyncChannel.cfg` | `ReceiverWoken`, `RequestWakeable`, `DeliveredOnce`, `DeliveredSettles` (with a timeout, also when nobody ever answers) |
| `signals` | `MCSignals.cfg` | `AddressesLive` (of the registry), `SubscribersServed`, `SubscribeSettles`, `ExitSignalExits` |
| `arbiter_system` | `MCArbiterSystem.cfg` | `RegistrySettles`, `ExitStopsRegistered` |
| `sync_arbiter` | `MCSyncArbiter.cfg` | `TakenInOrder`, `PolledIsTaken`, `WorkersEnd` |
| `writer` | `MCWriter.cfg` | wherever the writer stands among the items, however often encoder and transport fail, whatever `error()` does: `NothingForgotten` (what is left when the context rests came after the writer looked), `GracefulClose` (a closed sink lacks at most what `error()` wrote after the flush failed), `BackpressureEnds`, `PollReturns` (a poll spins only on errors answered with Continue or on watermarks that cross) |
| `actor_futures` | `MCConnector.cfg` | `ResultCorrect`, `HandledInOrder` (of streams and of notices), `PolledOnce`, `ConnectOutcome`, `Completes` |

Each property is stated in words, with the lines it is about, above its
definition. `sync_channel_unpark` is expected to fail, see section 7.

Run one with `tlc -workers 2 -config MCSyncChannel.cfg MCSyncChannel`. The two
runs of the context take three to four minutes (`actor_context` has six million
states), `sync_channel` (four million), `sync_channel_live`, `signals` and `writer`
one to three, the others less than a minute. `CHECK_DEADLOCK FALSE` stands
where the system may stop: all clients have finished and the actor has ended.

## 4. Bounds

Every bound is a named constant and appears only in a guard or in `Init`.

- **Queue**: two pushers and four addresses. Two pushers are enough for one to
  complete behind the gap of the other; with four addresses the stub, the gap,
  a complete node and a freed address that is allocated again exist together.
  Nothing else is bounded: pushes and pops go on for ever.
- **Syn channel**: two senders, capacity 1, later 2, two calls per sender
  (`MaxCalls`), one `set_capacity`. Full, parked, unparked and parked again all
  happen; a third sender repeats the role of the second. `MessagesDrained` and
  `DisconnectStops` run with `send` and `try_send` only and without
  `set_capacity` (section 5).
- **Context**: two spawned futures, three in all, one message, two addresses, of
  the same channel or of both. In the live run
  three spawned futures, four in all, so that two items can keep waiting beside a
  third, two messages and one address, of either channel. Restarts are unbounded.
- **Requests**: two, one with a timeout, capacity 1, later any of 0, 1, 2.
- **Registry and signals**: two handlers and two instances (`MaxInst`), enough
  for the race of `get` that leaves each handler with a service of its own. Of
  one handler the user keeps the address (`Kept`), of the other the arbiter may
  end (`Mortal`), in any state of either. Two raised signals (`MaxRaise`), of one
  kind that ends the system and one that does not, so that one is handled while
  the other waits behind it.
- **System**: two arbiters, two `StopArbiter` sent by clients and two
  `SystemExit`, so that an exit meets an arbiter in each of its states, twice.
- **Sync actors**: two workers, three messages: one worker restarts, panics or
  ends while the other takes the rest.
- **Writer**: three bytes, three events, both orders of the items and three pairs
  of watermarks: equal, low below high, and crossing, changed at any time. The
  buffer goes above the high mark and below the low one. Faults are not bounded:
  the transport may fail for ever.
- **Futures**: every composition (192), every stream item (3) and every notice
  (3), every source of up to two elements out of four kinds, two expiries of the
  stream's timer. A combinator keeps nothing beyond one element, except the
  fold's accumulator.
- **Connector**: names of up to three addresses (`MaxAddr`), each of which
  accepts, refuses or stays silent: a first, a middle and a last one, in every
  combination.

## 5. Fairness

Nothing makes a client send, clone, cancel or drop; fairness is on what the
program or its scheduler must do.

- `MpscQueue`: a preempted pusher is scheduled again; every caller of `pop`
  retries after `Inconsistent` (the `yield_now` loops of `sync_channel.rs`).
- `SyncChannel`: threads inside a call are scheduled, the executor polls a
  notified task, the context polls its mailbox until `NotReady`.
  `set_capacity`'s wake loop runs until the queue of parked senders is empty,
  and senders that park again can keep it there for ever: the liveness run has
  no `set_capacity`.
- `ActorContext`: weak fairness of the loop (a poll never blocks and callbacks
  return) and of the event a pending future waits for. Strong fairness of
  `WaitReady`: a future given to `ctx.wait()` that is polled again and again
  completes. Without it a wait future that never completes pauses the actor,
  which is what `wait` is for.
- `UnsyncChannel`: notified tasks are polled and timers fire. Response futures
  resolve only for requests without a timeout: the timer has to end the others.
- `Signals`: the system's event loop does what it has (a message, a signal), and
  gets to a `SystemExit` once one is in its mailbox, but nothing else makes it
  exit; each handler's thread runs. Nothing makes a stream open, a signal arrive,
  an arbiter end or an address be dropped.
- `ArbiterSystem`: each arbiter's loop turns; the system handles its mailbox.
- `SyncArbiter`: the arbiter polls when notified, worker threads run, handlers
  return or panic.
- `Writer`: the context polls when notified and callbacks return; a blocked
  transport gets room. Nothing makes a failing transport recover.
- `ActorFutures`: the context polls when notified, wait futures complete and
  timers fire. A source or an inner future makes progress only where no timer
  covers it, so `Completes` also says that a timeout ends a silent computation.
- `Connector`: lookups end (the DNS library has a timeout of its own) and the
  timer fires; no address has to answer, so `Completes` says of the connector
  that silent addresses do not keep a request.

## 6. What is proved

For every value of the constants, by TLAPS. "Run" marks a theorem whose property
a run checks as well; the other theorems state conjuncts or consequences of the
inductive invariants by themselves.

| Module | Theorem | Says | Run |
|---|---|---|---|
| `MpscQueueProofs` | `TypeCorrect`, `ListCorrect` | types and shape of the list | `ListInv` |
| | `MemorySafe` | no node is dereferenced after it is freed, with any reuse of addresses | `NoUseAfterFree` |
| | `AssertsHold` | the two `assert!`s of `pop` | |
| | `LeakFree` | a node is allocated exactly if it is in the list or still with its pusher; after `drop` none is left | |
| | `FifoRefinement` | the lock-free queue implements `FifoQueue` | `ImplementsFifo` |
| `SyncChannelProofs` | `TypeCorrect`, `ChannelCorrect` | types (no counter goes below 0) and the inductive invariant | `ChannelInv` |
| | `CountIsExact`, `SendersAreExact` | `num_messages` and `num_senders` count what they say | |
| | `HandlesAreOnce` | a parked handle is in the queue of parked senders, or with the receiver, at most once | |
| | `ReceiverIsWoken` | a receiver that sleeps has no message that nobody will announce, and is told of the last sender's drop | `NoLostMessageWakeup` |
| | `CapacityIsKept` | `send` and `try_send` never exceed the largest capacity (condition: there is a largest one) | `BackPressure` |
| | `ClosedIsFinal` | a closed channel stays closed | |
| `ActorContextProofs` | `TypeCorrect` | types, whatever the callbacks call | |
| | `WaitingPausesActor` | nothing of the actor runs while a `wait` future is pending | `PausedWhileWaiting` |
| | `ItemsAreKept` | a spawned future stays until it completes, is cancelled or the actor ends (C) | `KeptUntilDone` |
| | `ContextImplementsLifecycle` | the refinement of `ActorLifecycle` (S) | `Lifecycle` |
| | `CompletedFuturesRest` | what returned Ready is not polled again (W, C) | `CompletedNotPolled` |
| | `NothingIsMissedAsleep` | no lost wake-up of a context (W, A, T) | `SleepsSafely` |
| `UnsyncChannelProofs` | `TypeCorrect` | types | |
| | `ReceiverIsWoken` | a sleeping receiver has an empty buffer and is registered | `ReceiverWoken` |
| | `RequestsAreWakeable` | a sleeping request is registered with what can end its wait | `RequestWakeable` |
| | `DeliveredAtMostOnce` | retries do not deliver twice, answers come from handlers | `DeliveredOnce` |
| `SignalsProofs` | `AddressesAreLive` | what the registry hands out or keeps runs or will be started | `AddressesLive` |
| | `SignalsUseRegistry` | the composition implements the specification of the registry | |
| | `SubscribersAreServed` | a subscriber is on one list once and gets each signal once, in order | `SubscribersServed` |
| `ArbiterProofs` | `TypeCorrect`, `SyncTypeCorrect` | types of `ArbiterSystem` and of `SyncArbiter` | |
| | `RegistryIsSettled` | map and mailbox of the system describe the loops that run | `RegistrySettles` |
| | `MessagesTakenInOrder` | workers take messages in order, each once | `TakenInOrder` |
| `WriterProofs` | `TypeCorrect` | types; the buffer never goes below 0 and the index stays in the list of items | |
| | `ClosesOnlyWhenDrained` | the sink is closed only when the transport has every byte accepted until then, but for those `error()` wrote in answer to the flush that failed | `GracefulClose` |
| | `NothingIsForgotten` | a context that rests without an event on its way has sent, reported and closed all that the actor asked for before the writer looked last | `NothingForgotten` |
| | `ClosesWithEverything` | the sink is closed only when the transport has every byte (R) | |
| | `WritesAreSent` | a context that rests with bytes to send, an error to report or a sink to close is notified or registered with the transport (L) | |
| `ConnectorProofs` | `ConnectorAnswers` | addresses in order, the first that accepts, errors only when nothing is left | `ConnectOutcome` |
| | `ItemsHandleInOrder` | handlers of stream items and notices get every element in order and once, and no notice before its time | `HandledInOrder` |
| | `NothingPolledTwice` | no combinator, item or connector future polls what has ended | `PolledOnce` |
| | `FuturesReturnTheirComposition` | a composed future returns what its closures make of the source's elements, in order and each once; success means the source has ended | `ResultCorrect` |

Conditions. The theorems about the context hold for every table `MayCall` of what
the callbacks call, except where the code is known to break the property
(section 7). Each condition excludes one such case, TLC refutes the property
without it, and the tables of the passing runs satisfy them all:

- **W**, `WaitsAreFlat`: a future given to `wait()` does not call `wait()`
  (`MCActorContextNested`).
- **C**, `ItemsDoNotCancel`: a spawned future does not cancel futures
  (`MCActorContextCancel`).
- **A**, `StoppingAddsNothing`: `stopping()` gives a drained context no future and
  no address (`MCActorContextRestore`).
- **S**, `StoppingOnlyAnswers`: `stopping()` does not terminate the context, nor
  stop one that is still running: its answer is then overridden or ignored, which
  `ActorLifecycle` does not allow. **T** is its half about `terminate()` in a
  context that was stopped.

Of the writer's theorems, the two a run checks have no condition. The other two
state what the documentation makes one expect (section 7), under the conditions
that make it true:

- **R**, `Reliable`: the transport does not fail, so that `error()` is not called
  between the flush and the close (`MCWriterError`).
- **L**, `WriterIsLast` and `NothingFails`: the item that writes comes before the
  writer in the context's list, and neither encoder nor transport fails. `write`
  wakes nobody, so what an item behind the writer, or `error()` after a failed
  flush, writes stays in the buffer (`MCWriterOrder`, `MCWriterError`).

`Bounded` (of `CapacityIsKept`) says that there is a largest capacity; without one
`BackPressure` names no bound. The code's capacities are `usize`, so there is one.

Assumptions on the constants. `MpscQueue`: `PointerAssumption` (null is no
address, `None` no value), `AddrAssumption` (there is an address for the stub).
`SyncChannel`: `SenderAssumption` (finitely many senders, one of them first).
`ServiceRegistry`, `SyncArbiter`, `UnsyncChannel`: finitely many threads, workers
and requests. `ArbiterSystem`: the system's arbiter is none of the others.
`Signals`: fewer handlers than the 16 messages a mailbox holds, so that a
`Subscribe` never meets a full one. The remaining ones are the types of the
parameters. TLC evaluates all of them in the runs.

Arguments, by module. Each inductive invariant was checked by TLC before it was
proved; each action has its lemma, and under it one step per conjunct it can
disturb.

*Queue.* The pointers alone are no invariant: between a pusher's swap
and its link, the list that `tail` reaches ends before `head`. `chain`, a history
variable, is the sequence of nodes from `tail` to `head` in the order of the
swaps. `ListInv` has five parts: `EndsOK` (the chain goes from `tail` to `head`
without repetition), `LinksOK` (each link is there, or is null and one pusher is
about to write it), `ValuesOK` (every node but the first holds a value),
`PushersOK` (what a pusher holds in its locals, and that no two hold the same
node), `HeapOK` (live nodes are the chain and the unlinked ones). The freed node
is never the predecessor of a gap because `pop` only leaves a node whose link is
there. The refinement maps the abstract queue to the values of `chain` from the
second node on.

*Channel.* `ChannelInv` strengthens what is wanted by `RxOK` and `OpOK` (what the
receiver and each sender are in the middle of), `ParkOK` (where a parked handle
is: with the sender, in the queue, or with the receiver) and `WakeOK` (a
registered task and an unset flag mean that the receiver sleeps or is about to).
The counter is related to the senders between compare-exchange and push and to
the receiver between pop and decrement; cardinality lemmas from
`FiniteSetTheorems` carry it through each step. For the capacity, `PressureInv`
adds that a sender about to count a message in has seen room for it in the state
it compares with: a compare-exchange that succeeds finds that state unchanged.

*Context.* Small invariants, each as strong as the theorem needs. `PauseInv`: the
loop over the items is entered only without wait futures. `ItemInv`, `WaitInv`:
the future being polled is still where the loop takes it to be, although its
callback may have changed the lists; this is where W and C come in, and why
`CompletedFuturesRest` needs both. `FutureInv`: every future is held once and none
that completed. `FlagsInv` and `LifeInv` relate the flags to the place in the
actor's life; from them each step of the context is a step of `ActorLifecycle` or
a stutter. `NothingIsMissedAsleep` uses what a pass without `MODIFIED` has
established behind its index (`CleanInv`), both channels `Settled`, and the order
in which `Mailbox::poll` looks at them (`MailboxInv`).

*Requests.* `ReceiverWoken` is inductive with the types. `RequestWakeable` and
`DeliveredOnce` need each other and `Carried`: the oneshot of a request exists
exactly from the moment its message is queued.

*Registry and signals.* `AddressesLive` is inductive with the registry's types, and
a step of `Signals` is a step of the registry or leaves it alone. `SignalsInv`
adds that a handler's `Subscribe` is in one mailbox or its address on one list,
once (`PlaceOnce`), that an instance is queued and started once (`StartOnce`), and
what a handler's state and that of its request say of each other (`HandlerOK`).
The list of subscribers is rebuilt along an ascending selection of its positions,
so that whoever could be sent to stays on it, once and in order.

*Arbiters.* `Tracked` says, by how far an arbiter's thread has come, what the
system's mailbox and map hold of it: nothing; one registration, on its way or
handled; an unregistration behind it. Messages of one thread stay in order.

*Sync actors.* `TakenInOrder` with the types, that a worker that handles has a
message, and that nothing unsent waits or was taken. Taking the head of the
shared queue moves the boundary between taken and waiting by one.

*Writer.* `WriterInv`: the list of items is one of the three the context can hold
(writer first, writer last, writer gone) and the poll of the writer happens at its
place in that list (`LoopOK`); bytes accepted are bytes buffered and bytes taken by
the transport (`DataOK`); and behind the loop over the buffer, what is in it is
what came late (`Written`), which gives the close. `SeenInv` carries the same
through the rest of a poll, for bytes, error and close: unless the transport's task
is registered, what is left behind the writer's place in the list is late.
`FlushedInv` (R) and `LastInv` (L) say that under their conditions nothing is late
when the writer closes, or when the context rests.

*Connector and combinators.* `ConnectInv` splits the addresses into those behind
the connector, all refused but the last, and those ahead (`TriesOK`), and says what
the connection being made will return. `FutureInv` says of each stage of a
composition what may still be polled: while the consumer runs, its source, its
timer and the future it is at are not used up (`Running`), and the second future
of a chain is fresh when the first has ended (`InSecond`). A lemma per combinator
gives what its poll returns and keeps. `ItemInv` splits the source of a stream item
or notice the same way as the addresses, and counts what the handler was given by
the elements behind the item that are no errors. `ResultInv` does the same for a
consumer: what was heard, with the stream's timeouts left out, is the front of the
source and the source still holds the rest (`Traced`, by counting, as an induction
over the elements is out of reach); of it the consumer is through with the first
`c` elements, none of them an error and the accumulator holding one value for each
(`Gathered`), and at most one more is at work, in the future of the stream
combinator (`StreamAt`) or of the fold (`FoldAt`). That future is already what the
closures make of its element, so an error found there is the first one, and the
end of the source is the end of the computation. The second future of a chain
holds the result of the whole composition from the moment it is made.

Only model-checked: the liveness properties, as fairness and ENABLED are out of the
prover's reach: `InconsistentEnds`, `MessagesDrained`, `DisconnectStops`,
`CloseWakesParked`, `MessagesHandled`, `ItemsServed`, `StopAnswered`,
`DeliveredSettles`, `SubscribeSettles`, `ExitSignalExits`, `ExitStopsRegistered`,
`PolledIsTaken`, `WorkersEnd`, `BackpressureEnds`, `PollReturns`, `Completes`.

`RECURSIVE` operators are not used in any module.

## 7. Statements the code does not keep

The repository's comments and documentation make claims that TLC refutes. The
first is the run `sync_channel_unpark`; the others have their configuration in
this directory and the property in the module, and can be run by hand; where two
properties share one configuration, `tlc -continue` reports both.

| Config, property | The code | The text |
|---|---|---|
| `MCSyncChannelUnpark`, `UnparkComes` | a sender decides that the channel is full from a state it loaded earlier and parks after the receiver emptied the channel (`sync_channel.rs:316`; `poll` also unparks before it decrements): the request waits on an empty channel | `sync_channel.rs:418` "there will be an unpark sometime in the future" |
| `MCSyncChannelRepoll`, `UnparkHasTask` | `poll_unparked(false)` clears the task of a parked request that is polled again (`:424`) | `:419` "make sure that the correct task will be notified" |
| `MCSyncChannelClose`, `CloseWakes` | a sender between its decision and `park` is missed by the drop of the receiver (`:402`) | `:716` "Wake up any threads waiting" |
| `MCSyncChannelClose`, `CloseDrains` | a message pushed after the drain stays in the queue and its sender is told Ok (`:729`) | `:728` "Drain the channel of all pending messages" |
| `MCSyncChannelSlot`, `GuaranteedSlot` | a sender parks as soon as `num_messages >= buffer` (`:317`) | `:151` "each sender gets a guaranteed slot" |
| `MCSyncChannelSlot`, `NotEmptyIsNotEmpty` | `unparked` is also set by the last drop, and stays set after its message was popped (`:629`) | `:676` "the next iteration is guaranteed to get the message" |
| `MCActorContextNested`, `CompletedNotPolled` | `wait.pop()` removes the future that the completed one scheduled with `ctx.wait()` (`contextimpl.rs:251`); the completed one is polled again | `:242` "we always have to check most recent future" |
| `MCActorContextStarve`, `EveryItemServed` | two items that keep waiting are exchanged for ever, one between them is never polled (`:270`) | `:267` "otherwise it is possible that same item ... prevents polling of other items" |
| `MCActorContextCancel`, `KeptUntilDone` | `cancel_future` from an item shifts the list under `idx`; another future is removed (`:281`) | `:146` "Cancel previously scheduled future." |
| `MCActorContextRestore`, `ModifiedIsPolled` | a future that `stopping()` adds before it answers Continue is not polled (`:302`) | `actor.rs:51` on restoring from `stopping` |
| `MCUnsyncChannelBlocked`, `BlockedSettles` | a blocked request registers its task on every poll; its stale entries take the wake-ups of others (`unsync_channel.rs:140`) | `address/mod.rs:211` "Send asynchronous message and wait for response." |
| `MCUnsyncChannelTimeout`, `TimeoutEnds` | while the mailbox is full the timeout is not polled (`message.rs:73`) | `message.rs:39` "Set message delivery timeout" |
| `MCUnsyncChannelUnbounded`, `UnboundedIsFree` | `set_capacity(0)` wakes nobody (`unsync_channel.rs:241`) | `:235` "also wakes up waiting senders" |
| `MCServiceRegistryUnique`, `UniqueService` | two threads that both find nothing both start the service (`registry.rs:172`) | `registry.rs:4` "unique per system" |
| `MCArbiterSystemLeft`, `NoneLeft` | an arbiter whose registration is still on its way survives `SystemExit` (`system.rs:122`) | `msgs.rs:8` "Stop system execution" |
| `MCSyncArbiterExpect`, `ShouldNotFail` | when every worker has panicked the queue has no receiver (`sync.rs:139`) | the `expect("Should not fail")` there |
| `MCSyncArbiterSent`, `AcceptedIsTaken` | a message sent between the last look into the mailbox and the check of `connected()`, its address dropped at once, is dropped with the future (`sync.rs:146`) | `address/mod.rs:199` "Sendm message unconditionally", which fails only "if mailbox is closed" |
| `MCSyncArbiterStop`, `StopsImmediately` | the stopping flag is looked at after the next message was taken (`sync.rs:219`) | `actor.rs:204` "Immediately stop processing incoming messages" |
| `MCWriterOrder`, `WriteIsSent` | `write` wakes nobody; with the writer before the item that writes, the bytes stay (`io.rs:116`) | `io.rs:115` "Send item to a sink." |
| `MCWriterError`, `WriteIsSent` | after a failed flush the buffer is not looked at again: what `error()` writes before it answers Continue stays, also with the writer last (`io.rs:184`) | the same |
| `MCWriterError`, `AllSentAtClose` | the same bytes are lost when the sink is closing (`io.rs:191`) | `io.rs:97` "Gracefully close sink" |
| `MCWriterRetry`, `EveryPollReturns` | an error answered with Continue is retried at once: while the transport fails, the poll of the context does not return (`io.rs:172`) | that a poll of a future returns, `NotReady` if need be |
| `MCWriterMarks`, `EveryPollReturns` | with low > high + 1 a drain is ready at once and asked for again (`io.rs:166`) | the same |
| `MCActorFuturesPaused`, `HandledWhileRunning` | a `wait` in `started()` or `error()` of a stream handler does not keep the next element back (`stream.rs:121`) | `actor.rs:237` "Stop processing any of incoming events" |

For this reason `actor_context` does not let wait futures wait nor items cancel:
it shows what holds outside of these cases. `ItemsServed`, `NothingForgotten`,
`GracefulClose`, `PollReturns` and `PolledIsTaken` are checked with the cases in
the model, and name them.

## 8. What is not modelled

- The crates behind the connector and the signals: the DNS library, sockets and
  signal streams are nondeterministic answers. `Resolver::parse` cannot fail, as
  `splitn` yields a first part of any string.
- `Condition` of `utils.rs`: a list of one-shot senders used up by `set` in one
  call on one thread; nothing in the repository uses it. `fut::Either`:
  delegation.
- The Syn flavour of `Request` in one piece: `SyncChannel` has its retry of a full
  channel, `Signals` the request that is answered, lost with its receiver or
  dropped with its actor. Timeout and reply are the code of the Unsync flavour,
  and so are the requests of a `Recipient`. Error types and their texts.
- The per-arbiter `Registry`, `Arbiter::start`, `StartActor`: sequential, or a
  closure sent as `Execute`.
- The debug-only poll limit of the mailbox. Weak memory: every atomic access is
  taken as sequentially consistent; the queue relies on release and acquire
  pairs, the channel uses `SeqCst`.
- `derive`, tests, and the examples: they are users of the library (the chat
  server is a map of recipients that sends to each), and what they may call is
  the choice the models leave to callbacks.

## 9. Plan

Order so far: queue, Syn channel, context, Unsync channel with requests,
registry, system, sync actors, writers, combinators and stream items, connector,
signals over the registry; then the proofs, of the two lock-free modules first and
of every component since. Next: a composition of `SyncChannel` with the requests of
`UnsyncChannel`, that is the Syn flavour of `Request`, with timeout and reply, and
one handle shared by two threads; with it the proof that a request over a Syn
address is delivered at most once.
