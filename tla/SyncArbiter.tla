---------------------------- MODULE SyncArbiter ----------------------------
(***************************************************************************)
(* Sync actors (src/src/sync.rs): the SyncArbiter future in an arbiter's     *)
(* loop forwards the messages of its address to a multi-consumer queue;      *)
(* worker threads, each with an instance of the actor, take them from it.     *)
(* When the last address is gone every worker gets a Stop.  The channel of   *)
(* the address (SyncChannel) is a FIFO that wakes its reader; messages are   *)
(* numbered in the order they were sent.                                     *)
(***************************************************************************)
EXTENDS Naturals, Sequences, FiniteSets, SequencesExt

CONSTANTS Worker,      \* the worker threads
          MaxMsg,      \* bound: messages sent
          MaxAddr,     \* bound: addresses alive at a time
          StartStops,  \* whether Actor::started may call ctx.stop()
          MayPanic,    \* whether a handler may panic
          LoopMayEnd   \* whether the arbiter's loop may end

ASSUME WorkerAssumption == IsFiniteSet(Worker)
ASSUME SyncBoundAssumption ==
    /\ MaxMsg \in Nat /\ MaxAddr \in Nat \ {0}
    /\ {StartStops, MayPanic, LoopMayEnd} \subseteq BOOLEAN

Msg == 1..MaxMsg
Stop == 0      \* SyncContextProtocol::Stop; other entries of the queue are envelopes

VARIABLES
    addrs,     \* number of addresses
    sent,      \* number of messages sent
    given,     \* messages whose requester has dropped the request
    mbox,      \* SyncArbiter::msgs
    fpc,       \* the future: "idle", "poll", "check", or "done", "dropped", "panicked"
    woken,     \* its task has been notified
    queue,     \* the crossbeam queue
    wpc,       \* per worker: "start", "recv", "handle", "after", "ended", "dead"
    cur,       \* the message a worker handles
    stopping,  \* SyncContext::stopping
    outcome    \* per message: "open", "handled", "skipped", "lost"

syncVars == <<addrs, sent, given, mbox, fpc, woken, queue, wpc, cur, stopping, outcome>>
clientVars == <<addrs, sent, given>>
workerVars == <<wpc, cur, stopping>>

SyncTypeOK ==
    /\ addrs \in 0..MaxAddr /\ sent \in 0..MaxMsg /\ given \in SUBSET Msg
    /\ mbox \in Seq(Msg)
    /\ fpc \in {"idle", "poll", "check", "done", "dropped", "panicked"}
    /\ woken \in BOOLEAN
    /\ queue \in Seq(Msg \union {Stop})
    /\ wpc \in [Worker -> {"start", "recv", "handle", "after", "ended", "dead"}]
    /\ cur \in [Worker -> Msg \union {0}]
    /\ stopping \in [Worker -> BOOLEAN]
    /\ outcome \in [Msg -> {"open", "handled", "skipped", "lost"}]

\* SyncArbiter::start: the threads are spawned, the future too.
SyncInit ==
    /\ addrs = 1 /\ sent = 0 /\ given = {}
    /\ mbox = <<>> /\ fpc = "idle" /\ woken = TRUE
    /\ queue = <<>>
    /\ wpc = [w \in Worker |-> "start"] /\ cur = [w \in Worker |-> 0]
    /\ stopping = [w \in Worker |-> FALSE]
    /\ outcome = [m \in Msg |-> "open"]

FutureAlive == fpc \in {"idle", "poll", "check"}

\* The envelopes of a channel that is dropped answer their requests with an error.
Lose(s) == [m \in Msg |-> IF \E i \in DOMAIN s : s[i] = m THEN "lost" ELSE outcome[m]]

-----------------------------------------------------------------------------
(* The holders of the address. *)

Send ==
    /\ addrs > 0 /\ sent < MaxMsg
    /\ sent' = sent + 1
    /\ IF FutureAlive
       THEN mbox' = Append(mbox, sent + 1) /\ woken' = TRUE /\ UNCHANGED outcome
       ELSE outcome' = [outcome EXCEPT ![sent + 1] = "lost"] /\ UNCHANGED <<mbox, woken>>
    /\ UNCHANGED <<addrs, given, fpc, queue, workerVars>>

\* The Request of an unanswered message is dropped.
Cancel(m) ==
    /\ m <= sent /\ m \notin given /\ outcome[m] = "open"
    /\ given' = given \union {m}
    /\ UNCHANGED <<addrs, sent, mbox, fpc, woken, queue, workerVars, outcome>>

CloneAddr ==
    /\ addrs \in 1..(MaxAddr - 1) /\ addrs' = addrs + 1
    /\ UNCHANGED <<sent, given, mbox, fpc, woken, queue, workerVars, outcome>>

\* The last one wakes the receiver.
DropAddr ==
    /\ addrs > 0 /\ addrs' = addrs - 1
    /\ woken' = (woken \/ (addrs = 1 /\ FutureAlive))
    /\ UNCHANGED <<sent, given, mbox, fpc, queue, workerVars, outcome>>

-----------------------------------------------------------------------------
(* SyncArbiter::poll. *)

StartPoll ==
    /\ fpc = "idle" /\ woken
    /\ fpc' = "poll" /\ woken' = FALSE
    /\ UNCHANGED <<clientVars, mbox, queue, workerVars, outcome>>

\* The queue's send fails when no worker holds its receiver, and expect panics.
Forward ==
    /\ fpc = "poll" /\ mbox # <<>>
    /\ IF \E w \in Worker : wpc[w] \notin {"ended", "dead"}
       THEN /\ queue' = Append(queue, Head(mbox)) /\ mbox' = Tail(mbox)
            /\ UNCHANGED <<fpc, outcome>>
       ELSE /\ fpc' = "panicked" /\ outcome' = Lose(mbox) /\ mbox' = <<>>
            /\ UNCHANGED queue
    /\ UNCHANGED <<clientVars, woken, workerVars>>

\* mutant: leaves the loop before the mailbox is empty
MutantDrained ==
    /\ fpc = "poll" /\ fpc' = "check"
    /\ UNCHANGED <<clientVars, mbox, woken, queue, workerVars, outcome>>

Drained ==
    /\ fpc = "poll" /\ mbox = <<>> /\ fpc' = "check"
    /\ UNCHANGED <<clientVars, mbox, woken, queue, workerVars, outcome>>

\* The stop condition with n Stops for the workers; the future resolves and
\* drops its receiver.
Finish(n) ==
    /\ fpc = "check"
    /\ IF addrs > 0
       THEN fpc' = "idle" /\ UNCHANGED <<mbox, queue, outcome>>
       ELSE /\ queue' = queue \o [i \in 1..n |-> Stop]
            /\ fpc' = "done" /\ outcome' = Lose(mbox) /\ mbox' = <<>>
    /\ UNCHANGED <<clientVars, woken, workerVars>>

\* mutant: one Stop for all workers
MutantCheckOne == Finish(1)

Check == Finish(Cardinality(Worker))

\* The arbiter's core is dropped with the future in it: no Stop is sent.
LoopEnds ==
    /\ LoopMayEnd /\ fpc = "idle"
    /\ fpc' = "dropped" /\ outcome' = Lose(mbox) /\ mbox' = <<>>
    /\ UNCHANGED <<clientVars, woken, queue, workerVars>>

-----------------------------------------------------------------------------
(* SyncContext::run. *)

\* What a call of Actor::started can leave in ctx.stopping.
AfterStarted(s) == IF StartStops THEN {s, TRUE} ELSE {s}

WorkerStarted(w) ==
    /\ wpc[w] = "start"
    /\ \E s \in AfterStarted(FALSE) : stopping' = [stopping EXCEPT ![w] = s]
    /\ wpc' = [wpc EXCEPT ![w] = "recv"]
    /\ UNCHANGED <<clientVars, mbox, fpc, woken, queue, cur, outcome>>

\* mutant: takes the newest entry
MutantRecvEnvelope(w) ==
    /\ wpc[w] = "recv" /\ queue # <<>> /\ Last(queue) # Stop
    /\ cur' = [cur EXCEPT ![w] = Last(queue)] /\ queue' = Front(queue)
    /\ wpc' = [wpc EXCEPT ![w] = "handle"]
    /\ UNCHANGED <<clientVars, mbox, fpc, woken, stopping, outcome>>

RecvEnvelope(w) ==
    /\ wpc[w] = "recv" /\ queue # <<>> /\ Head(queue) # Stop
    /\ cur' = [cur EXCEPT ![w] = Head(queue)] /\ queue' = Tail(queue)
    /\ wpc' = [wpc EXCEPT ![w] = "handle"]
    /\ UNCHANGED <<clientVars, mbox, fpc, woken, stopping, outcome>>

\* Stop: the callbacks stopping and stopped, then the thread ends; a pending
\* ctx.stop() is void.
RecvStop(w) ==
    /\ wpc[w] = "recv" /\ queue # <<>> /\ Head(queue) = Stop
    /\ queue' = Tail(queue)
    /\ wpc' = [wpc EXCEPT ![w] = "ended"]
    /\ UNCHANGED <<clientVars, mbox, fpc, woken, cur, stopping, outcome>>

\* Err(_) => (): an empty queue without a sender.
RecvErr(w) ==
    /\ wpc[w] = "recv" /\ queue = <<>> /\ ~FutureAlive
    /\ wpc' = [wpc EXCEPT ![w] = "after"]
    /\ UNCHANGED <<clientVars, mbox, fpc, woken, queue, cur, stopping, outcome>>

\* SyncContextEnvelope::handle: a request that was given up is skipped; the
\* handler may call ctx.stop() or ctx.terminate().
Handle(w) ==
    /\ wpc[w] = "handle"
    /\ IF cur[w] \in given
       THEN outcome' = [outcome EXCEPT ![cur[w]] = "skipped"] /\ UNCHANGED stopping
       ELSE /\ outcome' = [outcome EXCEPT ![cur[w]] = "handled"]
            /\ \E s \in {stopping[w], TRUE} : stopping' = [stopping EXCEPT ![w] = s]
    /\ wpc' = [wpc EXCEPT ![w] = "after"]
    /\ UNCHANGED <<clientVars, mbox, fpc, woken, queue, cur>>

\* The handler panics: the thread ends and drops its receiver.
Panic(w) ==
    /\ MayPanic /\ wpc[w] = "handle" /\ cur[w] \notin given
    /\ outcome' = [outcome EXCEPT ![cur[w]] = "lost"]
    /\ wpc' = [wpc EXCEPT ![w] = "dead"]
    /\ UNCHANGED <<clientVars, mbox, fpc, woken, queue, cur, stopping>>

\* A stopped actor is replaced by a new one from the factory.
Restart(w) ==
    /\ wpc[w] = "after"
    /\ IF stopping[w]
       THEN \E s \in AfterStarted(FALSE) : stopping' = [stopping EXCEPT ![w] = s]
       ELSE UNCHANGED stopping
    /\ wpc' = [wpc EXCEPT ![w] = "recv"]
    /\ UNCHANGED <<clientVars, mbox, fpc, woken, queue, cur, outcome>>

-----------------------------------------------------------------------------
Poll == StartPoll \/ Forward \/ Drained \/ Check

Work(w) == \/ WorkerStarted(w) \/ RecvEnvelope(w) \/ RecvStop(w) \/ RecvErr(w)
           \/ Handle(w) \/ Restart(w)

SyncNext ==
    \/ Send \/ CloneAddr \/ DropAddr \/ \E m \in Msg : Cancel(m)
    \/ Poll \/ LoopEnds
    \/ \E w \in Worker : Work(w) \/ Panic(w)

SyncSpec == SyncInit /\ [][SyncNext]_syncVars

\* The loop polls a notified task; the threads run and handlers return.
SyncFairSpec == SyncSpec /\ WF_syncVars(Poll) /\ \A w \in Worker : WF_syncVars(Work(w))

-----------------------------------------------------------------------------
\* The messages that workers have taken from the queue.
Taken == {m \in Msg : outcome[m] \in {"handled", "skipped"}}
            \union {cur[w] : w \in {v \in Worker : wpc[v] = "handle"}}

(* Messages are taken by the workers in the order they were sent, each once:   *)
(* what waits in the queue and then in the mailbox is ascending, and newer     *)
(* than everything a worker has taken.                                         *)
TakenInOrder ==
    /\ \A i, j \in DOMAIN queue : i < j /\ queue[j] # Stop => queue[i] < queue[j]
    /\ \A i, j \in DOMAIN mbox : i < j => mbox[i] < mbox[j]
    /\ \A i \in DOMAIN queue, j \in DOMAIN mbox : queue[i] < mbox[j]
    /\ \A m \in Taken : /\ \A i \in DOMAIN queue : queue[i] # Stop => m < queue[i]
                        /\ \A i \in DOMAIN mbox : m < mbox[i]

(* A message that is in the mailbox when the arbiter polls it is handled, or    *)
(* skipped because its request was given up, also when its address is the last *)
(* one and is gone: the Stops come after it.  A panic of a handler costs the    *)
(* message it handled and no other, until it was the last worker's.             *)
PolledIsTaken ==
    \A m \in Msg : (fpc = "poll" /\ m \in ToSet(mbox)) ~>
        (\/ outcome[m] \in {"handled", "skipped"}
         \/ \E w \in Worker : wpc[w] = "dead" /\ cur[w] = m
         \/ \A w \in Worker : wpc[w] = "dead")

(* When the last address is gone the workers end, unless the arbiter's loop    *)
(* ended before it could send the Stops.                                       *)
WorkersEnd == (addrs = 0) ~> (\/ \A w \in Worker : wpc[w] \in {"ended", "dead"}
                              \/ fpc = "dropped")

(* .expect("Should not fail"): the queue always has a receiver while the       *)
(* arbiter forwards messages.                                                  *)
ShouldNotFail == fpc # "panicked"

(* ActorContext::stop: "Immediately stop processing incoming messages": an     *)
(* actor that has called ctx.stop() is not given another one.                  *)
StopsImmediately == \A w \in Worker : wpc[w] = "handle" => ~stopping[w]

(* Addr::do_send: "Sendm message unconditionally ... silently fails if mailbox *)
(* is closed": a message the open mailbox has accepted is taken by a worker,   *)
(* whenever the addresses are dropped.                                          *)
AcceptedIsTaken ==
    \A m \in Msg : (m \in ToSet(mbox)) ~>
        (\/ outcome[m] \in {"handled", "skipped"}
         \/ \E w \in Worker : wpc[w] = "dead" /\ cur[w] = m
         \/ \A w \in Worker : wpc[w] = "dead"
         \/ fpc = "dropped")
=============================================================================
