---------------------------- MODULE ActorFutures ----------------------------
(* The combinators of fut/ and the items of an actor's context (stream.rs,   *)
(* contextitems.rs, utils.rs): a source of items and errors, up to two       *)
(* stream combinators over it, a consumer that turns the stream into a       *)
(* future, and a combinator over that future, polled by the actor's context. *)
(*                                                                           *)
(* A poll is an operator from the state n of the composed future to what it  *)
(* returns and the state it leaves, [r |-> result, n |-> state].  One turn   *)
(* of a consumer's loop is one step, so that events happen between turns.    *)
EXTENDS Integers, Sequences, FiniteSets

CONSTANTS Lowers, Uppers,   \* stream combinators: next to the source, and above
          Consumers,        \* consumers of the combined stream
          Tops,             \* combinators over the future of the consumer
          StreamItems,      \* items that take the bare source: no combinators
          Notices,          \* items that give the actor one message or call
          MaxLen,           \* bound on what the source produces
          MaxFire,          \* bound on how often StreamTimeout's timer fires
          EarlyWait         \* may started() and error() call ctx.wait()?

ASSUME KindAssumption ==
    /\ Lowers \subseteq {"none", "map", "map_err", "timeout"}
    /\ Uppers \subseteq {"none", "and_then", "then"}
    /\ Consumers \subseteq {"fold", "finish"}
    /\ Tops \subseteq {"none", "map", "map_err", "from_err", "drop_err", "and_then", "then", "timeout"}
    /\ StreamItems \subseteq {"stream", "continue", "messages"}
    /\ Notices \subseteq {"notify", "notify_later", "run_later"}
ASSUME FutureBoundAssumption == MaxLen \in Nat /\ MaxFire \in Nat /\ EarlyWait \in BOOLEAN

VARIABLES
    kind,      \* how the future is composed
    script,    \* what the source is going to produce, then it ends
    n,         \* the state of the composed future
    pc,        \* "idle", "loop" (the consumer's loop) or "done"
    notified,  \* the context's task is notified
    waiting,   \* the context has a wait future
    result     \* what the composed future returned

vars == <<kind, script, n, pc, notified, waiting, result>>

-----------------------------------------------------------------------------
(* Results.  An outcome is Ok or Err with the values it carries.             *)

NotReady == [t |-> "notready", v |-> <<>>]
Ok(v)    == [t |-> "ok", v |-> v]
Err(v)   == [t |-> "err", v |-> v]
End      == [t |-> "end", v |-> <<>>]
NoFut    == [t |-> "none", v |-> <<>>]

TimedOut == Err(<<99>>)

(* The closures given to the combinators, on values told apart by their last *)
(* digit: 1 and 9 give a future that is ready at once (FutureResult), 2 one  *)
(* that is ready later and 3 one that fails later.                           *)
Digit(v) == v[Len(v)] % 10
Instant(v) == v = <<>> \/ Digit(v) \in {1, 9}
Add(r, k) == [r EXCEPT !.v = Append(@, k)]
Mapped(r) == [r EXCEPT !.v = <<@[1] + 10>>]
Worked(r) == IF Digit(r.v) = 3 THEN Err(<<r.v[1] + 30>>) ELSE Ok(<<r.v[1] + 20>>)
Folded(acc, v) == IF Digit(v) = 3 THEN Err(<<v[1] + 40>>) ELSE Ok(acc \o v)
Chained(r) == IF r.v = <<>> THEN Err(<<70>>) ELSE Ok(r.v \o <<50>>)

Elements == {Ok(<<1>>), Ok(<<2>>), Ok(<<3>>), Err(<<9>>)}

Leaf == {"src", "dur", "work", "step", "second", "limit"}

\* Items over the bare source, and notify, notify_later and run_later.
Items(conss) == [lower : {"none"}, upper : {"none"}, cons : conss, top : {"none"}]
StreamKinds == Items(StreamItems)
NoticeKinds == Items(Notices)

Kinds ==
    [lower : Lowers, upper : Uppers, cons : Consumers, top : Tops] \union StreamKinds \union NoticeKinds

\* What a source may produce; a notice has one message.
Scripts(k) ==
    IF k.cons \in Notices THEN {<<Ok(<<1>>)>>} ELSE UNION {[1..m -> Elements] : m \in 0..MaxLen}

\* A future of kind k, new in its context.
Fresh(k, scripts) ==
    /\ kind = k
    /\ script \in scripts
    /\ n = [left   |-> script,       \* the source
            ready  |-> [l \in Leaf |-> FALSE],   \* leaves with something to return
            reg    |-> {},           \* leaves that will notify the task
            timer  |-> FALSE,        \* StreamTimeout::timeout is Some
            fires  |-> 0,
            work   |-> NoFut,        \* StreamAndThen::future, StreamThen::future
            fold   |-> "ready",      \* StreamFold::state
            acc    |-> <<>>,         \* its accumulator
            step   |-> NoFut,        \* its future
            chain  |-> "first",      \* Chain
            second |-> NoFut,        \* its second future
            f      |-> TRUE,         \* Map::f, MapErr::f is Some
            started |-> FALSE,       \* ActorStream::started
            early  |-> FALSE,        \* history: started() or error() waited in this poll
            handled |-> <<>>,        \* what the actor's handler was given
            heard  |-> <<>>,         \* history: what the source and the timer produced
            spent  |-> {},           \* leaves that returned their last result
            again  |-> FALSE]        \* history: polled after its end
    /\ pc = "idle" /\ notified = TRUE /\ waiting = FALSE /\ result = NotReady

Init == \E k \in Kinds : Fresh(k, Scripts(k))

-----------------------------------------------------------------------------
(* Leaves.                                                                   *)

Poll(m, l) == [m EXCEPT !.reg = IF m.ready[l] THEN @ ELSE @ \union {l},
                        !.again = @ \/ l \in m.spent]

\* The source: a stream made into an actor's stream by wrap_stream.
Source(m) ==
    LET p == Poll(m, "src") IN
    IF ~m.ready["src"] THEN [r |-> NotReady, n |-> p]
    ELSE IF m.left = <<>>
    THEN [r |-> End, n |-> [p EXCEPT !.spent = @ \union {"src"}]]
    ELSE [r |-> Head(m.left),
          n |-> [p EXCEPT !.left = Tail(@), !.ready["src"] = FALSE, !.heard = Append(@, Head(m.left))]]

\* A future that a closure returned: FutureResult, or one that is ready later.
Spawned(m, l, o) ==
    [m EXCEPT ![l] = o, !.ready[l] = Instant(o.v), !.spent = @ \ {l}, !.reg = @ \ {l}]

FuturePoll(m, l) ==
    LET p == Poll(m, l) IN
    IF m.ready[l] THEN [r |-> m[l], n |-> [p EXCEPT !.spent = @ \union {l}]]
                  ELSE [r |-> NotReady, n |-> p]

-----------------------------------------------------------------------------
(* Stream combinators next to the source.                                    *)

StreamMap(m) ==
    LET p == Source(m) IN IF p.r.t = "ok" THEN [p EXCEPT !.r = Mapped(@)] ELSE p

StreamMapErr(m) ==
    LET p == Source(m) IN IF p.r.t = "err" THEN [p EXCEPT !.r = Mapped(@)] ELSE p

NoTimer(m) == [m EXCEPT !.timer = FALSE, !.ready["dur"] = FALSE, !.reg = @ \ {"dur"}]

StreamTimeout(m) ==
    LET p == Source(m)
        q == IF p.n.timer THEN p.n ELSE [p.n EXCEPT !.timer = TRUE]
    IN  CASE p.r.t \in {"ok", "end"} -> [p EXCEPT !.n = NoTimer(@)]
          [] p.r.t = "err" -> p
          [] p.r.t = "notready" ->
               IF q.ready["dur"]
               THEN [r |-> TimedOut, n |-> [NoTimer(q) EXCEPT !.heard = Append(@, TimedOut)]]
               ELSE [r |-> NotReady, n |-> Poll(q, "dur")]

Lower(m) == CASE kind.lower = "none" -> Source(m)
              [] kind.lower = "map" -> StreamMap(m)
              [] kind.lower = "map_err" -> StreamMapErr(m)
              [] kind.lower = "timeout" -> StreamTimeout(m)

-----------------------------------------------------------------------------
(* Stream combinators that run a future for every element.                   *)

\* mutant: the future of the previous element is kept
MutantPollWork(m) == FuturePoll(m, "work")

PollWork(m) ==
    LET p == FuturePoll(m, "work") IN
    IF p.r.t = "notready" THEN p ELSE [p EXCEPT !.n.work = NoFut]

StreamAndThen(m) ==
    LET p == Lower(m) IN
    IF m.work # NoFut THEN PollWork(m)
    ELSE IF p.r.t # "ok" THEN p
    ELSE PollWork(Spawned(p.n, "work", Worked(p.r)))

StreamThen(m) ==
    LET p == Lower(m) IN
    IF m.work # NoFut THEN PollWork(m)
    ELSE IF p.r.t \in {"notready", "end"} THEN p
    ELSE PollWork(Spawned(p.n, "work", Worked(p.r)))

Stream(m) == CASE kind.upper = "none" -> Lower(m)
               [] kind.upper = "and_then" -> StreamAndThen(m)
               [] kind.upper = "then" -> StreamThen(m)

-----------------------------------------------------------------------------
(* Combinators over the future of the consumer, given what it returned.      *)

Map(p) ==
    IF p.r.t = "err" THEN p
    ELSE [r |-> Add(p.r, 60), n |-> [p.n EXCEPT !.f = FALSE, !.again = @ \/ ~p.n.f]]

MapErr(p) ==
    IF p.r.t = "ok" THEN p
    ELSE [r |-> Add(p.r, 61), n |-> [p.n EXCEPT !.f = FALSE, !.again = @ \/ ~p.n.f]]

FromErr(p) == IF p.r.t = "err" THEN [p EXCEPT !.r = Add(@, 62)] ELSE p

DropErr(p) == IF p.r.t = "err" THEN [p EXCEPT !.r = Err(<<>>)] ELSE p

\* Chain::poll after the first future returned: the closure answers with an
\* error, or with a second future that is polled at once.
Chain(p, o) ==
    LET d == [p.n EXCEPT !.chain = "done"] IN
    IF o = NoFut THEN [p EXCEPT !.n = d]
    ELSE [FuturePoll(Spawned(d, "second", o), "second") EXCEPT !.n.chain = "second"]

\* mutant: the closure of and_then is called after an error too
MutantAndThen(p) == Chain(p, Chained(p.r))

AndThen(p) == Chain(p, IF p.r.t = "err" THEN NoFut ELSE Chained(p.r))

Then(p) == Chain(p, Chained(p.r))

Top(p) == CASE kind.top \in {"none", "timeout"} -> p
            [] kind.top = "map" -> Map(p)
            [] kind.top = "map_err" -> MapErr(p)
            [] kind.top = "from_err" -> FromErr(p)
            [] kind.top = "drop_err" -> DropErr(p)
            [] kind.top = "and_then" -> AndThen(p)
            [] kind.top = "then" -> Then(p)

\* The poll returns to the context, which drops a future that is ready.
Return(p) ==
    /\ n' = p.n
    /\ pc' = IF p.r.t = "notready" THEN "idle" ELSE "done"
    /\ result' = p.r
    /\ UNCHANGED waiting

\* The consumer returns to the combinator above it.
Consumed(p) == \E q \in {IF p.r.t = "notready" THEN p ELSE Top(p)} : Return(q)

Continue(m) == n' = m /\ UNCHANGED <<pc, waiting, result>>

-----------------------------------------------------------------------------
(* The context polls the future.                                             *)

\* ContextImpl polls its items when its task is notified, whoever notified
\* it, and not while it waits.  Timeout looks at its timer first, Chain polls
\* its second future once it has one.
TimeoutPoll ==
    IF n.ready["limit"] THEN Return([r |-> TimedOut, n |-> n])
    ELSE n' = Poll(n, "limit") /\ pc' = "loop" /\ UNCHANGED <<waiting, result>>

ChainPoll ==
    Return(FuturePoll([n EXCEPT !.again = @ \/ n.chain = "done"], "second"))

\* StreamHandler::started is called on the first poll.
Started ==
    /\ waiting' \in {FALSE, EarlyWait /\ kind.cons # "messages" /\ ~n.started}
    /\ n' = [n EXCEPT !.started = TRUE, !.early = waiting'] /\ pc' = "loop"
    /\ UNCHANGED result

PollItem ==
    /\ pc = "idle" /\ ~waiting
    /\ notified' = FALSE /\ UNCHANGED <<kind, script>>
    /\ IF kind.cons \in StreamItems THEN Started
       ELSE IF kind.top = "timeout" THEN TimeoutPoll
       ELSE IF n.chain # "first" THEN ChainPoll
       ELSE pc' = "loop" /\ UNCHANGED <<n, waiting, result>>

-----------------------------------------------------------------------------
(* Consumers: one turn of the loop.                                          *)

FoldReady ==
    \E s \in {Stream([n EXCEPT !.fold = "empty"])} :
        CASE s.r.t = "ok" -> Continue([Spawned(s.n, "step", Folded(n.acc, s.r.v)) EXCEPT !.fold = "processing"])
          [] s.r.t = "err" -> Consumed(s)
          [] s.r.t = "end" -> Consumed([s EXCEPT !.r = Ok(n.acc)])
          [] s.r.t = "notready" -> Consumed([s EXCEPT !.n.fold = "ready"])

\* mutant: the poll returns after an element instead of asking for the next
MutantFoldProcessing ==
    \E p \in {FuturePoll([n EXCEPT !.fold = "empty"], "step")} :
        CASE p.r.t = "ok" -> Consumed([r |-> NotReady, n |-> [p.n EXCEPT !.fold = "ready", !.acc = p.r.v]])
          [] p.r.t = "err" -> Consumed(p)
          [] p.r.t = "notready" -> Consumed([p EXCEPT !.n.fold = "processing"])

FoldProcessing ==
    \E p \in {FuturePoll([n EXCEPT !.fold = "empty"], "step")} :
        CASE p.r.t = "ok" -> Continue([p.n EXCEPT !.fold = "ready", !.acc = p.r.v])
          [] p.r.t = "err" -> Consumed(p)
          [] p.r.t = "notready" -> Consumed([p EXCEPT !.n.fold = "processing"])

StreamFold ==
    /\ pc = "loop" /\ kind.cons = "fold"
    /\ \/ n.fold = "ready" /\ FoldReady
       \/ n.fold = "processing" /\ FoldProcessing

StreamFinish ==
    /\ pc = "loop" /\ kind.cons = "finish"
    /\ \E s \in {Stream(n)} :
       CASE s.r.t = "ok" -> Continue(s.n)
         [] s.r.t = "end" -> Consumed([s EXCEPT !.r = Ok(<<>>)])
         [] s.r.t \in {"err", "notready"} -> Consumed(s)

\* A handler was given an element: the loop goes on unless the context waits.
Handled(s) ==
    \E w \in {waiting, TRUE} :
        /\ waiting' = w
        /\ n' = [s.n EXCEPT !.handled = @ \o s.r.v]
        /\ pc' = IF w THEN "idle" ELSE "loop"
        /\ UNCHANGED result

\* mutant: the loop goes on although error() answered Stop
MutantActorStream ==
    /\ pc = "loop" /\ kind.cons \in {"stream", "continue"}
    /\ \E s \in {Source(n)} :
       CASE s.r.t = "ok" -> Handled(s)
         [] s.r.t = "err" -> Continue(s.n)
         [] s.r.t = "notready" -> Return(s)
         [] s.r.t = "end" -> Return([s EXCEPT !.r = Ok(n.handled)])

\* error() answers Stop for "stream", its default, and Continue for "continue".
ActorStream ==
    /\ pc = "loop" /\ kind.cons \in {"stream", "continue"}
    /\ \E s \in {Source(n)} :
       CASE s.r.t = "ok" -> Handled(s)
         [] s.r.t = "err" /\ kind.cons = "continue" ->
              /\ waiting' \in {waiting, waiting \/ EarlyWait}
              /\ n' = [s.n EXCEPT !.early = waiting'] /\ UNCHANGED <<pc, result>>
         [] s.r.t = "notready" -> Return(s)
         [] OTHER -> Return([s EXCEPT !.r = Ok(n.handled)])

ActorMessageStreamItem ==
    /\ pc = "loop" /\ kind.cons = "messages"
    /\ \E s \in {Source(n)} :
       CASE s.r.t = "ok" -> Handled(s)
         [] s.r.t = "err" -> Continue(s.n)
         [] s.r.t = "end" -> Return([s EXCEPT !.r = Ok(n.handled)])
         [] s.r.t = "notready" -> Return(s)

-----------------------------------------------------------------------------
(* Items that give the actor one message (notify, notify_later) or call      *)
(* (run_later), the last two when their timer has fired.                     *)

\* The message is taken out of its item, once; ctx.wait() makes no difference
\* to an item that is ready.
Deliver(m) ==
    Return([r |-> Ok(<<>>),
            n |-> IF m.left = <<>> THEN [m EXCEPT !.again = TRUE]
                  ELSE [m EXCEPT !.left = <<>>, !.handled = @ \o m.left[1].v, !.heard = m.left]])

ActorMessageItem == pc = "loop" /\ kind.cons = "notify" /\ Deliver(n)

ActorDelayedMessageItem ==
    /\ pc = "loop" /\ kind.cons = "notify_later"
    /\ IF n.ready["limit"] THEN Deliver(n) ELSE Return([r |-> NotReady, n |-> Poll(n, "limit")])

\* It would not panic without its closure, as the others do.
TimerFunc ==
    /\ pc = "loop" /\ kind.cons = "run_later"
    /\ IF n.ready["limit"] THEN Deliver(n) ELSE Return([r |-> NotReady, n |-> Poll(n, "limit")])

-----------------------------------------------------------------------------
(* The world: leaves become ready, wait futures complete.                    *)

\* Leaves that exist and are not ready.
Pending ==
    {l \in {"work", "step", "second"} : n[l] # NoFut /\ l \notin n.spent}
        \union (IF kind.cons \in Notices THEN {} ELSE {"src"})
        \union (IF n.timer /\ n.fires < MaxFire THEN {"dur"} ELSE {})
        \union (IF kind.top = "timeout" \/ kind.cons \in {"notify_later", "run_later"} THEN {"limit"} ELSE {})

\* A leaf becomes ready and notifies the task that polled it.
Occur(l) ==
    /\ pc # "done" /\ ~n.ready[l]
    /\ n' = [n EXCEPT !.ready[l] = TRUE, !.reg = @ \ {l}, !.fires = IF l = "dur" THEN @ + 1 ELSE @]
    /\ notified' = (notified \/ l \in n.reg)
    /\ UNCHANGED <<kind, script, pc, waiting, result>>

Happen(l) == l \in Pending /\ Occur(l)

\* The wait future completes; ContextImpl goes on to its items in that poll.
WaitDone ==
    /\ pc = "idle" /\ waiting
    /\ waiting' = FALSE /\ notified' = TRUE
    /\ UNCHANGED <<kind, script, n, pc, result>>

Turn == /\ \/ StreamFold \/ StreamFinish \/ ActorStream \/ ActorMessageStreamItem
           \/ ActorMessageItem \/ ActorDelayedMessageItem \/ TimerFunc
        /\ UNCHANGED <<kind, script, notified>>

Next == PollItem \/ Turn \/ WaitDone \/ \E l \in Leaf : Happen(l)

Spec == Init /\ [][Next]_vars

\* What must happen: timers fire and, unless a timer is there to end the wait
\* for them, sources and futures make progress.
Awaited ==
    LET timed == kind.top = "timeout" IN
    {"dur", "limit"}
        \union (IF timed THEN {} ELSE {"work", "step", "second"})
        \union (IF timed \/ (kind.lower = "timeout" /\ n.fires < MaxFire) THEN {} ELSE {"src"})

(* The context polls when it is notified, poll() returns and wait futures    *)
(* complete; what is awaited happens.                                        *)
FairSpec ==
    /\ Spec
    /\ WF_vars((notified /\ PollItem) \/ Turn \/ WaitDone)
    /\ WF_vars(\E l \in Awaited : Happen(l))

-----------------------------------------------------------------------------
(* What the composed computation returns, from the elements h it heard.      *)

ThroughLower(e) ==
    IF <<kind.lower, e.t>> \in {<<"map", "ok">>, <<"map_err", "err">>} THEN Mapped(e) ELSE e

ThroughUpper(e) ==
    IF kind.upper = "then" \/ (kind.upper = "and_then" /\ e.t = "ok") THEN Worked(e) ELSE e

Yield(h) == [i \in DOMAIN h |-> ThroughUpper(ThroughLower(h[i]))]

\* Positions of the elements that end the computation with an error.
Failing(h) ==
    {i \in DOMAIN h : Yield(h)[i].t = "err" \/ (kind.cons = "fold" /\ Digit(Yield(h)[i].v) = 3)}

Consumption(h) ==
    IF Failing(h) # {}
    THEN LET e == Yield(h)[CHOOSE i \in Failing(h) : \A j \in Failing(h) : i <= j]
         IN  IF e.t = "err" THEN e ELSE Err(<<e.v[1] + 40>>)
    ELSE Ok(IF kind.cons = "fold" THEN [i \in DOMAIN h |-> Yield(h)[i].v[1]] ELSE <<>>)

Composition(h) ==
    LET r == Consumption(h) IN
    CASE kind.top \in {"none", "timeout"} -> r
      [] kind.top = "map" -> IF r.t = "ok" THEN Add(r, 60) ELSE r
      [] kind.top = "map_err" -> IF r.t = "err" THEN Add(r, 61) ELSE r
      [] kind.top = "from_err" -> IF r.t = "err" THEN Add(r, 62) ELSE r
      [] kind.top = "drop_err" -> IF r.t = "err" THEN Err(<<>>) ELSE r
      [] kind.top = "and_then" -> IF r.t = "ok" THEN Chained(r) ELSE r
      [] kind.top = "then" -> Chained(r)

\* Positions up to i of the elements of h that came from the source.
SourceUpTo(h, i) == {j \in 1..i : h[j] # TimedOut}

\* What came from the source, in its order, is all of s.
Exhausts(h, s) ==
    /\ Len(s) = Cardinality(SourceUpTo(h, Len(h)))
    /\ \A i \in SourceUpTo(h, Len(h)) : s[Cardinality(SourceUpTo(h, i))] = h[i]

\* Positions up to i of the elements of h that are no errors.
OkUpTo(h, i) == {j \in 1..i : h[j].t = "ok"}

\* g holds the values of the elements of h that are no errors, in their order.
Delivered(h, g) ==
    /\ Len(g) = Cardinality(OkUpTo(h, Len(h)))
    /\ \A i \in OkUpTo(h, Len(h)) : g[Cardinality(OkUpTo(h, i))] = h[i].v[1]

(* fut/*.rs, stream.rs, contextitems.rs: whatever the order in which the     *)
(* leaves become ready, the composed future returns what the composition of  *)
(* the closures over the source's elements is: no element is lost, given     *)
(* twice or out of order to a closure or a handler, an error ends the        *)
(* computation at once, and success means that the source has ended.         *)
ResultCorrect ==
    pc = "done" /\ kind.cons \in Consumers =>
        \/ result = TimedOut /\ kind.top = "timeout" /\ n.ready["limit"]
        \/ /\ result = Composition(n.heard)
           /\ Failing(n.heard) \subseteq {Len(n.heard)}
           /\ Failing(n.heard) = {} => Exhausts(n.heard, script)

(* stream.rs:118-139, contextitems.rs, utils.rs: the handler of the actor is *)
(* given every element, in order and once, however often the item is         *)
(* suspended because the actor waits; the item ends with the source, or with *)
(* the first error that error() answers with Stop.  The loop of a stream     *)
(* item does not go on while the actor waits, but for a wait that started()  *)
(* or error() called in that very poll; what is to be given later is not     *)
(* given before its timer has fired.                                         *)
HandledInOrder ==
    kind.cons \in StreamItems \union Notices =>
        /\ Delivered(n.heard, n.handled)
        /\ pc = "done" => n.heard = script \/ (kind.cons = "stream" /\ n.heard[Len(n.heard)].t = "err")
        /\ kind.cons = "stream" => \A i \in DOMAIN n.heard : n.heard[i].t = "err" => pc = "done" /\ i = Len(n.heard)
        /\ pc = "loop" /\ waiting => n.early
        /\ kind.cons \in {"notify_later", "run_later"} /\ n.handled # <<>> => n.ready["limit"]

(* The panics of fut/ ("cannot poll a chained future twice", "cannot poll    *)
(* Fold twice", "cannot poll Map twice", "cannot poll Result twice"): no     *)
(* leaf is polled after it returned its last result and no combinator after  *)
(* it is used up; the message of an item is taken once.                      *)
PolledOnce == ~n.again /\ ~(pc = "loop" /\ n.fold = "empty")

(* A composed future never sleeps unregistered: it completes when its leaves *)
(* do, and a timeout ends it although the source stays silent.               *)
Completes == <>(pc = "done")

(* actor.rs:237 says of wait(): "Stop processing any of incoming events      *)
(* until this future resolves."  No element is handled while the actor       *)
(* waits.  A wait() in started() or in error() breaks it: the loop looks at  *)
(* ctx.waiting() only after handle().                                        *)
HandledWhileRunning == [][n'.handled # n.handled => ~waiting]_vars
=============================================================================
