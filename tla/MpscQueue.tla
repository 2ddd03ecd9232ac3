------------------------------ MODULE MpscQueue ------------------------------
(***************************************************************************)
(* The intrusive linked-list queue of src/src/address/queue.rs: many       *)
(* pushers, one popper, no lock.  A push allocates a node, swaps it into   *)
(* `head` and only then links it behind its predecessor, so between the    *)
(* two steps the list is broken.  The popper walks from `tail`, frees the  *)
(* node it leaves behind, and must neither free a node some pusher is      *)
(* still going to write to nor lose the part behind a gap.                 *)
(*                                                                         *)
(* Addresses come from a finite set and are reused as soon as the          *)
(* allocator has them back, so an ABA confusion of addresses would show.   *)
(***************************************************************************)
EXTENDS Integers, Sequences

CONSTANTS
    Pusher,     \* threads that push
    Addr,       \* heap addresses a node can be given
    Value,      \* values pushed
    Null,       \* the null pointer
    None        \* Option::None of Node::value

ASSUME PointerAssumption == Null \notin Addr /\ None \notin Value
ASSUME AddrAssumption == Addr # {}

VARIABLES
    head,       \* Queue::head
    tail,       \* Queue::tail
    next,       \* Node::next, per address
    value,      \* Node::value, per address
    live,       \* addresses of nodes that are allocated
    pc,         \* where each pusher is inside push()
    node,       \* push(): its local `n`
    prev,       \* push(): its local `prev`
    popPc,      \* where the popper is inside pop() or drop()
    ret,        \* what the last pop() returned
    cur,        \* drop(): its local `cur`
    chain       \* history: the nodes from tail to head in swap order

vars == <<head, tail, next, value, live, pc, node, prev, popPc, ret, cur, chain>>

Data(v) == [kind |-> "Data", val |-> v]
Result(k) == [kind |-> k]

\* Queue::new: one stub node without a value, at some address.
Init ==
    /\ \E stub \in Addr :
        /\ head = stub
        /\ tail = stub
        /\ live = {stub}
        /\ chain = <<stub>>
    /\ next = [a \in Addr |-> Null]
    /\ value = [a \in Addr |-> None]
    /\ pc = [p \in Pusher |-> "idle"]
    /\ node = [p \in Pusher |-> Null]
    /\ prev = [p \in Pusher |-> Null]
    /\ popPc = "idle"
    /\ ret = Result("none")
    /\ cur = Null

-----------------------------------------------------------------------------
(* push *)

\* Node::new(Some(t)) at any address the allocator has free.
PushAlloc(p, v) ==
    /\ pc[p] = "idle"
    /\ popPc \in {"idle", "head"}
    /\ \E n \in Addr \ live :
        /\ live' = live \union {n}
        /\ next' = [next EXCEPT ![n] = Null]
        /\ value' = [value EXCEPT ![n] = v]
        /\ node' = [node EXCEPT ![p] = n]
    /\ pc' = [pc EXCEPT ![p] = "swap"]
    /\ UNCHANGED <<head, tail, prev, popPc, ret, cur, chain>>

\* head.swap(n)
PushSwap(p) ==
    /\ pc[p] = "swap"
    /\ prev' = [prev EXCEPT ![p] = head]
    /\ head' = node[p]
    /\ chain' = Append(chain, node[p])
    /\ pc' = [pc EXCEPT ![p] = "link"]
    /\ UNCHANGED <<tail, next, value, live, node, popPc, ret, cur>>

\* The predecessor is never linked.
MutantPushNoLink(p) ==
    /\ pc[p] = "link"
    /\ pc' = [pc EXCEPT ![p] = "idle"]
    /\ node' = [node EXCEPT ![p] = Null]
    /\ prev' = [prev EXCEPT ![p] = Null]
    /\ UNCHANGED <<head, tail, next, value, live, popPc, ret, cur, chain>>

\* (*prev).next.store(n); push returns and its locals are gone.
PushLink(p) ==
    /\ pc[p] = "link"
    /\ next' = [next EXCEPT ![prev[p]] = node[p]]
    /\ pc' = [pc EXCEPT ![p] = "idle"]
    /\ node' = [node EXCEPT ![p] = Null]
    /\ prev' = [prev EXCEPT ![p] = Null]
    /\ UNCHANGED <<head, tail, value, live, popPc, ret, cur, chain>>

-----------------------------------------------------------------------------
(* pop, called by one thread at a time *)

\* The wrong one of the two nodes is freed.
MutantPopFreesNext ==
    /\ popPc = "idle"
    /\ next[tail] # Null
    /\ LET nx == next[tail] IN
        /\ tail' = nx
        /\ ret' = Data(value[nx])
        /\ value' = [value EXCEPT ![nx] = None]
        /\ live' = live \ {nx}
    /\ chain' = Tail(chain)
    /\ UNCHANGED <<head, next, pc, node, prev, popPc, cur>>

\* The first load finds a successor: advance, take its value, free the old
\* tail.  Only the popper touches these cells from here on, so the load and
\* what follows it are one step.
PopData ==
    /\ popPc = "idle"
    /\ next[tail] # Null
    /\ LET nx == next[tail] IN
        /\ tail' = nx
        /\ ret' = Data(value[nx])
        /\ value' = [value EXCEPT ![nx] = None]
        /\ live' = live \ {tail}
    /\ chain' = Tail(chain)
    /\ UNCHANGED <<head, next, pc, node, prev, popPc, cur>>

\* The first load finds no successor.
PopNull ==
    /\ popPc = "idle"
    /\ next[tail] = Null
    /\ popPc' = "head"
    /\ UNCHANGED <<head, tail, next, value, live, pc, node, prev, ret, cur, chain>>

\* Empty is decided from the tail's link alone.
MutantPopHead ==
    /\ popPc = "head"
    /\ popPc' = "idle"
    /\ ret' = IF next[tail] = Null THEN Result("Empty") ELSE Result("Inconsistent")
    /\ UNCHANGED <<head, tail, next, value, live, pc, node, prev, cur, chain>>

\* The second load, of head, tells an empty queue from a gap.
PopHead ==
    /\ popPc = "head"
    /\ popPc' = "idle"
    /\ ret' = IF head = tail THEN Result("Empty") ELSE Result("Inconsistent")
    /\ UNCHANGED <<head, tail, next, value, live, pc, node, prev, cur, chain>>

-----------------------------------------------------------------------------
(* drop: the last Arc of the channel is gone, so no call is in progress, and *)
(* the popper does not give up on an Inconsistent queue.                     *)

DropQueue ==
    /\ popPc = "idle"
    /\ ret # Result("Inconsistent")
    /\ \A p \in Pusher : pc[p] = "idle"
    /\ popPc' = "drop"
    /\ cur' = tail
    /\ UNCHANGED <<head, tail, next, value, live, pc, node, prev, ret, chain>>

\* One turn of the loop: read the successor, free the node, move on.
DropNode ==
    /\ popPc = "drop"
    /\ cur # Null
    /\ live' = live \ {cur}
    /\ cur' = next[cur]
    /\ UNCHANGED <<head, tail, next, value, pc, node, prev, popPc, ret, chain>>

DropEnd ==
    /\ popPc = "drop"
    /\ cur = Null
    /\ popPc' = "dropped"
    /\ UNCHANGED <<head, tail, next, value, live, pc, node, prev, ret, cur, chain>>

\* Nothing is left to run once the queue is gone.
Gone == popPc = "dropped" /\ UNCHANGED vars

Next ==
    \/ \E p \in Pusher :
        \/ \E v \in Value : PushAlloc(p, v)
        \/ PushSwap(p)
        \/ PushLink(p)
    \/ PopData \/ PopNull \/ PopHead
    \/ DropQueue \/ DropNode \/ DropEnd
    \/ Gone

Spec == Init /\ [][Next]_vars

\* A preempted pusher is scheduled again; a pop that has begun finishes, and
\* every caller of pop() calls again after Inconsistent (the loops with
\* thread::yield_now in sync_channel.rs).
Fairness ==
    /\ \A p \in Pusher : WF_vars(PushSwap(p)) /\ WF_vars(PushLink(p))
    /\ WF_vars(PopHead)
    /\ WF_vars(ret = Result("Inconsistent") /\ (PopData \/ PopNull))
    /\ WF_vars(DropNode) /\ WF_vars(DropEnd)

FairSpec == Spec /\ Fairness

-----------------------------------------------------------------------------
(* Properties *)

Results == [kind : {"Data"}, val : Value] \union [kind : {"none", "Empty", "Inconsistent"}]

\* Type correctness of the queue and of the locals of push, pop and drop.
TypeOK ==
    /\ head \in Addr
    /\ tail \in Addr
    /\ next \in [Addr -> Addr \union {Null}]
    /\ value \in [Addr -> Value \union {None}]
    /\ live \in SUBSET Addr
    /\ pc \in [Pusher -> {"idle", "swap", "link"}]
    /\ node \in [Pusher -> Addr \union {Null}]
    /\ prev \in [Pusher -> Addr \union {Null}]
    /\ popPc \in {"idle", "head", "drop", "dropped"}
    /\ ret \in Results
    /\ cur \in Addr \union {Null}
    /\ chain \in Seq(Addr)

\* The shape of the list.  `chain` runs without repetition from tail to head.
EndsOK ==
    /\ Len(chain) > 0
    /\ chain[1] = tail
    /\ chain[Len(chain)] = head
    /\ \A i, j \in 1..Len(chain) : chain[i] = chain[j] => i = j

\* A node points at its successor, or some pusher is about to make it do so.
LinksOK ==
    /\ next[chain[Len(chain)]] = Null
    /\ \A i \in 1..(Len(chain) - 1) :
        \/ next[chain[i]] = chain[i + 1]
        \/ /\ next[chain[i]] = Null
           /\ \E p \in Pusher : pc[p] = "link" /\ prev[p] = chain[i] /\ node[p] = chain[i + 1]

\* Only the node at the tail has lost its value.
ValuesOK ==
    /\ value[chain[1]] = None
    /\ \A i \in 2..Len(chain) : value[chain[i]] \in Value

\* A pusher owns the node it allocated until it swaps it in, and from then on
\* the link behind its predecessor.
PushersOK ==
    /\ \A p \in Pusher : pc[p] = "swap" =>
        /\ node[p] \in Addr
        /\ \A i \in 1..Len(chain) : chain[i] # node[p]
        /\ next[node[p]] = Null
        /\ value[node[p]] \in Value
    /\ \A p \in Pusher : pc[p] = "link" =>
        \E i \in 1..(Len(chain) - 1) :
            prev[p] = chain[i] /\ node[p] = chain[i + 1] /\ next[chain[i]] = Null
    /\ \A p, q \in Pusher : p # q /\ pc[p] # "idle" /\ pc[q] # "idle" => node[p] # node[q]

\* Exactly the nodes of the chain from the k-th on are allocated.
StillThere(k) ==
    /\ \A i \in k..Len(chain) : chain[i] \in live
    /\ \A a \in live : \E i \in k..Len(chain) : a = chain[i]

\* What is allocated: the list and the nodes not yet swapped in; while the
\* queue is dropped, what drop() has still to visit.
HeapOK ==
    /\ popPc \in {"idle", "head"} =>
        /\ \A i \in 1..Len(chain) : chain[i] \in live
        /\ \A p \in Pusher : pc[p] = "swap" => node[p] \in live
        /\ \A a \in live :
            \/ \E i \in 1..Len(chain) : a = chain[i]
            \/ \E p \in Pusher : pc[p] = "swap" /\ a = node[p]
    /\ popPc \in {"drop", "dropped"} => \A p \in Pusher : pc[p] = "idle"
    /\ popPc = "drop" =>
        \/ cur = Null /\ live = {}
        \/ \E k \in 1..Len(chain) : cur = chain[k] /\ StillThere(k)
    /\ popPc = "dropped" => live = {}

\* The inductive invariant of the queue.
ListInv == EndsOK /\ LinksOK /\ ValuesOK /\ PushersOK /\ HeapOK

\* No thread is about to dereference memory that was freed: a pusher between
\* its swap and its store holds a live predecessor, the popper's tail is
\* live, a successor it reaches is live, and drop() visits live nodes.
NoUseAfterFree ==
    /\ \A p \in Pusher : pc[p] = "link" => prev[p] \in live
    /\ popPc \in {"idle", "head"} =>
        /\ tail \in live
        /\ next[tail] # Null => next[tail] \in live
    /\ popPc = "drop" /\ cur # Null => cur \in live

\* The two assert!s of pop() never fail: the node left behind has no value
\* and the node reached has one.
PopAsserts ==
    popPc \in {"idle", "head"} /\ next[tail] # Null =>
        value[tail] = None /\ value[next[tail]] # None

\* drop() walks the list to its end: every node, with the value in it, is
\* freed.
NothingLeaks == popPc = "dropped" => live = {}

\* push, pop and drop implement the atomic FIFO queue: a push takes effect at
\* its swap and a pop at the load that decides its result.
contents == [i \in 1..(Len(chain) - 1) |-> value[chain[i + 1]]]
Dropping == popPc \in {"drop", "dropped"}
absQueue == IF Dropping THEN <<>> ELSE contents
Fifo == INSTANCE FifoQueue WITH queue <- absQueue, dropped <- Dropping
ImplementsFifo == Fifo!Spec

\* A consumer that spins on Inconsistent gets its value: the gap a preempted
\* pusher leaves is closed, and behind a closed gap pop() returns Data.
InconsistentEnds == (ret = Result("Inconsistent")) ~> (ret.kind = "Data")

=============================================================================
