-------------------------- MODULE ActorContextProofs --------------------------
(***************************************************************************)
(* Proofs about ActorContext for any number of futures, addresses and       *)
(* messages, and any actor that keeps to the conditions a theorem states of  *)
(* its callbacks.                                                            *)
(***************************************************************************)
EXTENDS ActorContext, SequenceTheorems, TLAPS

-----------------------------------------------------------------------------
(* Conditions on an actor.  Each one is necessary: TLC refutes the property   *)
(* of a theorem that assumes it when it is left out.                          *)

\* A future given to wait() does not wait (MCActorContextNested).
WaitsAreFlat == "wait" \notin MayCall["waitfut"]

\* A spawned future does not cancel futures (MCActorContextCancel).
ItemsDoNotCancel == "cancel" \notin MayCall["item"]

\* stopping() answers, and does not itself terminate the context nor stop a
\* running one.
StoppingOnlyAnswers ==
    MayCall["askDrained"] \cap {"stop", "terminate"} = {} /\ "terminate" \notin MayCall["askStop"]

\* stopping() gives a drained context nothing new (MCActorContextRestore).
StoppingAddsNothing == MayCall["askDrained"] \cap {"spawn", "wait", "address"} = {}

-----------------------------------------------------------------------------
(* Inductive invariants *)

\* A queue never holds more than was sent, and polling is polling a future.
TypeInv ==
    /\ TypeOK
    /\ \A c \in Channel : queue[c] <= sent
    /\ pc \in {"waitfut", "item"} => cur \in Fut

\* The loop over items starts, and goes on, only without wait futures.
PauseInv == pc = "items" /\ ~Stopping => wait = <<>>

\* The item being polled is the one at the index of the loop.
ItemInv == pc = "item" => idx \in DOMAIN items /\ items[idx].f = cur

\* The future waited for that is being polled is the last one.
WaitInv == pc = "waitfut" => wait # <<>> /\ wait[Len(wait)] = cur

\* The context holds every future once, and none that has completed.
DistinctItems == \A i, j \in DOMAIN items : items[i].f = items[j].f => i = j
DistinctWaits == \A i, j \in DOMAIN wait : wait[i] = wait[j] => i = j
FutureInv ==
    /\ DistinctItems /\ DistinctWaits
    /\ ItemFuts \cap WaitFuts = {}
    /\ completed \cap (ItemFuts \cup WaitFuts) = {}

\* The context is in one of the states RUNNING, STOPPING and STOPPED.
FlagsInv ==
    /\ flags \cap {"RUNNING", "STOPPING", "STOPPED"} # {}
    /\ "RUNNING" \in flags => ~Stopping
    /\ "STOPPING" \in flags => "STOPPED" \notin flags

\* The flags agree with the place in the actor's life.
LifeInv ==
    /\ pc \in {"create", "restarting"} => "STARTED" \notin flags
    /\ pc \notin {"create", "idle", "restarting"} /\ "STOPPED" \notin flags => "STARTED" \in flags
    /\ pc = "askDrained" => "RUNNING" \in flags
    /\ pc = "askStop" => "STOPPING" \in flags
    /\ pc = "stopped" => "STOPPED" \in flags

\* A channel has nothing for the context, or has woken it, or will.
Settled(c) == notified \/ (queue[c] = 0 /\ (addrs[c] > 0 => parked[c]))

\* A pass over the context that nothing has modified.
CleanPass == pc \in {"items", "item", "check"} /\ ~Stopping /\ "MODIFIED" \notin flags

\* A future that is owed a poll is in the context.
OwedInv == owed \subseteq ItemFuts \cup WaitFuts

\* A channel not yet made is empty and has no addresses.
ChannelInv == hasSync \/ (addrs["sync"] = 0 /\ queue["sync"] = 0 /\ chan = "unsync")

\* Mailbox::poll looks at the second channel only when the first is settled,
\* or comes back to it.
MailboxInv ==
    /\ pc = "mailbox" /\ chan = "sync" /\ notReady => Settled("unsync")
    /\ pc = "handler" => ~notReady

\* The future being polled is not owed a poll, and a new task has been notified.
PolledInv == (pc = "waitfut" => cur \notin owed) /\ (pc = "create" => notified)

\* What a clean pass has settled when it is at the item of its index.
CleanInv ==
    CleanPass => /\ wait = <<>>
                 /\ \A c \in Channel : Settled(c)
                 /\ \A i \in DOMAIN items : i < idx => items[i].f \notin owed
                 /\ pc = "item" => idx \in DOMAIN items /\ items[idx].f \notin owed
                 /\ pc = "check" => owed = {}

\* A context that asks a drained actor is idle otherwise.
DrainedInv == pc = "askDrained" => wait = <<>> /\ owed = {} /\ \A c \in Channel : Settled(c)

-----------------------------------------------------------------------------
(* Facts about the operators of the model *)

\* What a push does.
LEMMA AppendFacts ==
    ASSUME NEW S, NEW q \in Seq(S), NEW x \in S
    PROVE  /\ Append(q, x) \in Seq(S) /\ Append(q, x) # <<>>
           /\ Len(q) \in Nat /\ DOMAIN q = 1..Len(q)
           /\ DOMAIN Append(q, x) = DOMAIN q \union {Len(q) + 1} /\ Len(q) + 1 \notin DOMAIN q
           /\ \A i \in DOMAIN q : Append(q, x)[i] = q[i]
           /\ Append(q, x)[Len(q) + 1] = x
  OBVIOUS

\* The last element of a sequence.
LEMMA LastFacts ==
    ASSUME NEW S, NEW q \in Seq(S), q # <<>>
    PROVE  Len(q) \in Nat \ {0} /\ DOMAIN q = 1..Len(q) /\ Len(q) \in DOMAIN q /\ q[Len(q)] \in S
  <1>1. Len(q) \in Nat /\ Len(q) # 0 /\ DOMAIN q = 1..Len(q)
    OBVIOUS
  <1>2. Len(q) \in DOMAIN q
    BY <1>1
  <1> QED
    BY <1>1, <1>2

\* Vec::pop: the last element leaves.
LEMMA PopFacts ==
    ASSUME NEW S, NEW q \in Seq(S), q # <<>>
    PROVE  /\ SubSeq(q, 1, Len(q) - 1) \in Seq(S)
           /\ DOMAIN SubSeq(q, 1, Len(q) - 1) = DOMAIN q \ {Len(q)}
           /\ \A i \in DOMAIN q \ {Len(q)} : SubSeq(q, 1, Len(q) - 1)[i] = q[i]
  <1>1. Len(q) \in Nat \ {0} /\ DOMAIN q = 1..Len(q)
    BY LastFacts
  <1>2. \A i \in 1..(Len(q) - 1) : q[i] \in S
    BY <1>1
  <1>3. /\ SubSeq(q, 1, Len(q) - 1) \in Seq(S)
        /\ Len(SubSeq(q, 1, Len(q) - 1)) = IF 1 <= Len(q) - 1 THEN Len(q) - 1 - 1 + 1 ELSE 0
        /\ \A i \in 1..(Len(q) - 1 - 1 + 1) : SubSeq(q, 1, Len(q) - 1)[i] = q[1 + i - 1]
    BY <1>1, <1>2, SubSeqProperties
  <1>4. Len(SubSeq(q, 1, Len(q) - 1)) = Len(q) - 1
    BY <1>1, <1>3
  <1>5. DOMAIN SubSeq(q, 1, Len(q) - 1) = 1..(Len(q) - 1)
    BY <1>3, <1>4
  <1>6. 1..(Len(q) - 1) = DOMAIN q \ {Len(q)}
    BY <1>1
  <1>7. \A i \in 1..(Len(q) - 1) : SubSeq(q, 1, Len(q) - 1)[i] = q[i]
    BY <1>1, <1>3
  <1> QED
    BY <1>3, <1>5, <1>6, <1>7

\* SmallVec::swap_remove: the last element takes the place of the removed one.
LEMMA SwapRemoveFacts ==
    ASSUME NEW S, NEW q \in Seq(S), NEW i \in DOMAIN q
    PROVE  /\ SwapRemove(q, i) \in Seq(S)
           /\ Len(q) \in Nat \ {0} /\ DOMAIN q = 1..Len(q)
           /\ DOMAIN SwapRemove(q, i) = DOMAIN q \ {Len(q)}
           /\ \A j \in DOMAIN q \ {Len(q)} :
                 SwapRemove(q, i)[j] = IF j = i THEN q[Len(q)] ELSE q[j]
  <1>1. q # <<>>
    OBVIOUS
  <1>2. Len(q) \in Nat \ {0} /\ DOMAIN q = 1..Len(q) /\ q[Len(q)] \in S
    BY <1>1, LastFacts
  <1> DEFINE t == [q EXCEPT ![i] = q[Len(q)]]
  <1>3. t \in Seq(S) /\ Len(t) = Len(q) /\ DOMAIN t = DOMAIN q
        /\ \A j \in DOMAIN q : t[j] = IF j = i THEN q[Len(q)] ELSE q[j]
    BY <1>2
  <1>4. SwapRemove(q, i) = SubSeq(t, 1, Len(t) - 1)
    BY <1>3 DEF SwapRemove
  <1> HIDE DEF t
  <1>5. t # <<>>
    BY <1>2, <1>3
  <1>6. /\ SubSeq(t, 1, Len(t) - 1) \in Seq(S)
        /\ DOMAIN SubSeq(t, 1, Len(t) - 1) = DOMAIN t \ {Len(t)}
        /\ \A j \in DOMAIN t \ {Len(t)} : SubSeq(t, 1, Len(t) - 1)[j] = t[j]
    BY <1>3, <1>5, PopFacts
  <1> QED
    BY <1>2, <1>3, <1>4, <1>6

\* SmallVec::swap with the last element permutes the elements.
LEMMA SwapLastFacts ==
    ASSUME NEW S, NEW q \in Seq(S), NEW i \in DOMAIN q
    PROVE  /\ SwapLast(q, i) \in Seq(S)
           /\ Len(q) \in DOMAIN q /\ DOMAIN SwapLast(q, i) = DOMAIN q
           /\ SwapLast(q, i)[i] = q[Len(q)] /\ SwapLast(q, i)[Len(q)] = q[i]
           /\ \A j \in DOMAIN q : j # i /\ j # Len(q) => SwapLast(q, i)[j] = q[j]
  <1>1. q # <<>>
    OBVIOUS
  <1>2. Len(q) \in Nat \ {0} /\ DOMAIN q = 1..Len(q) /\ q[Len(q)] \in S /\ Len(q) \in DOMAIN q
    BY <1>1, LastFacts
  <1> QED
    BY <1>2 DEF SwapLast

-----------------------------------------------------------------------------
(* Facts about the futures the context holds *)

Item == [h : 1..MaxHandle, f : Fut]

\* The types of the context's own state, for the steps that need no more.
LEMMA ContextTypes ==
    TypeInv => /\ wait \in Seq(Fut) /\ items \in Seq(Item) /\ handle \in 0..MaxHandle
               /\ flags \subseteq Flag /\ idx \in Nat \ {0} /\ cur \in Fut \cup {0}
               /\ owed \subseteq Fut /\ completed \subseteq Fut
  BY DEF TypeInv, TypeOK, Item

\* An item at an index of the loop.
LEMMA ElementFacts ==
    ASSUME items \in Seq(Item), idx \in Nat \ {0}, idx <= Len(items)
    PROVE  idx \in DOMAIN items /\ items[idx] \in Item /\ items[idx].f \in Fut
  <1>1. idx \in DOMAIN items
    OBVIOUS
  <1>2. items[idx] \in Item
    BY <1>1
  <1> QED
    BY <1>1, <1>2 DEF Item

\* Membership, in both states.
LEMMA Members ==
    /\ \A f : f \in ItemFuts <=> \E i \in DOMAIN items : f = items[i].f
    /\ \A f : f \in ItemFuts' <=> \E i \in DOMAIN items' : f = items'[i].f
    /\ \A f : f \in WaitFuts <=> \E i \in DOMAIN wait : f = wait[i]
    /\ \A f : f \in WaitFuts' <=> \E i \in DOMAIN wait' : f = wait'[i]
  BY DEF ItemFuts, WaitFuts

\* A future added to the items.
LEMMA ItemAdded ==
    ASSUME items \in Seq(Item), NEW x \in Item, items' = Append(items, x)
    PROVE  items' \in Seq(Item) /\ ItemFuts' = ItemFuts \cup {x.f}
  <1>1. PICK n : n = Len(items) + 1
    OBVIOUS
  <1>2. /\ items' \in Seq(Item) /\ DOMAIN items' = DOMAIN items \cup {n}
        /\ \A i \in DOMAIN items : items'[i] = items[i]
        /\ items'[n] = x /\ n \notin DOMAIN items
    BY <1>1, AppendFacts
  <1> QED
    BY <1>2 DEF ItemFuts

\* swap_remove on the items.
LEMMA RemovedItems ==
    ASSUME items \in Seq(Item), NEW i \in DOMAIN items
    PROVE  /\ SwapRemove(items, i) \in Seq(Item) /\ Len(items) \in DOMAIN items
           /\ DOMAIN SwapRemove(items, i) = DOMAIN items \ {Len(items)}
           /\ \A j \in DOMAIN items \ {Len(items)} :
                 SwapRemove(items, i)[j] = IF j = i THEN items[Len(items)] ELSE items[j]
  <1>1. Len(items) \in DOMAIN items
    BY LastFacts
  <1> QED
    BY <1>1, SwapRemoveFacts

\* A future removed from the items.
LEMMA ItemRemoved ==
    ASSUME items \in Seq(Item), NEW i \in DOMAIN items, items' = SwapRemove(items, i)
    PROVE  /\ items' \in Seq(Item)
           /\ ItemFuts' \subseteq ItemFuts /\ ItemFuts \subseteq ItemFuts' \cup {items[i].f}
  <1>1. PICK n : n = Len(items)
    OBVIOUS
  <1>2. /\ items' \in Seq(Item) /\ n \in DOMAIN items /\ DOMAIN items' = DOMAIN items \ {n}
        /\ \A j \in DOMAIN items \ {n} : items'[j] = IF j = i THEN items[n] ELSE items[j]
    BY <1>1, RemovedItems
  <1>3. \A j \in DOMAIN items' : \E k \in DOMAIN items : items'[j].f = items[k].f
    BY <1>2
  <1>6. ItemFuts' \subseteq ItemFuts
    BY <1>3 DEF ItemFuts
  <1>4. ASSUME NEW j \in DOMAIN items
        PROVE  items[j].f \in ItemFuts' \cup {items[i].f}
    <2>1. CASE j = i
      BY <2>1
    <2>2. CASE j # i /\ j = n
      BY <1>2, <2>2 DEF ItemFuts
    <2>3. CASE j # i /\ j # n
      BY <1>2, <2>3 DEF ItemFuts
    <2> QED
      BY <2>1, <2>2, <2>3
  <1>5. ItemFuts \subseteq ItemFuts' \cup {items[i].f}
    BY <1>4 DEF ItemFuts
  <1> QED
    BY <1>2, <1>5, <1>6

\* A future moved to the end of the items.
LEMMA ItemMoved ==
    ASSUME items \in Seq(Item), NEW i \in DOMAIN items, items' = SwapLast(items, i)
    PROVE  items' \in Seq(Item) /\ ItemFuts' = ItemFuts
  <1>1. PICK n : n = Len(items)
    OBVIOUS
  <1>2. /\ items' \in Seq(Item) /\ n \in DOMAIN items /\ DOMAIN items' = DOMAIN items
        /\ items'[i] = items[n] /\ items'[n] = items[i]
        /\ \A j \in DOMAIN items : j # i /\ j # n => items'[j] = items[j]
    BY <1>1, SwapLastFacts
  <1>3. \A j \in DOMAIN items : \E k \in DOMAIN items' : items'[k] = items[j]
    BY <1>2
  <1>4. \A j \in DOMAIN items' : \E k \in DOMAIN items : items[k] = items'[j]
    BY <1>2
  <1>5. ItemFuts' \subseteq ItemFuts
    BY <1>4 DEF ItemFuts
  <1>6. ItemFuts \subseteq ItemFuts'
    BY <1>3 DEF ItemFuts
  <1> QED
    BY <1>2, <1>5, <1>6

\* A future added to those waited for.
LEMMA WaitAdded ==
    ASSUME wait \in Seq(Fut), NEW x \in Fut, wait' = Append(wait, x)
    PROVE  wait' \in Seq(Fut) /\ WaitFuts' = WaitFuts \cup {x}
  <1>1. PICK n : n = Len(wait) + 1
    OBVIOUS
  <1>2. /\ wait' \in Seq(Fut) /\ DOMAIN wait' = DOMAIN wait \cup {n}
        /\ \A i \in DOMAIN wait : wait'[i] = wait[i]
        /\ wait'[n] = x /\ n \notin DOMAIN wait
    BY <1>1, AppendFacts
  <1> QED
    BY <1>2 DEF WaitFuts

\* The future last waited for removed.
LEMMA WaitRemoved ==
    ASSUME wait \in Seq(Fut), wait # <<>>, wait' = SubSeq(wait, 1, Len(wait) - 1)
    PROVE  /\ wait' \in Seq(Fut)
           /\ WaitFuts' \subseteq WaitFuts /\ WaitFuts \subseteq WaitFuts' \cup {wait[Len(wait)]}
  <1>1. PICK n : n = Len(wait)
    OBVIOUS
  <1>2. /\ wait' \in Seq(Fut) /\ n \in DOMAIN wait /\ DOMAIN wait' = DOMAIN wait \ {n}
        /\ \A j \in DOMAIN wait \ {n} : wait'[j] = wait[j]
    BY <1>1, PopFacts, LastFacts
  <1>3. WaitFuts' \subseteq WaitFuts
    BY <1>2 DEF WaitFuts
  <1>4. WaitFuts \subseteq WaitFuts' \cup {wait[n]}
    BY <1>2 DEF WaitFuts
  <1> QED
    BY <1>1, <1>2, <1>3, <1>4

-----------------------------------------------------------------------------
(* Types *)

\* The bound on all addresses is one for those of a channel.
LEMMA RoomForAddress ==
    ASSUME addrs \in [Channel -> 0..MaxAddr], addrs["unsync"] + addrs["sync"] < MaxAddr, NEW c \in Channel
    PROVE  addrs[c] \in 0..MaxAddr /\ addrs[c] < MaxAddr
  <1>1. addrs["unsync"] \in 0..MaxAddr /\ addrs["sync"] \in 0..MaxAddr /\ c \in {"unsync", "sync"}
    BY DEF Channel
  <1> QED
    BY <1>1, BoundAssumption

LEMMA TypeInit == Init => TypeInv
  <1> SUFFICES ASSUME Init PROVE TypeInv
    OBVIOUS
  <1>1. wait \in Seq(Fut) /\ items \in Seq([h : 1..MaxHandle, f : Fut])
    BY DEF Init
  <1>2. flags \subseteq Flag /\ pc \in Callbacks /\ pc \notin {"waitfut", "item"}
    BY DEF Init, Flag, Callbacks
  <1>3. /\ handle \in 0..MaxHandle /\ idx \in Nat \ {0} /\ cur \in Fut \cup {0}
        /\ chan \in Channel /\ notReady \in BOOLEAN /\ hasSync \in BOOLEAN
        /\ queue \in [Channel -> 0..MaxSend] /\ addrs \in [Channel -> 0..MaxAddr]
        /\ parked \in [Channel -> BOOLEAN] /\ notified \in BOOLEAN /\ sent \in 0..MaxSend
        /\ \A c \in Channel : queue[c] <= sent
    BY BoundAssumption DEF Init, Channel
  <1>4. owed \subseteq Fut /\ completed \subseteq Fut /\ restored \in BOOLEAN
    BY DEF Init
  <1> QED
    BY <1>1, <1>2, <1>3, <1>4 DEF TypeInv, TypeOK

\* The actor's calls.
LEMMA TypeCall == TypeInv /\ Call => TypeInv'
  <1> SUFFICES ASSUME TypeInv, Call PROVE TypeInv'
    OBVIOUS
  <1> USE BoundAssumption DEF TypeInv, TypeOK
  <1>1. CASE Spawn
    <2>1. PICK f \in Free : items' = Append(items, [h |-> handle + 1, f |-> f])
                            /\ owed' = owed \cup {f} /\ completed' = completed \ {f}
      BY <1>1 DEF Spawn
    <2>2. f \in Fut /\ handle + 1 \in 1..MaxHandle
      BY <1>1, <2>1 DEF Spawn, Free
    <2>3. items' \in Seq([h : 1..MaxHandle, f : Fut])
      BY <2>1, <2>2, ItemAdded DEF Item
    <2>4. flags' \subseteq Flag
      BY <1>1 DEF Spawn, Flag
    <2>5. handle' \in 0..MaxHandle /\ owed' \subseteq Fut /\ completed' \subseteq Fut
      BY <1>1, <2>1, <2>2 DEF Spawn
    <2> QED
      BY <1>1, <2>3, <2>4, <2>5 DEF Spawn, loopVars, mailVars
  <1>2. CASE Wait
    <2>1. PICK f \in Free : wait' = Append(wait, f)
                            /\ owed' = owed \cup {f} /\ completed' = completed \ {f}
      BY <1>2 DEF Wait
    <2>2. f \in Fut
      BY <2>1 DEF Free
    <2>3. wait' \in Seq(Fut)
      BY <2>1, <2>2, WaitAdded
    <2>4. flags' \subseteq Flag
      BY <1>2 DEF Wait, Flag
    <2>5. owed' \subseteq Fut /\ completed' \subseteq Fut
      BY <2>1, <2>2
    <2> QED
      BY <1>2, <2>3, <2>4, <2>5 DEF Wait, loopVars, mailVars
  <1>3. CASE CancelFuture
    <2>1. PICK i \in DOMAIN items : items' = SwapRemove(items, i) /\ owed' = owed \ {items[i].f}
      BY <1>3 DEF CancelFuture
    <2>2. items' \in Seq([h : 1..MaxHandle, f : Fut])
      BY <2>1, ItemRemoved DEF Item
    <2>3. flags' \subseteq Flag
      BY <1>3 DEF CancelFuture, Flag
    <2>4. owed' \subseteq Fut
      BY <2>1
    <2> QED
      BY <1>3, <2>2, <2>3, <2>4 DEF CancelFuture, loopVars, mailVars
  <1>4. CASE Stop \/ Terminate \/ SetMailboxCapacity
    <2>1. flags' \subseteq Flag
      BY <1>4 DEF Stop, Terminate, SetMailboxCapacity, Flag
    <2> QED
      BY <1>4, <2>1 DEF Stop, Terminate, SetMailboxCapacity, loopVars, mailVars, histVars
  <1>5. ASSUME NEW c \in Channel, Address(c) PROVE TypeInv'
    <2>1. flags' \subseteq Flag
      BY <1>5 DEF Address, Flag
    <2>2. hasSync' \in BOOLEAN /\ addrs' \in [Channel -> 0..MaxAddr]
      BY <1>5, RoomForAddress DEF Address
    <2> QED
      BY <1>5, <2>1, <2>2 DEF Address, loopVars, histVars
  <1> QED
    BY <1>1, <1>2, <1>3, <1>4, <1>5 DEF Call

\* The holders of addresses, and events.
LEMMA TypeEnvironment == TypeInv /\ Environment => TypeInv'
  <1> SUFFICES ASSUME TypeInv, Environment PROVE TypeInv'
    OBVIOUS
  <1> USE BoundAssumption DEF TypeInv, TypeOK
  <1>1. CASE Event
    BY <1>1 DEF Event, ctxVars, loopVars, mailVars, histVars
  <1>2. ASSUME NEW c \in Channel, Send(c) PROVE TypeInv'
    <2>1. sent' \in 0..MaxSend /\ sent' = sent + 1
      BY <1>2 DEF Send
    <2>2. /\ queue' \in [Channel -> 0..MaxSend] /\ \A d \in Channel : queue'[d] <= sent'
      BY <1>2, <2>1 DEF Send
    <2>3. parked' \in [Channel -> BOOLEAN] /\ notified' \in BOOLEAN
      BY <1>2 DEF Send
    <2> QED
      BY <1>2, <2>1, <2>2, <2>3 DEF Send, ctxVars, loopVars, histVars
  <1>3. ASSUME NEW c \in Channel, CloneAddress(c) PROVE TypeInv'
    <2>1. addrs' \in [Channel -> 0..MaxAddr]
      BY <1>3, RoomForAddress DEF CloneAddress
    <2> QED
      BY <1>3, <2>1 DEF CloneAddress, ctxVars, loopVars, histVars
  <1>4. ASSUME NEW c \in Channel, DropAddress(c) PROVE TypeInv'
    <2>1. addrs' \in [Channel -> 0..MaxAddr]
      BY <1>4 DEF DropAddress, Holder
    <2>2. parked' \in [Channel -> BOOLEAN] /\ notified' \in BOOLEAN
      BY <1>4 DEF DropAddress
    <2> QED
      BY <1>4, <2>1, <2>2 DEF DropAddress, ctxVars, loopVars, histVars
  <1> QED
    BY <1>1, <1>2, <1>3, <1>4 DEF Environment

\* The steps of poll().
LEMMA TypeLoop == TypeInv /\ Loop => TypeInv'
  <1> SUFFICES ASSUME TypeInv, Loop PROVE TypeInv'
    OBVIOUS
  <1> USE BoundAssumption DEF TypeInv, TypeOK
  <1>1. CASE Created \/ Outer \/ Restarted \/ Poll
    <2>1. /\ pc' \in Callbacks \cup {"idle", "outer", "wait"} /\ pc' \notin {"waitfut", "item"}
          /\ flags' \subseteq Flag
      BY <1>1 DEF Created, Outer, Restarted, Poll, Enter, Callbacks, Flag
    <2> QED
      BY <1>1, <2>1 DEF Created, Outer, Restarted, Poll, loopVars, mailVars, histVars
  <1>2. CASE Started \/ Handled \/ Check
    <2>1. pc' \in Callbacks \cup {"idle", "outer", "mailbox"}
      BY <1>2 DEF Started, Handled, Check, Callbacks
    <2> QED
      BY <1>2, <2>1 DEF Started, Handled, Check, ctxVars, loopVars, mailVars, histVars
  <1>3. CASE PollWait
    <2>1. pc' \in {"waitfut", "mailbox"}
      BY <1>3 DEF PollWait
    <2>4. "waitfut" \in Callbacks
      BY DEF Callbacks
    <2>2. cur' \in Fut \cup {0} /\ (pc' = "waitfut" => cur' \in Fut) /\ owed' \subseteq Fut
      BY <1>3, LastFacts DEF PollWait
    <2>3. chan' \in Channel /\ notReady' \in BOOLEAN
      BY <1>3 DEF PollWait, Channel
    <2> QED
      BY <1>3, <2>1, <2>2, <2>3, <2>4 DEF PollWait, ctxVars, mailVars
  <1>4. CASE WaitReady \/ WaitPending
    <2>1. pc' \in {"idle", "wait"} /\ cur' = 0 /\ owed' \subseteq Fut
      BY <1>4 DEF WaitReady, WaitPending, PopWait
    <2>2. wait' \in Seq(Fut)
      <3>1. wait' = wait \/ wait' = SubSeq(wait, 1, Len(wait) - 1)
        BY <1>4 DEF WaitReady, WaitPending, PopWait
      <3>2. CASE wait = <<>>
        <4>1. wait' = wait
          <5>1. Len(wait) = 0
            BY <3>2
          <5> QED
            BY <3>1, <3>2, <5>1, SubSeqEmpty
        <4> QED
          BY <4>1
      <3>3. CASE wait # <<>>
        BY <3>1, <3>3, WaitRemoved
      <3> QED
        BY <3>2, <3>3
    <2>3. completed' \subseteq Fut
      <3>1. CASE WaitPending
        BY <3>1 DEF WaitPending
      <3>2. CASE WaitReady
        BY <3>2 DEF WaitReady
      <3> QED
        BY <1>4, <3>1, <3>2
    <2> QED
      BY <1>4, <2>1, <2>2, <2>3 DEF WaitReady, WaitPending, mailVars
  <1>5. CASE Mailbox
    <2>1. /\ pc' \in Callbacks \cup {"outer", "items", "mailbox"} /\ pc' \notin {"waitfut", "item"}
          /\ idx' \in Nat \ {0}
      BY <1>5 DEF Mailbox, LeaveMailbox, Callbacks
    <2>2. chan' \in Channel /\ notReady' \in BOOLEAN
      BY <1>5 DEF Mailbox, Channel
    <2>3. queue' \in [Channel -> 0..MaxSend] /\ \A c \in Channel : queue'[c] <= sent
      <3>1. CASE UNCHANGED queue
        BY <3>1
      <3>2. CASE queue[chan] > 0 /\ queue' = [queue EXCEPT ![chan] = @ - 1]
        <4>1. /\ queue[chan] - 1 \in 0..MaxSend /\ queue[chan] - 1 <= sent
          BY <3>2
        <4>2. \A c \in Channel : queue'[c] = IF c = chan THEN queue[chan] - 1 ELSE queue[c]
          BY <3>2
        <4>3. queue' \in [Channel -> 0..MaxSend]
          BY <3>2, <4>1
        <4> QED
          BY <4>1, <4>2, <4>3
      <3> QED
        BY <1>5, <3>1, <3>2 DEF Mailbox
    <2>4. parked' \in [Channel -> BOOLEAN]
      BY <1>5 DEF Mailbox
    <2> QED
      BY <1>5, <2>1, <2>2, <2>3, <2>4 DEF Mailbox, ctxVars, histVars
  <1>6. CASE PollItem
    <2>1. pc' \in {"item", "check"}
      BY <1>6 DEF PollItem
    <2>4. "item" \in Callbacks
      BY DEF Callbacks
    <2>2. cur' \in Fut \cup {0} /\ (pc' = "item" => cur' \in Fut) /\ owed' \subseteq Fut
      <3>1. CASE idx <= Len(items)
        <4>1. items \in Seq(Item) /\ idx \in Nat \ {0}
          BY ContextTypes
        <4>2. items[idx].f \in Fut
          BY <3>1, <4>1, ElementFacts
        <4> QED
          BY <1>6, <4>2 DEF PollItem
      <3>2. CASE ~(idx <= Len(items))
        BY <1>6, <3>2 DEF PollItem
      <3> QED
        BY <3>1, <3>2
    <2> QED
      BY <1>6, <2>1, <2>2, <2>4 DEF PollItem, ctxVars, mailVars
  <1>7. CASE ItemPending
    <2>1. pc' \in {"outer", "items", "panicked"} /\ cur' = 0 /\ idx' \in Nat \ {0}
      BY <1>7 DEF ItemPending
    <2>2. items' \in Seq([h : 1..MaxHandle, f : Fut])
      <3>1. items' = items \/ (idx \in DOMAIN items /\ items' = SwapLast(items, idx))
        BY <1>7 DEF ItemPending
      <3> QED
        BY <3>1, ItemMoved DEF Item
    <2>3. owed' \subseteq Fut
      <3>1. CASE owed' = owed
        BY <3>1
      <3>2. CASE cur \in ItemFuts /\ owed' = owed \cup {cur}
        <4>1. cur \in Fut
          BY <1>7 DEF ItemPending
        <4> QED
          BY <3>2, <4>1
      <3> QED
        BY <1>7, <3>1, <3>2 DEF ItemPending
    <2> QED
      BY <1>7, <2>1, <2>2, <2>3 DEF ItemPending, mailVars
  <1>8. CASE ItemReady
    <2>1. pc' \in {"outer", "items", "panicked"} /\ cur' = 0
      BY <1>8 DEF ItemReady
    <2>2. items' \in Seq([h : 1..MaxHandle, f : Fut])
      <3>1. items' = items \/ (idx \in DOMAIN items /\ items' = SwapRemove(items, idx))
        BY <1>8 DEF ItemReady
      <3> QED
        BY <3>1, ItemRemoved DEF Item
    <2>3. owed' \subseteq Fut
      BY <1>8 DEF ItemReady
    <2>4. completed' \subseteq Fut
      BY <1>8 DEF ItemReady
    <2> QED
      BY <1>8, <2>1, <2>2, <2>3, <2>4 DEF ItemReady, mailVars
  <1>9. CASE AgreeStop \/ Continue
    <2>1. pc' \in Callbacks \cup {"idle", "outer"} /\ flags' \subseteq Flag /\ restored' \in BOOLEAN
      BY <1>9 DEF AgreeStop, Continue, Callbacks, Flag, histVars
    <2> QED
      BY <1>9, <2>1 DEF AgreeStop, Continue, loopVars, mailVars, histVars
  <1>10. CASE Stopped
    <2>1. pc' \in Callbacks \cup {"gone"} /\ flags' \subseteq Flag
      BY <1>10 DEF Stopped, Callbacks, Flag
    <2>2. wait' \in Seq(Fut) /\ items' \in Seq([h : 1..MaxHandle, f : Fut])
      BY <1>10 DEF Stopped
    <2>3. handle' \in 0..MaxHandle
      BY <1>10 DEF Stopped
    <2> QED
      BY <1>10, <2>1, <2>2, <2>3 DEF Stopped, loopVars, mailVars
  <1> QED
    BY <1>1, <1>2, <1>3, <1>4, <1>5, <1>6, <1>7, <1>8, <1>9, <1>10 DEF Loop

LEMMA TypeStep == TypeInv /\ [Next]_vars => TypeInv'
  <1>1. TypeInv /\ UNCHANGED vars => TypeInv'
    BY DEF TypeInv, TypeOK, vars, ctxVars, loopVars, mailVars, histVars
  <1> QED
    BY <1>1, TypeCall, TypeEnvironment, TypeLoop DEF Next

LEMMA TypesHold == Spec => []TypeInv
  BY TypeInit, TypeStep, PTL DEF Spec

(* The fields of ContextImpl and Mailbox keep their types in every state of   *)
(* poll() and in every callback, the item index and the message counts        *)
(* included.                                                                  *)
THEOREM TypeCorrect == Spec => []TypeOK
  <1>1. TypeInv => TypeOK
    BY DEF TypeInv
  <1> QED
    BY <1>1, TypesHold, PTL

-----------------------------------------------------------------------------
(* What leaves what alone *)

\* Holders of addresses change the mailbox only.
LEMMA EnvironmentFrame ==
    Environment => UNCHANGED <<pc, flags, wait, items, handle, idx, cur, chan, notReady,
                               hasSync, owed, completed, restored>>
  BY DEF Environment, Event, Send, CloneAddress, DropAddress,
         ctxVars, loopVars, histVars, mailVars

\* A call returns to the callback that made it.
LEMMA CallFrame ==
    Call => pc \in Callbacks /\ UNCHANGED <<pc, idx, cur, chan, notReady, queue, parked, sent,
                                            notified, restored>>
  BY DEF Call, Calls, Spawn, Wait, CancelFuture, Stop, Terminate, SetMailboxCapacity, Address,
         ctxVars, loopVars, histVars, mailVars

\* A step that leaves the variables alone.
LEMMA Stutter ==
    UNCHANGED vars => UNCHANGED <<pc, flags, wait, items, handle, idx, cur, chan, notReady, hasSync,
                                  queue, addrs, parked, sent, notified, owed, completed, restored>>
  BY DEF vars, ctxVars, loopVars, histVars, mailVars

-----------------------------------------------------------------------------
(* Pausing: ctx.wait() stops everything else *)

LEMMA PauseStep == PauseInv /\ [Next]_vars => PauseInv'
  <1> SUFFICES ASSUME PauseInv, [Next]_vars PROVE PauseInv'
    OBVIOUS
  <1>1. CASE UNCHANGED vars
    BY <1>1, Stutter DEF PauseInv, Stopping
  <1>2. CASE Call
    <2>1. pc' # "items"
      BY <1>2, CallFrame DEF Callbacks
    <2> QED
      BY <2>1 DEF PauseInv
  <1>3. CASE Environment
    BY <1>3, EnvironmentFrame DEF PauseInv, Stopping
  <1>4. CASE Mailbox
    BY <1>4 DEF Mailbox, LeaveMailbox, PauseInv, Stopping, ctxVars
  <1>5. CASE ItemPending \/ ItemReady
    BY <1>5 DEF ItemPending, ItemReady, PauseInv, Stopping
  <1>6. CASE Loop /\ ~Mailbox /\ ~ItemPending /\ ~ItemReady
    <2>1. pc' # "items"
      BY <1>6 DEF Loop, Created, Poll, Enter, Started, Outer, PollWait, WaitReady, WaitPending,
                  PopWait, Handled, PollItem, Check, AgreeStop, Continue, Stopped, Restarted
    <2> QED
      BY <2>1 DEF PauseInv
  <1> QED
    BY <1>1, <1>2, <1>3, <1>4, <1>5, <1>6 DEF Next

(* ContextImpl::poll: while a future given to ctx.wait() is pending, no       *)
(* message handler and no spawned future of the actor is entered, whatever    *)
(* the actor calls and whatever its address holders do meanwhile.             *)
THEOREM WaitingPausesActor == Spec => PausedWhileWaiting
  <1> DEFINE Entered == pc' # pc /\ pc' \in {"handler", "item"} => wait = <<>>
  <1>1. Init => PauseInv
    BY DEF Init, PauseInv
  <1>2. PauseInv /\ [Next]_vars => [Entered]_vars
    <2> SUFFICES ASSUME PauseInv, Next, pc' # pc, pc' \in {"handler", "item"}
                 PROVE  wait = <<>>
      OBVIOUS
    <2>1. CASE Mailbox
      BY <2>1 DEF Mailbox, LeaveMailbox, Waiting
    <2>2. CASE PollItem
      BY <2>2 DEF PollItem, PauseInv
    <2>3. Mailbox \/ PollItem
      <3>1. ~Call /\ ~Environment
        BY CallFrame, EnvironmentFrame
      <3> QED
        BY <3>1 DEF Next, Loop, Created, Poll, Enter, Started, Outer, PollWait, WaitReady, WaitPending,
                PopWait, Handled, ItemPending, ItemReady, Check, AgreeStop, Continue, Stopped, Restarted
    <2> QED
      BY <2>1, <2>2, <2>3
  <1> QED
    BY <1>1, <1>2, PauseStep, PTL DEF Spec, PausedWhileWaiting

-----------------------------------------------------------------------------
(* Spawned futures are kept *)

LEMMA ItemStep ==
    ASSUME ItemsDoNotCancel
    PROVE  TypeInv /\ ItemInv /\ [Next]_vars => ItemInv'
  <1> SUFFICES ASSUME TypeInv, ItemInv, [Next]_vars PROVE ItemInv'
    OBVIOUS
  <1>0. items \in Seq(Item) /\ handle \in 0..MaxHandle /\ idx \in Nat \ {0}
    BY ContextTypes
  <1>1. CASE UNCHANGED vars
    BY <1>1, Stutter DEF ItemInv
  <1>2. CASE Spawn
    <2>1. PICK f \in Free : items' = Append(items, [h |-> handle + 1, f |-> f])
      BY <1>2 DEF Spawn
    <2>2. [h |-> handle + 1, f |-> f] \in Item
      BY <1>0, <1>2, <2>1, BoundAssumption DEF Spawn, Free, Item
    <2>3. \A i \in DOMAIN items : i \in DOMAIN items' /\ items'[i] = items[i]
      BY <1>0, <2>1, <2>2, AppendFacts
    <2>4. UNCHANGED <<pc, idx, cur>>
      BY <1>2 DEF Spawn, loopVars
    <2> QED
      BY <2>3, <2>4 DEF ItemInv
  <1>3. CASE CancelFuture
    <2>1. pc' # "item"
      BY <1>3, ItemsDoNotCancel DEF CancelFuture, Calls, ItemsDoNotCancel
    <2> QED
      BY <2>1 DEF ItemInv
  <1>4. CASE Call /\ ~Spawn /\ ~CancelFuture
    BY <1>4 DEF Call, Wait, Stop, Terminate, SetMailboxCapacity, Address, loopVars, ItemInv
  <1>5. CASE Environment
    BY <1>5, EnvironmentFrame DEF ItemInv
  <1>6. CASE PollItem
    <2>1. CASE idx <= Len(items)
      <3>1. idx \in DOMAIN items
        BY <1>0, <2>1, ElementFacts
      <3> QED
        BY <1>6, <3>1 DEF PollItem, ItemInv, ctxVars
    <2>2. CASE ~(idx <= Len(items))
      BY <1>6, <2>2 DEF PollItem, ItemInv
    <2> QED
      BY <2>1, <2>2
  <1>7. CASE Loop /\ ~PollItem
    <2>1. pc' # "item"
      BY <1>7 DEF Loop, Created, Poll, Enter, Started, Outer, PollWait, WaitReady, WaitPending,
                  PopWait, Mailbox, LeaveMailbox, Handled, ItemPending, ItemReady, Check,
                  AgreeStop, Continue, Stopped, Restarted
    <2> QED
      BY <2>1 DEF ItemInv
  <1> QED
    BY <1>1, <1>2, <1>3, <1>4, <1>5, <1>6, <1>7 DEF Next

(* ContextImpl::poll with swap and swap_remove on its items: a spawned future *)
(* leaves the context only because it returned Ready, was cancelled by its    *)
(* handle, or the actor ended, if spawned futures cancel no futures.          *)
THEOREM ItemsAreKept ==
    ASSUME ItemsDoNotCancel
    PROVE  Spec => KeptUntilDone
  <1> DEFINE Kept == \A f \in ItemFuts : f \in ItemFuts' \/ f \in completed' \/ CancelFuture \/ Stopped
  <1>1. Init => ItemInv
    BY DEF Init, ItemInv
  <1>2. TypeInv /\ ItemInv /\ [Next]_vars => [Kept]_vars
    <2> SUFFICES ASSUME TypeInv, ItemInv, Next, ~CancelFuture, ~Stopped, NEW f \in ItemFuts
                 PROVE  f \in ItemFuts' \/ f \in completed'
      OBVIOUS
    <2>0. items \in Seq(Item) /\ handle \in 0..MaxHandle
      BY ContextTypes
    <2>1. CASE Spawn
      <3>1. PICK g \in Free : items' = Append(items, [h |-> handle + 1, f |-> g])
        BY <2>1 DEF Spawn
      <3>2. [h |-> handle + 1, f |-> g] \in Item
        BY <2>0, <2>1, <3>1, BoundAssumption DEF Spawn, Free, Item
      <3> QED
        BY <2>0, <3>1, <3>2, ItemAdded
    <2>2. CASE ItemPending
      <3>1. items' = items \/ (idx \in DOMAIN items /\ items' = SwapLast(items, idx))
        BY <2>2 DEF ItemPending
      <3>2. CASE items' = items
        BY <3>2 DEF ItemFuts
      <3>3. CASE idx \in DOMAIN items /\ items' = SwapLast(items, idx)
        BY <2>0, <3>3, ItemMoved
      <3> QED
        BY <3>1, <3>2, <3>3
    <2>3. CASE ItemReady
      <3>1. idx \in DOMAIN items /\ items[idx].f = cur
        BY <2>3 DEF ItemReady, ItemInv
      <3>2. items' = SwapRemove(items, idx) /\ cur \in completed'
        BY <2>3, <3>1 DEF ItemReady
      <3> QED
        BY <2>0, <3>1, <3>2, ItemRemoved
    <2>4. CASE UNCHANGED items
      BY <2>4 DEF ItemFuts
    <2>5. Spawn \/ ItemPending \/ ItemReady \/ UNCHANGED items
      BY EnvironmentFrame DEF Next, Call, Loop, Wait, Stop, Terminate, SetMailboxCapacity, Address,
             Created, Poll, Enter, Started, Outer, PollWait, WaitReady, WaitPending, Mailbox, Handled,
             PollItem, Check, AgreeStop, Continue, Restarted, ctxVars
    <2> QED
      BY <2>1, <2>2, <2>3, <2>4, <2>5
  <1>3. TypeInv /\ ItemInv /\ [Next]_vars => ItemInv'
    BY ItemStep
  <1> QED
    BY <1>1, <1>2, <1>3, TypesHold, PTL DEF Spec, KeptUntilDone

-----------------------------------------------------------------------------
(* The lifecycle *)

\* Which flags a call changes.
LEMMA CallFlags ==
    ASSUME Call
    PROVE  \/ flags' = flags \cup {"MODIFIED"}
           \/ /\ "stop" \in MayCall[pc] /\ "RUNNING" \in flags
              /\ flags' = (flags \ {"RUNNING", "MODIFIED"}) \cup {"STOPPING"}
           \/ "terminate" \in MayCall[pc] /\ flags' = {"STOPPED"}
  BY DEF Call, Calls, Spawn, Wait, CancelFuture, Stop, Terminate, SetMailboxCapacity, Address

LEMMA FlagsStep ==
    ASSUME "terminate" \notin MayCall["askStop"]
    PROVE  FlagsInv /\ (pc = "askStop" => "STOPPED" \notin flags) /\ [Next]_vars
              => FlagsInv' /\ (pc = "askStop" => "STOPPED" \notin flags)'
  <1> SUFFICES ASSUME FlagsInv, pc = "askStop" => "STOPPED" \notin flags, [Next]_vars
               PROVE  FlagsInv' /\ (pc' = "askStop" => "STOPPED" \notin flags')
    OBVIOUS
  <1> USE DEF FlagsInv, Stopping
  <1>1. CASE UNCHANGED <<pc, flags>>
    BY <1>1
  <1>2. CASE Call
    <2>1. pc' = pc
      BY <1>2, CallFrame
    <2> QED
      BY <1>2, <2>1, CallFlags
  <1>3. CASE Created \/ Outer \/ Poll \/ Restarted
    BY <1>3 DEF Created, Outer, Poll, Restarted, Enter
  <1>4. CASE Check
    BY <1>4 DEF Check, ctxVars
  <1>5. CASE AgreeStop
    BY <1>5 DEF AgreeStop
  <1>6. CASE Continue
    BY <1>6 DEF Continue
  <1>7. CASE Stopped
    BY <1>7 DEF Stopped
  <1>8. CASE flags' = flags /\ pc' # "askStop"
    BY <1>8
  <1>9. \/ UNCHANGED <<pc, flags>> \/ Call \/ Created \/ Outer \/ Poll \/ Restarted
        \/ Check \/ AgreeStop \/ Continue \/ Stopped \/ (flags' = flags /\ pc' # "askStop")
    BY EnvironmentFrame, Stutter DEF Next, Loop, Started, PollWait, WaitReady, WaitPending, PopWait, Mailbox,
           LeaveMailbox, Handled, PollItem, ItemPending, ItemReady, ctxVars
  <1> QED
    BY <1>1, <1>2, <1>3, <1>4, <1>5, <1>6, <1>7, <1>8, <1>9

LEMMA LifeStep ==
    ASSUME StoppingOnlyAnswers
    PROVE  FlagsInv /\ LifeInv /\ [Next]_vars => FlagsInv' /\ LifeInv'
  <1> SUFFICES ASSUME FlagsInv, LifeInv, [Next]_vars
               PROVE  FlagsInv' /\ LifeInv'
    OBVIOUS
  <1>0. FlagsInv'
    <2>1. "terminate" \notin MayCall["askStop"]
      BY DEF StoppingOnlyAnswers
    <2>2. pc = "askStop" => "STOPPED" \notin flags
      BY DEF LifeInv, FlagsInv
    <2> QED
      BY <2>1, <2>2, FlagsStep
  <1> SUFFICES LifeInv'
    BY <1>0
  <1> USE DEF LifeInv, FlagsInv, Stopping
  <1>1. CASE UNCHANGED <<pc, flags>>
    BY <1>1
  <1>2. CASE Call
    <2>1. pc' = pc /\ pc \in Callbacks
      BY <1>2, CallFrame
    <2>2. CASE flags' = flags \cup {"MODIFIED"}
      BY <2>1, <2>2
    <2>3. CASE /\ "stop" \in MayCall[pc] /\ "RUNNING" \in flags
               /\ flags' = (flags \ {"RUNNING", "MODIFIED"}) \cup {"STOPPING"}
      <3>1. pc \notin {"askDrained", "askStop", "stopped"}
        BY <2>3 DEF StoppingOnlyAnswers
      <3> QED
        BY <2>1, <2>3, <3>1
    <2>4. CASE "terminate" \in MayCall[pc] /\ flags' = {"STOPPED"}
      <3>1. pc \notin {"askDrained", "askStop"}
        BY <2>4 DEF StoppingOnlyAnswers
      <3> QED
        BY <2>1, <2>4, <3>1
    <2> QED
      BY <1>2, <2>2, <2>3, <2>4, CallFlags
  <1>3. CASE Created \/ Outer \/ Poll \/ Restarted
    BY <1>3 DEF Created, Outer, Poll, Restarted, Enter
  <1>4. CASE Check
    BY <1>4 DEF Check, ctxVars
  <1>5. CASE AgreeStop
    BY <1>5 DEF AgreeStop
  <1>6. CASE Continue
    BY <1>6 DEF Continue
  <1>7. CASE Stopped
    BY <1>7 DEF Stopped
  <1>8. CASE Started \/ PollWait \/ WaitReady \/ WaitPending \/ Mailbox \/ Handled
                \/ PollItem \/ ItemPending \/ ItemReady
    <2>1. flags' = flags /\ pc \notin {"create", "idle", "restarting"}
          /\ pc' \notin {"create", "restarting", "askDrained", "askStop", "stopped"}
      BY <1>8 DEF Started, PollWait, WaitReady, WaitPending, PopWait, Mailbox,
                  LeaveMailbox, Handled, PollItem, ItemPending, ItemReady, ctxVars
    <2> QED
      BY <2>1
  <1> QED
    BY <1>1, <1>2, <1>3, <1>4, <1>5, <1>6, <1>7, <1>8, EnvironmentFrame, Stutter DEF Next, Loop

LEMMA LifeHolds ==
    ASSUME StoppingOnlyAnswers
    PROVE  Spec => [](FlagsInv /\ LifeInv)
  <1>1. Init => FlagsInv /\ LifeInv
    BY DEF Init, FlagsInv, LifeInv, Stopping
  <1>2. FlagsInv /\ LifeInv /\ [Next]_vars => FlagsInv' /\ LifeInv'
    BY LifeStep
  <1> QED
    BY <1>1, <1>2, PTL DEF Spec

\* A step that keeps the place and the state flags is invisible in the lifecycle.
LEMMA LifecycleStutter ==
    ASSUME UNCHANGED pc, UNCHANGED flags \/ flags' = flags \cup {"MODIFIED"}
    PROVE  UNCHANGED L!vars
  <1>1. Will' = Will
    BY DEF Will
  <1>2. Phase' = Phase
    BY DEF Phase
  <1> QED
    BY <1>1, <1>2 DEF L!vars

\* Every step of the context is a step of the lifecycle, or none.
LEMMA LifecycleStep ==
    FlagsInv /\ LifeInv /\ StoppingOnlyAnswers /\ [Next]_vars => [L!Next]_(L!vars)
  <1> SUFFICES ASSUME FlagsInv, LifeInv, StoppingOnlyAnswers, [Next]_vars
               PROVE  L!Next \/ UNCHANGED L!vars
    OBVIOUS
  <1>1. CASE UNCHANGED <<pc, flags>>
    BY <1>1, LifecycleStutter
  <1>2. CASE Call
    <2>1. pc' = pc /\ pc \in Callbacks
      BY <1>2, CallFrame
    <2>2. CASE flags' = flags \cup {"MODIFIED"}
      BY <2>1, <2>2, LifecycleStutter
    <2>3. CASE /\ "stop" \in MayCall[pc] /\ "RUNNING" \in flags
               /\ flags' = (flags \ {"RUNNING", "MODIFIED"}) \cup {"STOPPING"}
      <3>1. pc \notin {"askDrained", "askStop", "stopped"}
        BY <2>3 DEF StoppingOnlyAnswers, LifeInv, FlagsInv, Stopping
      <3>2. Phase \in {"new", "working"} /\ Phase' = Phase
        BY <2>1, <2>3, <3>1 DEF Phase, Callbacks
      <3>3. Will = "run" /\ Will' = "stop"
        BY <2>3 DEF Will, FlagsInv, Stopping
      <3> QED
        BY <3>2, <3>3 DEF L!Next, L!CallStop
    <2>4. CASE "terminate" \in MayCall[pc] /\ flags' = {"STOPPED"}
      <3>1. pc \notin {"askDrained", "askStop"}
        BY <2>4 DEF StoppingOnlyAnswers
      <3>2. Will' = "end"
        BY <2>4 DEF Will
      <3>3. CASE pc = "stopped"
        <4>1. Will = "end" /\ Phase = "stopped" /\ Phase' = "stopped"
          BY <2>1, <3>3 DEF Will, Phase, LifeInv
        <4> QED
          BY <3>2, <4>1 DEF L!vars
      <3>4. CASE pc # "stopped"
        <4>1. Phase \in {"new", "working"} /\ Phase' = Phase
          BY <2>1, <2>4, <3>1, <3>4 DEF Phase, Callbacks
        <4> QED
          BY <3>2, <4>1 DEF L!Next, L!CallTerminate
      <3> QED
        BY <3>3, <3>4
    <2> QED
      BY <1>2, <2>2, <2>3, <2>4, CallFlags
  <1>3. CASE Created
    <2>1. Phase = "new" /\ Phase' = "new"
      BY <1>3 DEF Created, Phase, LifeInv
    <2>2. Will' = Will
      BY <1>3 DEF Created, Will
    <2> QED
      BY <2>1, <2>2 DEF L!vars
  <1>4. CASE Poll \/ Restarted
    <2>1. Will' = Will
      BY <1>4 DEF Poll, Restarted, Enter, Will
    <2>2. CASE "STARTED" \in flags
      <3>1. Phase = "running" /\ Phase' = "running"
        BY <1>4, <2>2 DEF Poll, Restarted, Enter, Phase, LifeInv
      <3> QED
        BY <2>1, <3>1 DEF L!vars
    <2>3. CASE "STARTED" \notin flags
      <3>1. Phase = "new" /\ Phase' = "working"
        BY <1>4, <2>3 DEF Poll, Restarted, Enter, Phase
      <3> QED
        BY <2>1, <3>1 DEF L!Next, L!Start
    <2> QED
      BY <2>2, <2>3
  <1>5. CASE Outer
    <2>1. Phase = "running" /\ Phase' = "running"
      BY <1>5 DEF Outer, Phase
    <2>2. Will' = Will
      BY <1>5 DEF Outer, Will
    <2> QED
      BY <2>1, <2>2 DEF L!vars
  <1>6. CASE Started \/ Handled \/ WaitReady \/ WaitPending \/ ItemPending \/ ItemReady
    <2>1. Will' = Will
      BY <1>6 DEF Started, Handled, WaitReady, WaitPending, ItemPending, ItemReady, Will, ctxVars
    <2>2. Phase = "working"
      BY <1>6 DEF Started, Handled, WaitReady, WaitPending, ItemPending, ItemReady, Phase
    <2>3. Phase' = "running"
      <3>1. pc' \in {"outer", "mailbox", "wait", "items", "panicked"} \/ (pc' = "idle" /\ "STARTED" \in flags')
        BY <1>6 DEF Started, Handled, WaitReady, WaitPending, PopWait, ItemPending, ItemReady,
                    ctxVars, LifeInv, FlagsInv, Stopping
      <3> QED
        BY <3>1 DEF Phase
    <2> QED
      BY <2>1, <2>2, <2>3 DEF L!Next, L!EndWork
  <1>7. CASE PollWait \/ Mailbox \/ PollItem
    <2>1. Will' = Will
      BY <1>7 DEF PollWait, Mailbox, PollItem, Will, ctxVars
    <2>2. Phase = "running"
      BY <1>7 DEF PollWait, Mailbox, PollItem, Phase
    <2>3. pc' \in {"mailbox", "outer", "items", "check"} \/ (pc' \in {"waitfut", "handler", "item"} /\ ~Stopping)
      BY <1>7 DEF PollWait, Mailbox, PollItem, LeaveMailbox, Waiting
    <2>4. CASE pc' \in {"mailbox", "outer", "items", "check"}
      <3>1. Phase' = "running"
        BY <2>4 DEF Phase
      <3> QED
        BY <2>1, <2>2, <3>1 DEF L!vars
    <2>5. CASE pc' \in {"waitfut", "handler", "item"} /\ ~Stopping
      <3>1. Phase' = "working" /\ Will = "run"
        BY <2>5 DEF Phase, Will, Stopping
      <3> QED
        BY <2>1, <2>2, <3>1 DEF L!Next, L!BeginWork
    <2> QED
      BY <2>3, <2>4, <2>5
  <1>8. CASE Check
    <2>1. Will' = Will /\ flags' = flags
      BY <1>8 DEF Check, Will, ctxVars
    <2>2. Phase = "running"
      BY <1>8 DEF Check, Phase
    <2>3. CASE pc' = "outer" \/ (pc' = "idle" /\ "STARTED" \in flags)
      <3>1. Phase' = "running"
        BY <2>1, <2>3 DEF Phase
      <3> QED
        BY <2>1, <2>2, <3>1 DEF L!vars
    <2>4. CASE pc' \in {"askDrained", "askStop"} /\ "STOPPED" \notin flags
      <3>1. Phase' = "stopping" /\ Will # "end"
        BY <2>4 DEF Phase, Will
      <3> QED
        BY <2>1, <2>2, <3>1 DEF L!Next, L!Ask
    <2>5. CASE pc' = "stopped" /\ "STOPPED" \in flags
      <3>1. Phase' = "stopped" /\ Will = "end"
        BY <2>5 DEF Phase, Will
      <3> QED
        BY <2>1, <2>2, <3>1 DEF L!Next, L!Die
    <2>6. \/ pc' = "outer" \/ (pc' = "idle" /\ "STARTED" \in flags)
          \/ (pc' \in {"askDrained", "askStop"} /\ "STOPPED" \notin flags)
          \/ (pc' = "stopped" /\ "STOPPED" \in flags)
      BY <1>8 DEF Check, FlagsInv, LifeInv, Stopping
    <2> QED
      BY <2>3, <2>4, <2>5, <2>6
  <1>9. CASE AgreeStop
    <2>1. Phase = "stopping" /\ Phase' = "stopped"
      BY <1>9 DEF AgreeStop, Phase
    <2>2. Will' = "end"
      BY <1>9 DEF AgreeStop, Will
    <2> QED
      BY <2>1, <2>2 DEF L!Next, L!Agree
  <1>10. CASE Continue
    <2>1. Phase = "stopping"
      BY <1>10 DEF Continue, Phase
    <2>2. Phase' = "running"
      BY <1>10 DEF Continue, Phase, LifeInv, FlagsInv, Stopping
    <2>3. Will' = "run"
      BY <1>10 DEF Continue, Will, LifeInv, FlagsInv, Stopping
    <2> QED
      BY <2>1, <2>2, <2>3 DEF L!Next, L!Resume
  <1>11. CASE Stopped
    <2>1. Phase = "stopped"
      BY <1>11 DEF Stopped, Phase
    <2>2. CASE Supervised /\ Connected
      <3>1. Phase' = "new" /\ Will' = "run"
        BY <1>11, <2>2 DEF Stopped, Phase, Will
      <3> QED
        BY <2>1, <2>2, <3>1 DEF L!Next, L!Restart
    <2>3. CASE ~(Supervised /\ Connected)
      <3>1. Phase' = "gone" /\ Will' = Will
        BY <1>11, <2>3 DEF Stopped, Phase, Will
      <3> QED
        BY <2>1, <3>1 DEF L!Next, L!Drop
    <2> QED
      BY <2>2, <2>3
  <1> QED
    BY <1>1, <1>2, <1>3, <1>4, <1>5, <1>6, <1>7, <1>8, <1>9, <1>10, <1>11,
       EnvironmentFrame, Stutter DEF Next, Loop

(* The context keeps the actor's lifecycle: started() comes first and once,   *)
(* no handler and no future runs after stop() or terminate(), stopping() is   *)
(* asked unless the context was terminated, stopped() is called once and is   *)
(* the end unless a Supervisor restarts the actor.  The actor's stopping()    *)
(* may do anything but terminate the context, or stop it if it still runs.    *)
THEOREM ContextImplementsLifecycle ==
    ASSUME StoppingOnlyAnswers
    PROVE  Spec => Lifecycle
  <1>1. Init => L!Init
    BY DEF Init, L!Init, Phase, Will
  <1>2. FlagsInv /\ LifeInv /\ [Next]_vars => [L!Next]_(L!vars)
    BY LifecycleStep
  <1> QED
    BY <1>1, <1>2, LifeHolds, PTL DEF Spec, Lifecycle, L!Spec

-----------------------------------------------------------------------------
(* Completed futures *)

\* A new future is another one.
LEMMA AddedDistinct ==
    ASSUME items \in Seq(Item), DistinctItems, NEW x \in Item, x.f \notin ItemFuts,
           items' = Append(items, x)
    PROVE  DistinctItems'
  <1>1. PICK n : n = Len(items) + 1
    OBVIOUS
  <1>2. /\ DOMAIN items' = DOMAIN items \cup {n}
        /\ \A i \in DOMAIN items : items'[i] = items[i]
        /\ items'[n] = x /\ n \notin DOMAIN items
    BY <1>1, AppendFacts
  <1>3. \A i \in DOMAIN items : items[i].f # x.f
    BY Members
  <1> QED
    BY <1>2, <1>3 DEF DistinctItems

\* A removed future is gone.
LEMMA RemovedDistinct ==
    ASSUME items \in Seq(Item), DistinctItems, NEW i \in DOMAIN items, items' = SwapRemove(items, i)
    PROVE  DistinctItems' /\ items[i].f \notin ItemFuts'
  <1>1. PICK n : n = Len(items)
    OBVIOUS
  <1>2. /\ n \in DOMAIN items /\ DOMAIN items' = DOMAIN items \ {n}
        /\ \A j \in DOMAIN items \ {n} : items'[j] = IF j = i THEN items[n] ELSE items[j]
    BY <1>1, RemovedItems
  <1>3. \A j \in DOMAIN items' : items'[j].f # items[i].f
    BY <1>2 DEF DistinctItems
  <1>4. DistinctItems'
    BY <1>2 DEF DistinctItems
  <1>5. items[i].f \notin ItemFuts'
    BY <1>3, Members
  <1> QED
    BY <1>4, <1>5

\* A swap keeps futures apart.
LEMMA MovedDistinct ==
    ASSUME items \in Seq(Item), DistinctItems, NEW i \in DOMAIN items, items' = SwapLast(items, i)
    PROVE  DistinctItems'
  <1>1. PICK n : n = Len(items)
    OBVIOUS
  <1>2. /\ n \in DOMAIN items /\ DOMAIN items' = DOMAIN items
        /\ items'[i] = items[n] /\ items'[n] = items[i]
        /\ \A j \in DOMAIN items : j # i /\ j # n => items'[j] = items[j]
    BY <1>1, SwapLastFacts
  <1> QED
    BY <1>2 DEF DistinctItems

\* The same of the futures waited for.
LEMMA WaitDistinct ==
    ASSUME wait \in Seq(Fut), DistinctWaits
    PROVE  /\ \A x \in Fut : x \notin WaitFuts /\ wait' = Append(wait, x) => DistinctWaits'
           /\ wait # <<>> /\ wait' = SubSeq(wait, 1, Len(wait) - 1)
                => DistinctWaits' /\ wait[Len(wait)] \notin WaitFuts'
  <1>1. ASSUME NEW x \in Fut, x \notin WaitFuts, wait' = Append(wait, x)
        PROVE  DistinctWaits'
    <2>1. PICK n : n = Len(wait) + 1
      OBVIOUS
    <2>2. /\ DOMAIN wait' = DOMAIN wait \cup {n}
          /\ \A i \in DOMAIN wait : wait'[i] = wait[i]
          /\ wait'[n] = x /\ n \notin DOMAIN wait
      BY <1>1, <2>1, AppendFacts
    <2>3. \A i \in DOMAIN wait : wait[i] # x
      BY <1>1, Members
    <2> QED
      BY <2>2, <2>3 DEF DistinctWaits
  <1>2. ASSUME wait # <<>>, wait' = SubSeq(wait, 1, Len(wait) - 1)
        PROVE  DistinctWaits' /\ wait[Len(wait)] \notin WaitFuts'
    <2>1. PICK n : n = Len(wait)
      OBVIOUS
    <2>2. /\ n \in DOMAIN wait /\ DOMAIN wait' = DOMAIN wait \ {n}
          /\ \A j \in DOMAIN wait \ {n} : wait'[j] = wait[j]
      BY <1>2, <2>1, PopFacts, LastFacts
    <2>3. \A j \in DOMAIN wait' : wait'[j] # wait[n]
      BY <2>2 DEF DistinctWaits
    <2>4. wait[n] \notin WaitFuts'
      BY <2>3, Members
    <2>5. DistinctWaits'
      BY <2>2 DEF DistinctWaits
    <2> QED
      BY <2>1, <2>4, <2>5
  <1> QED
    BY <1>1, <1>2

LEMMA WaitStep ==
    ASSUME WaitsAreFlat
    PROVE  WaitInv /\ [Next]_vars => WaitInv'
  <1> SUFFICES ASSUME WaitInv, [Next]_vars PROVE WaitInv'
    OBVIOUS
  <1>1. CASE UNCHANGED vars
    BY <1>1, Stutter DEF WaitInv
  <1>2. CASE Wait
    <2>1. pc' # "waitfut"
      BY <1>2 DEF Wait, Calls, WaitsAreFlat
    <2> QED
      BY <2>1 DEF WaitInv
  <1>3. CASE Call /\ ~Wait
    BY <1>3 DEF Call, Spawn, CancelFuture, Stop, Terminate, SetMailboxCapacity, Address, loopVars, WaitInv
  <1>4. CASE Environment
    BY <1>4, EnvironmentFrame DEF WaitInv
  <1>5. CASE PollWait
    BY <1>5 DEF PollWait, WaitInv, ctxVars
  <1>6. CASE Loop /\ ~PollWait
    <2>1. pc' # "waitfut"
      BY <1>6 DEF Loop, Created, Poll, Enter, Started, Outer, WaitReady, WaitPending,
                  PopWait, Mailbox, LeaveMailbox, Handled, PollItem, ItemPending, ItemReady, Check,
                  AgreeStop, Continue, Stopped, Restarted
    <2> QED
      BY <2>1 DEF WaitInv
  <1> QED
    BY <1>1, <1>2, <1>3, <1>4, <1>5, <1>6 DEF Next

LEMMA FutureStep ==
    TypeInv /\ ItemInv /\ WaitInv /\ FutureInv /\ [Next]_vars => FutureInv'
  <1> SUFFICES ASSUME TypeInv, ItemInv, WaitInv, FutureInv, [Next]_vars PROVE FutureInv'
    OBVIOUS
  <1>0. items \in Seq(Item) /\ wait \in Seq(Fut) /\ handle \in 0..MaxHandle
        /\ DistinctItems /\ DistinctWaits
    BY ContextTypes DEF FutureInv
  <1>w. UNCHANGED wait => DistinctWaits' /\ WaitFuts' = WaitFuts
    BY <1>0 DEF DistinctWaits, WaitFuts
  <1>i. UNCHANGED items => DistinctItems' /\ ItemFuts' = ItemFuts
    BY <1>0 DEF DistinctItems, ItemFuts
  <1>1. CASE UNCHANGED <<items, wait, completed>>
    BY <1>1, <1>w, <1>i DEF FutureInv
  <1>2. CASE Spawn
    <2>1. PICK f \in Free : items' = Append(items, [h |-> handle + 1, f |-> f])
                            /\ completed' = completed \ {f}
      BY <1>2 DEF Spawn
    <2>2. PICK x \in Item : x.f = f /\ items' = Append(items, x)
      <3>1. [h |-> handle + 1, f |-> f] \in Item
        BY <1>0, <1>2, <2>1, BoundAssumption DEF Spawn, Free, Item
      <3> QED
        BY <2>1, <3>1
    <2>3. f \notin ItemFuts /\ f \notin WaitFuts
      BY DEF Free
    <2>4. ItemFuts' = ItemFuts \cup {f} /\ DistinctItems'
      BY <1>0, <2>2, <2>3, ItemAdded, AddedDistinct
    <2>5. UNCHANGED wait
      BY <1>2 DEF Spawn
    <2> QED
      BY <1>w, <2>1, <2>3, <2>4, <2>5 DEF FutureInv
  <1>3. CASE Wait
    <2>1. PICK f \in Free : wait' = Append(wait, f) /\ completed' = completed \ {f}
      BY <1>3 DEF Wait
    <2>2. f \notin ItemFuts /\ f \notin WaitFuts /\ f \in Fut
      BY DEF Free
    <2>3. WaitFuts' = WaitFuts \cup {f} /\ DistinctWaits'
      BY <1>0, <2>1, <2>2, WaitAdded, WaitDistinct
    <2>4. UNCHANGED items
      BY <1>3 DEF Wait
    <2> QED
      BY <1>i, <2>1, <2>2, <2>3, <2>4 DEF FutureInv
  <1>4. CASE CancelFuture
    <2>1. PICK i \in DOMAIN items : items' = SwapRemove(items, i)
      BY <1>4 DEF CancelFuture
    <2>2. ItemFuts' \subseteq ItemFuts /\ DistinctItems'
      BY <1>0, <2>1, ItemRemoved, RemovedDistinct
    <2>3. UNCHANGED <<wait, completed>>
      BY <1>4 DEF CancelFuture
    <2> QED
      BY <1>w, <2>2, <2>3 DEF FutureInv
  <1>5. CASE WaitReady
    <2>1. wait # <<>> /\ wait[Len(wait)] = cur /\ wait' = SubSeq(wait, 1, Len(wait) - 1)
      BY <1>5 DEF WaitReady, PopWait, WaitInv
    <2>2. WaitFuts' \subseteq WaitFuts /\ DistinctWaits' /\ cur \notin WaitFuts'
      BY <1>0, <2>1, WaitRemoved, WaitDistinct
    <2>3. cur \in WaitFuts
      <3>1. Len(wait) \in DOMAIN wait
        BY <1>0, <2>1, LastFacts
      <3> QED
        BY <2>1, <3>1, Members
    <2>4. cur \notin ItemFuts
      BY <2>3 DEF FutureInv
    <2>5. UNCHANGED items /\ completed' = completed \cup {cur}
      BY <1>5 DEF WaitReady
    <2> QED
      BY <1>i, <2>2, <2>4, <2>5 DEF FutureInv
  <1>6. CASE WaitPending /\ ~UNCHANGED wait
    <2>1. wait # <<>> /\ wait' = SubSeq(wait, 1, Len(wait) - 1)
      BY <1>6 DEF WaitPending, PopWait, WaitInv
    <2>2. WaitFuts' \subseteq WaitFuts /\ DistinctWaits'
      BY <1>0, <2>1, WaitRemoved, WaitDistinct
    <2>3. UNCHANGED <<items, completed>>
      BY <1>6 DEF WaitPending
    <2> QED
      BY <1>i, <2>2, <2>3 DEF FutureInv
  <1>7. CASE ItemPending /\ ~UNCHANGED items
    <2>1. idx \in DOMAIN items /\ items' = SwapLast(items, idx)
      BY <1>7 DEF ItemPending
    <2>2. ItemFuts' = ItemFuts /\ DistinctItems'
      BY <1>0, <2>1, ItemMoved, MovedDistinct
    <2>3. UNCHANGED <<wait, completed>>
      BY <1>7 DEF ItemPending
    <2> QED
      BY <1>w, <2>2, <2>3 DEF FutureInv
  <1>8. CASE ItemReady
    <2>1. idx \in DOMAIN items /\ items[idx].f = cur
      BY <1>8 DEF ItemReady, ItemInv
    <2>2. items' = SwapRemove(items, idx) /\ completed' = completed \cup {cur} /\ UNCHANGED wait
      BY <1>8, <2>1 DEF ItemReady
    <2>3. ItemFuts' \subseteq ItemFuts /\ DistinctItems' /\ cur \notin ItemFuts'
      BY <1>0, <2>1, <2>2, ItemRemoved, RemovedDistinct
    <2>4. cur \in ItemFuts
      BY <2>1, Members
    <2>5. cur \notin WaitFuts
      BY <2>4 DEF FutureInv
    <2> QED
      BY <1>w, <2>2, <2>3, <2>5 DEF FutureInv
  <1>9. CASE Stopped
    <2>1. wait' = <<>> /\ items' = <<>>
      BY <1>9 DEF Stopped
    <2>2. DOMAIN wait' = {} /\ DOMAIN items' = {}
      BY <2>1
    <2>3. WaitFuts' = {} /\ ItemFuts' = {} /\ DistinctWaits' /\ DistinctItems'
      BY <2>2 DEF WaitFuts, ItemFuts, DistinctWaits, DistinctItems
    <2> QED
      BY <2>3 DEF FutureInv
  <1>10. \/ UNCHANGED <<items, wait, completed>> \/ Spawn \/ Wait \/ CancelFuture \/ WaitReady
         \/ (WaitPending /\ ~UNCHANGED wait) \/ (ItemPending /\ ~UNCHANGED items)
         \/ ItemReady \/ Stopped
    BY EnvironmentFrame, Stutter DEF Next, Call, Stop, Terminate, SetMailboxCapacity, Address, Loop,
       Created, Poll, Started, Outer, PollWait, WaitPending, Mailbox, Handled, PollItem,
       ItemPending, Check, AgreeStop, Continue, Restarted, ctxVars, histVars
  <1> QED
    BY <1>1, <1>2, <1>3, <1>4, <1>5, <1>6, <1>7, <1>8, <1>9, <1>10

(* The contract of futures: a future that returned Ready, spawned or waited   *)
(* for, is never polled again, if a future waited for does not itself wait    *)
(* and a spawned one cancels no futures.                                      *)
THEOREM CompletedFuturesRest ==
    ASSUME WaitsAreFlat, ItemsDoNotCancel
    PROVE  Spec => []CompletedNotPolled
  <1>1. Init => ItemInv /\ WaitInv /\ FutureInv
    <2> SUFFICES ASSUME Init PROVE FutureInv
      BY DEF Init, ItemInv, WaitInv
    <2>1. wait = <<>> /\ items = <<>> /\ completed = {}
      BY DEF Init
    <2>2. DOMAIN wait = {} /\ DOMAIN items = {}
      BY <2>1
    <2> QED
      BY <2>1, <2>2 DEF FutureInv, DistinctItems, DistinctWaits, ItemFuts, WaitFuts
  <1>2. TypeInv /\ ItemInv /\ WaitInv /\ FutureInv /\ [Next]_vars => ItemInv' /\ WaitInv' /\ FutureInv'
    BY ItemStep, WaitStep, FutureStep
  <1>3. TypeInv /\ ItemInv /\ WaitInv /\ FutureInv => CompletedNotPolled
    <2> SUFFICES ASSUME TypeInv, ItemInv, WaitInv, FutureInv, pc \in {"waitfut", "item"}
                 PROVE  cur \in ItemFuts \cup WaitFuts
      BY DEF CompletedNotPolled, FutureInv
    <2>1. CASE pc = "item"
      BY <2>1, Members DEF ItemInv
    <2>2. CASE pc = "waitfut"
      <3>1. wait # <<>> /\ wait[Len(wait)] = cur /\ wait \in Seq(Fut)
        BY <2>2, ContextTypes DEF WaitInv
      <3>2. Len(wait) \in DOMAIN wait
        BY <3>1, LastFacts
      <3> QED
        BY <3>1, <3>2, Members
    <2> QED
      BY <2>1, <2>2
  <1> QED
    BY <1>1, <1>2, <1>3, TypesHold, PTL DEF Spec

-----------------------------------------------------------------------------
(* Sleeping: nothing is missed *)

LEMMA OwedStep == TypeInv /\ WaitInv /\ OwedInv /\ [Next]_vars => OwedInv'
  <1> SUFFICES ASSUME TypeInv, WaitInv, OwedInv, [Next]_vars PROVE OwedInv'
    OBVIOUS
  <1>0. items \in Seq(Item) /\ wait \in Seq(Fut) /\ handle \in 0..MaxHandle
    BY ContextTypes
  <1>w. UNCHANGED wait => WaitFuts' = WaitFuts
    BY DEF WaitFuts
  <1>i. UNCHANGED items => ItemFuts' = ItemFuts
    BY DEF ItemFuts
  <1>1. CASE UNCHANGED <<items, wait>> /\ owed' \subseteq owed
    BY <1>1, <1>w, <1>i DEF OwedInv
  <1>2. CASE Spawn
    <2>1. PICK f \in Free : items' = Append(items, [h |-> handle + 1, f |-> f]) /\ owed' = owed \cup {f}
      BY <1>2 DEF Spawn
    <2>2. PICK x \in Item : x.f = f /\ items' = Append(items, x)
      <3>1. [h |-> handle + 1, f |-> f] \in Item
        BY <1>0, <1>2, <2>1, BoundAssumption DEF Spawn, Free, Item
      <3> QED
        BY <2>1, <3>1
    <2>3. ItemFuts' = ItemFuts \cup {f}
      BY <1>0, <2>2, ItemAdded
    <2>4. UNCHANGED wait
      BY <1>2 DEF Spawn
    <2> QED
      BY <1>w, <2>1, <2>3, <2>4 DEF OwedInv
  <1>3. CASE Wait
    <2>1. PICK f \in Free : wait' = Append(wait, f) /\ owed' = owed \cup {f}
      BY <1>3 DEF Wait
    <2>2. WaitFuts' = WaitFuts \cup {f}
      BY <1>0, <2>1, WaitAdded DEF Free
    <2>3. UNCHANGED items
      BY <1>3 DEF Wait
    <2> QED
      BY <1>i, <2>1, <2>2, <2>3 DEF OwedInv
  <1>4. CASE CancelFuture
    <2>1. PICK i \in DOMAIN items : items' = SwapRemove(items, i) /\ owed' = owed \ {items[i].f}
      BY <1>4 DEF CancelFuture
    <2>2. ItemFuts \subseteq ItemFuts' \cup {items[i].f}
      BY <1>0, <2>1, ItemRemoved
    <2>3. UNCHANGED wait
      BY <1>4 DEF CancelFuture
    <2> QED
      BY <1>w, <2>1, <2>2, <2>3 DEF OwedInv
  <1>5. CASE (WaitReady \/ WaitPending) /\ ~UNCHANGED wait
    <2>1. /\ wait # <<>> /\ wait' = SubSeq(wait, 1, Len(wait) - 1)
          /\ owed' = owed \ {wait[Len(wait)]} /\ UNCHANGED items
      BY <1>5 DEF WaitReady, WaitPending, PopWait, WaitInv
    <2>2. WaitFuts \subseteq WaitFuts' \cup {wait[Len(wait)]}
      BY <1>0, <2>1, WaitRemoved
    <2> QED
      BY <1>i, <2>1, <2>2 DEF OwedInv
  <1>6. CASE ItemPending
    <2>1. ItemFuts' = ItemFuts
      <3>1. items' = items \/ (idx \in DOMAIN items /\ items' = SwapLast(items, idx))
        BY <1>6 DEF ItemPending
      <3> QED
        BY <1>0, <1>i, <3>1, ItemMoved
    <2>2. owed' = owed \/ (cur \in ItemFuts /\ owed' = owed \cup {cur})
      BY <1>6 DEF ItemPending
    <2>3. UNCHANGED wait
      BY <1>6 DEF ItemPending
    <2> QED
      BY <1>w, <2>1, <2>2, <2>3 DEF OwedInv
  <1>7. CASE ItemReady /\ ~UNCHANGED items
    <2>1. idx \in DOMAIN items /\ items' = SwapRemove(items, idx) /\ owed' = owed \ {items[idx].f} /\ UNCHANGED wait
      BY <1>7 DEF ItemReady
    <2>2. ItemFuts \subseteq ItemFuts' \cup {items[idx].f}
      BY <1>0, <2>1, ItemRemoved
    <2> QED
      BY <1>w, <2>1, <2>2 DEF OwedInv
  <1>8. CASE Stopped
    BY <1>8 DEF Stopped, OwedInv
  <1>9. CASE WaitReady \/ WaitPending \/ ItemReady
    <2>1. owed' \subseteq owed
      BY <1>9 DEF WaitReady, WaitPending, PopWait, ItemReady
    <2>2. UNCHANGED items \/ UNCHANGED wait
      BY <1>9 DEF WaitReady, WaitPending, ItemReady
    <2>3. (WaitReady \/ WaitPending => UNCHANGED items) /\ (ItemReady => UNCHANGED wait)
      BY DEF WaitReady, WaitPending, ItemReady
    <2> QED
      BY <1>1, <1>5, <1>7, <1>9, <2>1, <2>3
  <1>10. CASE Event \/ \E c \in Channel : Send(c) \/ CloneAddress(c) \/ DropAddress(c)
    BY <1>1, <1>10, EnvironmentFrame DEF Environment
  <1>11. CASE UNCHANGED vars
    BY <1>1, <1>11, Stutter
  <1>12. CASE Stop \/ Terminate \/ SetMailboxCapacity \/ \E c \in Channel : Address(c)
    BY <1>1, <1>12 DEF Stop, Terminate, SetMailboxCapacity, Address, histVars
  <1>13. CASE \/ Created \/ Poll \/ Started \/ Outer \/ PollWait \/ Mailbox \/ Handled \/ PollItem
              \/ Check \/ AgreeStop \/ Continue \/ Restarted
    <2>1. UNCHANGED <<items, wait>> /\ owed' \subseteq owed
      BY <1>13 DEF Created, Poll, Started, Outer, PollWait, Mailbox, Handled, PollItem,
                   Check, AgreeStop, Continue, Restarted, ctxVars, histVars
    <2> QED
      BY <1>1, <2>1
  <1> QED
    BY <1>2, <1>3, <1>4, <1>6, <1>8, <1>9, <1>10, <1>11, <1>12, <1>13
       DEF Next, Call, Loop, Environment

LEMMA ChannelStep == TypeInv /\ ChannelInv /\ [Next]_vars => ChannelInv'
  <1> SUFFICES ASSUME TypeInv, ChannelInv, [Next]_vars PROVE ChannelInv'
    OBVIOUS
  <1>0. addrs \in [Channel -> 0..MaxAddr] /\ queue \in [Channel -> 0..MaxSend]
        /\ Channel = {"unsync", "sync"}
    BY DEF TypeInv, TypeOK, Channel
  <1>1. CASE UNCHANGED <<hasSync, addrs, queue, chan>>
    BY <1>1 DEF ChannelInv
  <1>2. ASSUME NEW c \in Channel, Address(c) PROVE ChannelInv'
    BY <1>0, <1>2 DEF ChannelInv, Address, loopVars
  <1>3. ASSUME NEW c \in Channel, Send(c) \/ CloneAddress(c) \/ DropAddress(c) PROVE ChannelInv'
    BY <1>0, <1>3, BoundAssumption DEF ChannelInv, Send, CloneAddress, DropAddress, Holder, loopVars
  <1>4. CASE PollWait
    BY <1>4 DEF PollWait, ChannelInv, mailVars
  <1>5. CASE Mailbox
    BY <1>0, <1>5 DEF Mailbox, LeaveMailbox, ChannelInv
  <1>6. CASE Event \/ UNCHANGED vars
    BY <1>1, <1>6, Stutter DEF Event, loopVars, mailVars
  <1>7. CASE Call /\ ~\E c \in Channel : Address(c)
    BY <1>1, <1>7 DEF Call, Spawn, Wait, CancelFuture, Stop, Terminate, SetMailboxCapacity, loopVars, mailVars
  <1>8. CASE Loop /\ ~PollWait /\ ~Mailbox
    <2>1. UNCHANGED <<hasSync, addrs, queue, chan>>
      BY <1>8 DEF Loop, Created, Poll, Started, Outer, WaitReady, WaitPending, Handled, PollItem,
                  ItemPending, ItemReady, Check, AgreeStop, Continue, Stopped, Restarted, loopVars, mailVars
    <2> QED
      BY <1>1, <2>1
  <1> QED
    BY <1>2, <1>3, <1>4, <1>5, <1>6, <1>7, <1>8 DEF Next, Environment

\* Address holders keep a channel settled: a message or the end of the last
\* address wakes the task that is parked there.
LEMMA EnvironmentSettles ==
    ASSUME TypeInv, Environment, NEW c \in Channel, Settled(c)
    PROVE  Settled(c)'
  <1>0. /\ addrs \in [Channel -> 0..MaxAddr] /\ queue \in [Channel -> 0..MaxSend]
        /\ parked \in [Channel -> BOOLEAN] /\ notified \in BOOLEAN
    BY DEF TypeInv, TypeOK
  <1>1. CASE Event
    BY <1>1 DEF Event, Settled
  <1>2. ASSUME NEW d \in Channel, Send(d) PROVE Settled(c)'
    BY <1>0, <1>2 DEF Send, Holder, Settled
  <1>3. ASSUME NEW d \in Channel, CloneAddress(d) PROVE Settled(c)'
    BY <1>0, <1>3, BoundAssumption DEF CloneAddress, Holder, Settled
  <1>4. ASSUME NEW d \in Channel, DropAddress(d) PROVE Settled(c)'
    <2>1. CASE c # d
      BY <1>0, <1>4, <2>1, BoundAssumption DEF DropAddress, Holder, Settled
    <2>2. CASE c = d
      BY <1>0, <1>4, <2>2, BoundAssumption DEF DropAddress, Holder, Settled
    <2> QED
      BY <2>1, <2>2
  <1> QED
    BY <1>1, <1>2, <1>3, <1>4 DEF Environment

LEMMA MailboxStep == TypeInv /\ MailboxInv /\ [Next]_vars => MailboxInv'
  <1> SUFFICES ASSUME TypeInv, MailboxInv, [Next]_vars PROVE MailboxInv'
    OBVIOUS
  <1>0. parked \in [Channel -> BOOLEAN] /\ Channel = {"unsync", "sync"} /\ chan \in Channel
        /\ queue \in [Channel -> 0..MaxSend] /\ addrs \in [Channel -> 0..MaxAddr]
    BY DEF TypeInv, TypeOK, Channel
  <1>1. CASE UNCHANGED vars
    BY <1>1, Stutter DEF MailboxInv, Settled
  <1>2. CASE Call
    <2>1. pc' # "mailbox" /\ UNCHANGED <<pc, notReady>>
      BY <1>2, CallFrame DEF Callbacks
    <2> QED
      BY <2>1 DEF MailboxInv
  <1>3. CASE Environment
    BY <1>0, <1>3, EnvironmentFrame, EnvironmentSettles DEF MailboxInv
  <1>4. CASE Mailbox
    <2>1. CASE ~Waiting /\ queue[chan] = 0 /\ chan = "unsync" /\ chan' = "sync"
      BY <1>0, <1>4, <2>1 DEF Mailbox, LeaveMailbox, MailboxInv, Settled
    <2>2. CASE ~(~Waiting /\ queue[chan] = 0 /\ chan = "unsync" /\ chan' = "sync")
      <3>1. ~(pc' = "mailbox" /\ chan' = "sync" /\ notReady') /\ (pc' = "handler" => ~notReady')
        BY <1>0, <1>4, <2>2 DEF Mailbox, LeaveMailbox
      <3> QED
        BY <3>1 DEF MailboxInv
    <2> QED
      BY <2>1, <2>2
  <1>5. CASE Handled
    BY <1>5 DEF Handled, MailboxInv, loopVars
  <1>6. CASE PollWait
    BY <1>6 DEF PollWait, MailboxInv
  <1>7. CASE Loop /\ ~Mailbox /\ ~Handled /\ ~PollWait
    <2>1. pc' # "mailbox" /\ pc' # "handler"
      BY <1>7 DEF Loop, Created, Poll, Enter, Started, Outer, WaitReady, WaitPending,
                  PopWait, PollItem, ItemPending, ItemReady, Check, AgreeStop, Continue, Stopped, Restarted
    <2> QED
      BY <2>1 DEF MailboxInv
  <1> QED
    BY <1>1, <1>2, <1>3, <1>4, <1>5, <1>6, <1>7 DEF Next

LEMMA PolledStep == PolledInv /\ [Next]_vars => PolledInv'
  <1> SUFFICES ASSUME PolledInv, [Next]_vars PROVE PolledInv'
    OBVIOUS
  <1>1. CASE UNCHANGED vars
    BY <1>1, Stutter DEF PolledInv
  <1>2. CASE Call
    <2>1. UNCHANGED <<pc, cur, notified>>
      BY <1>2, CallFrame
    <2>2. cur \notin owed => cur \notin owed'
      BY <1>2 DEF Call, Spawn, Wait, CancelFuture, Stop, Terminate, SetMailboxCapacity, Address, Free, histVars
    <2> QED
      BY <2>1, <2>2 DEF PolledInv
  <1>3. CASE Environment
    <2>1. notified => notified'
      BY <1>3 DEF Environment, Event, Send, CloneAddress, DropAddress
    <2> QED
      BY <1>3, <2>1, EnvironmentFrame DEF PolledInv
  <1>4. CASE PollWait
    BY <1>4 DEF PollWait, PolledInv
  <1>5. CASE Loop /\ ~PollWait
    <2>1. pc' # "waitfut" /\ pc' # "create"
      BY <1>5 DEF Loop, Created, Poll, Enter, Started, Outer, WaitReady, WaitPending, PopWait, Mailbox,
                  LeaveMailbox, Handled, PollItem, ItemPending, ItemReady, Check, AgreeStop, Continue,
                  Stopped, Restarted
    <2> QED
      BY <2>1 DEF PolledInv
  <1> QED
    BY <1>1, <1>2, <1>3, <1>4, <1>5 DEF Next

\* A channel stays settled in a step that leaves it alone.
LEMMA SettledKept ==
    ASSUME UNCHANGED <<queue, addrs, parked, notified>>
    PROVE  \A c \in Channel : Settled(c)' = Settled(c)
  BY DEF Settled

LEMMA CleanStep ==
    TypeInv /\ OwedInv /\ ChannelInv /\ MailboxInv /\ CleanInv /\ [Next]_vars => CleanInv'
  <1> SUFFICES ASSUME TypeInv, OwedInv, ChannelInv, MailboxInv, CleanInv, [Next]_vars, CleanPass'
               PROVE  CleanInv'
    BY DEF CleanInv
  <1>0. items \in Seq(Item) /\ idx \in Nat \ {0}
    BY ContextTypes
  <1>1. CASE UNCHANGED vars
    BY <1>1, Stutter DEF CleanInv, CleanPass, Stopping, Settled
  <1>2. CASE Call
    BY <1>2, CallFlags DEF CleanPass, Stopping
  <1>3. CASE Environment
    <2>1. CleanPass
      BY <1>3, EnvironmentFrame DEF CleanPass, Stopping
    <2>2. \A c \in Channel : Settled(c)'
      BY <1>3, <2>1, EnvironmentSettles DEF CleanInv
    <2> QED
      BY <1>3, <2>1, <2>2, EnvironmentFrame DEF CleanInv
  <1>4. CASE Mailbox
    <2>1. pc' = "items" /\ idx' = 1 /\ UNCHANGED <<wait, items, flags, addrs, notified, owed>>
      BY <1>4 DEF Mailbox, LeaveMailbox, CleanPass, ctxVars, histVars
    <2>2. ~Stopping
      BY <2>1 DEF CleanPass, Stopping
    <2>3. ~Waiting /\ wait = <<>>
      BY <1>4, <2>1, <2>2 DEF Mailbox, LeaveMailbox, Waiting
    <2>4. /\ queue[chan] = 0 /\ UNCHANGED queue /\ ~(chan = "unsync" /\ hasSync) /\ notReady
          /\ parked' = [parked EXCEPT ![chan] = @ \/ chan = "sync" \/ addrs[chan] > 0]
      BY <1>4, <2>1, <2>3 DEF Mailbox
    <2>5. /\ parked \in [Channel -> BOOLEAN] /\ Channel = {"unsync", "sync"} /\ chan \in Channel
          /\ addrs \in [Channel -> 0..MaxAddr]
      BY DEF TypeInv, TypeOK, Channel
    <2>7. CASE chan = "sync"
      <3>1. Settled("unsync")
        BY <1>4, <2>4, <2>7 DEF MailboxInv, Mailbox
      <3>2. Settled("unsync")'
        BY <2>1, <2>4, <2>5, <2>7, <3>1 DEF Settled
      <3>3. Settled("sync")'
        BY <2>1, <2>4, <2>5, <2>7 DEF Settled
      <3>4. \A c \in Channel : Settled(c)'
        BY <2>5, <3>2, <3>3
      <3> QED
        BY <1>0, <2>1, <2>3, <3>4 DEF CleanInv
    <2>8. CASE chan = "unsync"
      <3>1. Settled("sync")'
        <4>1. addrs["sync"] = 0 /\ queue["sync"] = 0
          BY <2>4, <2>8 DEF ChannelInv
        <4> QED
          BY <2>1, <2>4, <4>1 DEF Settled
      <3>2. Settled("unsync")'
        BY <2>1, <2>4, <2>5, <2>8 DEF Settled
      <3>3. \A c \in Channel : Settled(c)'
        BY <2>5, <3>1, <3>2
      <3> QED
        BY <1>0, <2>1, <2>3, <3>3 DEF CleanInv
    <2> QED
      BY <2>5, <2>7, <2>8
  <1>5. CASE PollItem
    <2>1. UNCHANGED <<wait, items, flags, idx, queue, addrs, parked, notified>> /\ owed' \subseteq owed
      BY <1>5 DEF PollItem, ctxVars, mailVars
    <2>2. CleanPass /\ pc = "items"
      BY <1>5, <2>1 DEF PollItem, CleanPass, Stopping
    <2>3. \A c \in Channel : Settled(c)'
      BY <2>1, <2>2, SettledKept DEF CleanInv
    <2>4. \A i \in DOMAIN items' : i < idx' => items'[i].f \notin owed'
      BY <2>1, <2>2 DEF CleanInv
    <2>5. ASSUME pc' = "item" PROVE idx' \in DOMAIN items' /\ items'[idx'].f \notin owed'
      <3>1. idx <= Len(items) /\ owed' = owed \ {items[idx].f}
        BY <1>5, <2>5 DEF PollItem
      <3>2. idx \in DOMAIN items
        BY <1>0, <3>1, ElementFacts
      <3> QED
        BY <2>1, <3>1, <3>2
    <2>6. ASSUME pc' = "check" PROVE owed' = {}
      <3>1. ~(idx <= Len(items)) /\ owed' = owed
        BY <1>5, <2>2, <2>6 DEF PollItem, CleanPass
      <3>2. \A i \in DOMAIN items : i < idx
        BY <1>0, <3>1
      <3>3. \A i \in DOMAIN items : items[i].f \notin owed
        BY <2>2, <3>2 DEF CleanInv
      <3>4. wait = <<>>
        BY <2>2 DEF CleanInv
      <3>5. DOMAIN wait = {}
        BY <3>4
      <3>6. WaitFuts = {}
        BY <3>5 DEF WaitFuts
      <3> QED
        BY <3>1, <3>3, <3>6, Members DEF OwedInv
    <2>7. wait' = <<>>
      BY <2>1, <2>2 DEF CleanInv
    <2> QED
      BY <2>3, <2>4, <2>5, <2>6, <2>7 DEF CleanInv
  <1>6. CASE ItemPending
    <2>1. UNCHANGED <<wait, flags, queue, addrs, parked, notified>> /\ pc = "item"
      BY <1>6 DEF ItemPending, mailVars
    <2>2. CleanPass
      BY <2>1 DEF CleanPass, Stopping
    <2>3. wait = <<>> /\ ~Stopping /\ ~Waiting
      BY <2>2 DEF CleanInv, CleanPass, Waiting
    <2>4. pc' = "items" /\ idx' = idx + 1 /\ UNCHANGED <<items, owed>>
      BY <1>6, <2>3 DEF ItemPending
    <2>5. \A c \in Channel : Settled(c)'
      BY <2>1, <2>2, SettledKept DEF CleanInv
    <2>6. \A i \in DOMAIN items : i < idx + 1 => i < idx \/ i = idx
      BY <1>0
    <2>7. \A i \in DOMAIN items' : i < idx' => items'[i].f \notin owed'
      BY <2>1, <2>2, <2>4, <2>6 DEF CleanInv
    <2> QED
      BY <2>1, <2>3, <2>4, <2>5, <2>7 DEF CleanInv
  <1>7. CASE ItemReady
    <2>1. UNCHANGED <<wait, flags, idx, queue, addrs, parked, notified>> /\ pc = "item"
      BY <1>7 DEF ItemReady, mailVars
    <2>2. CleanPass
      BY <2>1 DEF CleanPass, Stopping
    <2>3. wait = <<>> /\ idx \in DOMAIN items
      BY <2>1, <2>2 DEF CleanInv
    <2>4. pc' = "items" /\ items' = SwapRemove(items, idx) /\ owed' \subseteq owed
      BY <1>7, <2>3 DEF ItemReady
    <2>5. \A c \in Channel : Settled(c)'
      BY <2>1, <2>2, SettledKept DEF CleanInv
    <2>6. \A i \in DOMAIN items' : i < idx => i \in DOMAIN items /\ items'[i] = items[i]
      <3>1. PICK n : n = Len(items)
        OBVIOUS
      <3>2. /\ n \in DOMAIN items /\ DOMAIN items' = DOMAIN items \ {n}
            /\ \A j \in DOMAIN items \ {n} : items'[j] = IF j = idx THEN items[n] ELSE items[j]
        BY <1>0, <2>3, <2>4, <3>1, RemovedItems
      <3>3. \A i \in DOMAIN items : i < idx => i # idx
        BY <1>0
      <3> QED
        BY <3>2, <3>3
    <2>7. \A i \in DOMAIN items' : i < idx' => items'[i].f \notin owed'
      BY <2>1, <2>2, <2>4, <2>6 DEF CleanInv
    <2> QED
      BY <2>1, <2>3, <2>4, <2>5, <2>7 DEF CleanInv
  <1>8. CASE Loop /\ ~Mailbox /\ ~PollItem /\ ~ItemPending /\ ~ItemReady
    BY <1>8 DEF Loop, Created, Poll, Enter, Started, Outer, PollWait, WaitReady, WaitPending, PopWait,
                Handled, Check, AgreeStop, Continue, Stopped, Restarted, CleanPass
  <1> QED
    BY <1>1, <1>2, <1>3, <1>4, <1>5, <1>6, <1>7, <1>8 DEF Next

LEMMA DrainedStep ==
    ASSUME StoppingAddsNothing
    PROVE  TypeInv /\ FlagsInv /\ CleanInv /\ DrainedInv /\ [Next]_vars => DrainedInv'
  <1> SUFFICES ASSUME TypeInv, FlagsInv, CleanInv, DrainedInv, [Next]_vars, pc' = "askDrained"
               PROVE  wait' = <<>> /\ owed' = {} /\ \A c \in Channel : Settled(c)'
    BY DEF DrainedInv
  <1>1. CASE UNCHANGED vars
    BY <1>1, Stutter, SettledKept DEF DrainedInv
  <1>2. CASE Call
    <2>1. pc = "askDrained" /\ UNCHANGED <<queue, parked, notified>>
      BY <1>2, CallFrame
    <2>2. ~Spawn /\ ~Wait /\ \A c \in Channel : ~Address(c)
      BY <2>1 DEF StoppingAddsNothing, Spawn, Wait, Address, Calls
    <2>3. UNCHANGED <<wait, addrs>> /\ owed' \subseteq owed
      BY <1>2, <2>2 DEF Call, CancelFuture, Stop, Terminate, SetMailboxCapacity, mailVars, histVars
    <2>4. \A c \in Channel : Settled(c)'
      BY <2>1, <2>3, SettledKept DEF DrainedInv
    <2> QED
      BY <2>1, <2>3, <2>4 DEF DrainedInv
  <1>3. CASE Environment
    BY <1>3, EnvironmentFrame, EnvironmentSettles DEF DrainedInv
  <1>4. CASE Check
    <2>1. CleanPass /\ pc = "check"
      BY <1>4 DEF Check, CleanPass, FlagsInv, Stopping
    <2>2. UNCHANGED <<wait, owed, queue, addrs, parked, notified>>
      BY <1>4 DEF Check, ctxVars, mailVars, histVars
    <2> QED
      BY <2>1, <2>2, SettledKept DEF CleanInv
  <1>5. ~(Loop /\ ~Check)
    BY DEF Loop, Created, Poll, Enter, Started, Outer, PollWait, WaitReady, WaitPending, PopWait, Mailbox,
           LeaveMailbox, Handled, PollItem, ItemPending, ItemReady, AgreeStop, Continue, Stopped, Restarted
  <1> QED
    BY <1>1, <1>2, <1>3, <1>4, <1>5 DEF Next

\* How the context falls asleep, and that it stays asleep only with reason.
LEMMA SleepStep ==
    /\ TypeInv /\ FlagsInv /\ WaitInv /\ ChannelInv /\ PolledInv /\ CleanInv /\ DrainedInv
    /\ SleepsSafely /\ [Next]_vars
    => SleepsSafely'
  <1> SUFFICES ASSUME TypeInv, FlagsInv, WaitInv, ChannelInv, PolledInv, CleanInv, DrainedInv,
                      SleepsSafely, [Next]_vars, pc' = "idle", ~notified'
               PROVE  /\ IF wait' # <<>> THEN wait'[Len(wait')] \notin owed'
                         ELSE /\ owed' = {}
                              /\ \A c \in Channel : queue'[c] = 0 /\ (addrs'[c] > 0 => parked'[c])
                      /\ ~restored' => Alive'
    BY DEF SleepsSafely
  <1>1. CASE UNCHANGED vars
    BY <1>1, Stutter DEF SleepsSafely, Alive, Connected, Stopping
  <1>2. CASE Call
    BY <1>2, CallFrame DEF Callbacks
  <1>3. CASE Environment
    <2>1. /\ addrs \in [Channel -> 0..MaxAddr] /\ queue \in [Channel -> 0..MaxSend]
          /\ parked \in [Channel -> BOOLEAN] /\ notified \in BOOLEAN /\ Channel = {"unsync", "sync"}
      BY DEF TypeInv, TypeOK, Channel
    <2>2. ~notified
      BY <1>3 DEF Environment, Event, Send, CloneAddress, DropAddress
    <2>3. UNCHANGED <<pc, flags, wait, items, hasSync, owed, restored>>
      BY <1>3, EnvironmentFrame
    <2>4. CASE wait # <<>>
      BY <2>2, <2>3, <2>4 DEF SleepsSafely, Alive, Stopping
    <2>5. CASE wait = <<>>
      <3>1. owed = {} /\ \A c \in Channel : queue[c] = 0 /\ (addrs[c] > 0 => parked[c])
        BY <2>2, <2>3, <2>5 DEF SleepsSafely
      <3>2. \A c \in Channel : Settled(c)
        BY <3>1 DEF Settled
      <3>3. \A c \in Channel : Settled(c)'
        BY <1>3, <3>2, EnvironmentSettles
      <3>4. \A c \in Channel : queue'[c] = 0 /\ (addrs'[c] > 0 => parked'[c])
        BY <3>3 DEF Settled
      <3>5. \A c \in Channel : addrs[c] > 0 => addrs'[c] > 0
        <4> SUFFICES ASSUME NEW c \in Channel, addrs[c] > 0, ~(addrs'[c] > 0) PROVE FALSE
          OBVIOUS
        <4>1. PICK d \in Channel : DropAddress(d)
          BY <1>3, <2>1, BoundAssumption DEF Environment, Event, Send, CloneAddress, mailVars
        <4>2. c = d /\ addrs[c] = 1
          BY <2>1, <4>1, BoundAssumption DEF DropAddress
        <4>3. parked[c]
          BY <3>1
        <4> QED
          BY <4>1, <4>2, <4>3 DEF DropAddress
      <3>6. Alive => Alive'
        BY <2>1, <2>3, <3>5 DEF Alive, Connected, Stopping
      <3> QED
        BY <2>2, <2>3, <2>5, <3>1, <3>4, <3>6 DEF SleepsSafely
    <2> QED
      BY <2>4, <2>5
  <1>4. CASE Created
    BY <1>4 DEF Created, PolledInv
  <1>5. CASE WaitPending
    <2>1. pc = "waitfut" /\ UNCHANGED <<wait, owed, flags>> /\ ~Stopping
      BY <1>5 DEF WaitPending, PopWait, FlagsInv
    <2>2. wait # <<>> /\ wait[Len(wait)] \notin owed
      BY <2>1 DEF WaitInv, PolledInv
    <2> QED
      BY <2>1, <2>2 DEF Alive, Stopping
  <1>6. CASE Check
    <2>1. UNCHANGED <<flags, wait, items, hasSync, owed, queue, addrs, parked, notified>> /\ pc = "check"
      BY <1>6 DEF Check, ctxVars, mailVars, histVars
    <2>2. Alive /\ ~Stopping /\ "MODIFIED" \notin flags
      BY <1>6 DEF Check, FlagsInv, Stopping
    <2>3. wait = <<>> /\ owed = {} /\ \A c \in Channel : Settled(c)
      BY <2>1, <2>2 DEF CleanInv, CleanPass
    <2>4. Alive'
      BY <2>1, <2>2 DEF Alive, Connected, Stopping
    <2> QED
      BY <2>1, <2>3, <2>4 DEF Settled
  <1>7. CASE Continue
    <2>1. pc = "askDrained" /\ restored' = TRUE /\ UNCHANGED <<wait, owed, queue, addrs, parked, notified>>
      BY <1>7 DEF Continue, mailVars
    <2>2. wait = <<>> /\ owed = {} /\ \A c \in Channel : Settled(c)
      BY <2>1 DEF DrainedInv
    <2> QED
      BY <2>1, <2>2 DEF Settled
  <1>8. ~(Loop /\ ~Created /\ ~WaitPending /\ ~Check /\ ~Continue)
    BY DEF Loop, Poll, Enter, Started, Outer, PollWait, WaitReady, PopWait, Mailbox,
           LeaveMailbox, Handled, PollItem, ItemPending, ItemReady, AgreeStop, Stopped, Restarted
  <1> QED
    BY <1>1, <1>2, <1>3, <1>4, <1>5, <1>6, <1>7, <1>8 DEF Next

(* No lost wake-up: whenever poll() returned NotReady and nothing notified    *)
(* the task since, every future and every message that could need the         *)
(* context is behind a registered task, and the context is alive or its       *)
(* actor chose to go on.  The future waited for does not wait itself, and     *)
(* stopping() does not terminate a stopping context nor feed a drained one.   *)
THEOREM NothingIsMissedAsleep ==
    ASSUME WaitsAreFlat, StoppingAddsNothing, "terminate" \notin MayCall["askStop"]
    PROVE  Spec => []SleepsSafely
  <1> DEFINE AnswerInv == pc = "askStop" => "STOPPED" \notin flags
             SleepInv == /\ FlagsInv /\ AnswerInv /\ WaitInv /\ OwedInv /\ ChannelInv /\ MailboxInv
                         /\ PolledInv /\ CleanInv /\ DrainedInv /\ SleepsSafely
  <1>1. Init => SleepInv
    <2> SUFFICES ASSUME Init PROVE SleepInv
      OBVIOUS
    <2>1. pc = "create" /\ flags = {"RUNNING", "MODIFIED"} /\ notified /\ owed = {}
      BY DEF Init
    <2>2. ChannelInv
      BY DEF Init, ChannelInv, Channel
    <2> QED
      BY <2>1, <2>2 DEF FlagsInv, Stopping, WaitInv, OwedInv, MailboxInv, PolledInv, CleanInv,
                        CleanPass, DrainedInv, SleepsSafely
  <1>2. TypeInv /\ SleepInv /\ [Next]_vars => SleepInv'
    <2> SUFFICES ASSUME TypeInv, SleepInv, [Next]_vars PROVE SleepInv'
      OBVIOUS
    <2>1. FlagsInv' /\ AnswerInv'
      BY FlagsStep
    <2>2. WaitInv' /\ OwedInv'
      BY WaitStep, OwedStep
    <2>3. ChannelInv' /\ MailboxInv' /\ PolledInv'
      BY ChannelStep, MailboxStep, PolledStep
    <2>4. CleanInv' /\ DrainedInv'
      BY CleanStep, DrainedStep
    <2>5. SleepsSafely'
      BY SleepStep
    <2> QED
      BY <2>1, <2>2, <2>3, <2>4, <2>5
  <1>3. SleepInv => SleepsSafely
    OBVIOUS
  <1> HIDE DEF SleepInv
  <1> QED
    BY <1>1, <1>2, <1>3, TypesHold, PTL DEF Spec
=============================================================================
