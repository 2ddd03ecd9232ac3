------------------------- MODULE UnsyncChannelProofs -------------------------
(***************************************************************************)
(* Proofs about UnsyncChannel for any set of requests, any capacities and   *)
(* any number of addresses and messages: types, no lost wake-up of the       *)
(* receiving actor or of a request, and delivery at most once.               *)
(***************************************************************************)
EXTENDS UnsyncChannel, FiniteSetTheorems, TLAPS

-----------------------------------------------------------------------------
(* Facts about the operators of the model *)

\* Who can still send is counted by Weak.
LEMMA WeakFacts ==
    TypeOK => Weak \in Nat /\ (Weak > 0 <=> addrs > 0 \/ \E r \in Req : st[r] = "info")
  <1> SUFFICES ASSUME TypeOK
               PROVE  Weak \in Nat /\ (Weak > 0 <=> addrs > 0 \/ \E r \in Req : st[r] = "info")
    OBVIOUS
  <1> DEFINE Holding == {r \in Req : st[r] = "info"}
  <1>1. IsFiniteSet(Holding) /\ addrs \in Nat
    BY ReqAssumption, FS_Subset, BoundAssumption DEF TypeOK
  <1>2. Cardinality(Holding) \in Nat /\ (Holding # {} <=> Cardinality(Holding) # 0)
    BY <1>1, FS_CardinalityType, FS_EmptySet
  <1>3. Weak = addrs + Cardinality(Holding)
    BY DEF Weak
  <1>4. (\E r \in Req : st[r] = "info") <=> Holding # {}
    OBVIOUS
  <1> HIDE DEF Holding
  <1> QED
    BY <1>1, <1>2, <1>3, <1>4

\* The same of the next state.
LEMMA WeakFactsNext ==
    (TypeOK => Weak \in Nat /\ (Weak > 0 <=> addrs > 0 \/ \E r \in Req : st[r] = "info"))'
  BY WeakFacts, PTL

\* What a push does to a queue.
LEMMA AppendFacts ==
    ASSUME NEW S, NEW q \in Seq(S), NEW x \in S
    PROVE  /\ Append(q, x) \in Seq(S)
           /\ DOMAIN Append(q, x) = DOMAIN q \union {Len(q) + 1} /\ Len(q) + 1 \notin DOMAIN q
           /\ \A i \in DOMAIN q : Append(q, x)[i] = q[i]
           /\ Append(q, x)[Len(q) + 1] = x
  OBVIOUS

\* What a pop does to a queue.
LEMMA TailFacts ==
    ASSUME NEW S, NEW q \in Seq(S), q # <<>>
    PROVE  /\ Tail(q) \in Seq(S) /\ Head(q) \in S /\ Head(q) = q[1] /\ 1 \in DOMAIN q
           /\ \A i \in DOMAIN Tail(q) : i \in Nat \ {0} /\ i + 1 \in DOMAIN q /\ Tail(q)[i] = q[i + 1]
           /\ \A i \in DOMAIN q : i # 1 => i - 1 \in DOMAIN Tail(q) /\ Tail(q)[i - 1] = q[i]
  <1>1. Len(q) \in Nat /\ Len(q) # 0 /\ DOMAIN q = 1..Len(q)
    OBVIOUS
  <1>2. Len(q) > 0
    BY <1>1
  <1> QED
    BY <1>1, <1>2

\* Entries 1 to w leave the front of a queue.
LEMMA DrainFacts ==
    ASSUME NEW S, NEW q \in Seq(S), NEW w \in 0..Len(q)
    PROVE  /\ SubSeq(q, w + 1, Len(q)) \in Seq(S)
           /\ \A i \in DOMAIN q : \/ i \in 1..w
                                  \/ \E j \in DOMAIN SubSeq(q, w + 1, Len(q)) : SubSeq(q, w + 1, Len(q))[j] = q[i]
  <1> DEFINE s == SubSeq(q, w + 1, Len(q))
  <1>1. Len(q) \in Nat /\ w \in Nat /\ w <= Len(q) /\ DOMAIN q = 1..Len(q)
    OBVIOUS
  <1>2. s = [i \in 1..(Len(q) - w) |-> q[w + i]]
    BY <1>1
  <1>3. \A i \in 1..(Len(q) - w) : q[w + i] \in S
    BY <1>1
  <1>4. s \in Seq(S)
    BY <1>1, <1>2, <1>3
  <1>5. ASSUME NEW i \in DOMAIN q, i \notin 1..w PROVE \E j \in DOMAIN s : s[j] = q[i]
    <2>1. i - w \in 1..(Len(q) - w) /\ w + (i - w) = i
      BY <1>1, <1>5
    <2> QED
      BY <1>2, <2>1
  <1> QED
    BY <1>4, <1>5

\* set_capacity notifies as many tasks as are registered, at most.
LEMMA WokenFacts ==
    ASSUME TypeOK, NEW n \in Nat
    PROVE  Woken(n) \in 0..Len(blocked)
  <1>1. Len(buffer) \in Nat /\ Len(blocked) \in Nat
    BY DEF TypeOK
  <1> QED
    BY <1>1 DEF Woken

-----------------------------------------------------------------------------
(* Types *)

LEMMA TypeInit == Init => TypeOK
  <1> SUFFICES ASSUME Init PROVE TypeOK
    OBVIOUS
  <1>1. timer \in [Req -> {"off", "armed", "ticking", "fired"}]
    BY DEF Init
  <1>2. addrs \in 0..MaxAddr /\ fires \in 0..MaxFire /\ sets \in 0..MaxSet /\ capacity \in Nat
    BY CapAssumption, BoundAssumption DEF Init
  <1>3. buffer \in Seq(Req \union {"fire"}) /\ blocked \in Seq(Req \union {"caller"})
    BY DEF Init
  <1> QED
    BY <1>1, <1>2, <1>3 DEF Init, TypeOK

LEMMA PushType ==
    ASSUME TypeOK, NEW m \in Req \union {"fire"}, PushBack(m)
    PROVE  buffer' \in Seq(Req \union {"fire"}) /\ blockedRecv' \in BOOLEAN /\ rxNotified' \in BOOLEAN
  BY AppendFacts DEF TypeOK, PushBack

LEMMA TypeStep == TypeOK /\ [Next]_vars => TypeOK'
  <1> SUFFICES ASSUME TypeOK, [Next]_vars PROVE TypeOK'
    OBVIOUS
  <1> USE DEF Ended, chanVars, reqVars
  <1>1. ASSUME NEW r \in Req, AddrSend(r) PROVE TypeOK'
    <2>1. note' \in [Req -> BOOLEAN] /\ UNCHANGED <<addrs, rpc, timer, handled, fires, sets>>
      BY <1>1 DEF AddrSend, TypeOK
    <2>2. CASE rpc = "gone" /\ st' = [st EXCEPT ![r] = "empty"] /\ UNCHANGED <<chanVars, rxNotified, reply>>
      BY <2>1, <2>2 DEF TypeOK
    <2>3. CASE /\ PushBack(r) /\ st' = [st EXCEPT ![r] = "rx"] /\ reply' = [reply EXCEPT ![r] = "wait"]
               /\ UNCHANGED <<capacity, blocked>>
      <3>1. buffer' \in Seq(Req \union {"fire"}) /\ blockedRecv' \in BOOLEAN /\ rxNotified' \in BOOLEAN
        BY <2>3, PushType
      <3> QED
        BY <2>1, <2>3, <3>1 DEF TypeOK
    <2>4. CASE /\ blocked' = Append(blocked, IF SameTask THEN r ELSE "caller")
               /\ st' = [st EXCEPT ![r] = "info"] /\ UNCHANGED <<buffer, capacity, blockedRecv, rxNotified, reply>>
      <3>1. blocked' \in Seq(Req \union {"caller"})
        BY <2>4, AppendFacts DEF TypeOK
      <3> QED
        BY <2>1, <2>4, <3>1 DEF TypeOK
    <2> QED
      BY <1>1, <2>2, <2>3, <2>4 DEF AddrSend
  <1>2. ASSUME NEW r \in Req, PollInfo(r) PROVE TypeOK'
    <2>1. note' \in [Req -> BOOLEAN] /\ UNCHANGED <<addrs, rpc, timer, handled, fires, sets>>
      BY <1>2 DEF PollInfo, TypeOK
    <2>2. CASE st' = [st EXCEPT ![r] = "closed"] /\ UNCHANGED <<chanVars, rxNotified, reply>>
      BY <2>1, <2>2 DEF TypeOK
    <2>3. CASE /\ PushBack(r) /\ st' = [st EXCEPT ![r] = "rx"] /\ reply' = [reply EXCEPT ![r] = "wait"]
               /\ UNCHANGED <<capacity, blocked>>
      <3>1. buffer' \in Seq(Req \union {"fire"}) /\ blockedRecv' \in BOOLEAN /\ rxNotified' \in BOOLEAN
        BY <2>3, PushType
      <3> QED
        BY <2>1, <2>3, <3>1 DEF TypeOK
    <2>4. CASE /\ blocked' = Append(blocked, r)
               /\ UNCHANGED <<buffer, capacity, blockedRecv, rxNotified, st, reply>>
      <3>1. blocked' \in Seq(Req \union {"caller"})
        BY <2>4, AppendFacts DEF TypeOK
      <3> QED
        BY <2>1, <2>4, <3>1 DEF TypeOK
    <2> QED
      BY <1>2, <2>2, <2>3, <2>4 DEF PollInfo
  <1>3. ASSUME NEW r \in Req, PollRx(r) PROVE TypeOK'
    <2>1. PICK x \in {"closed", "ok", "timeout", "rx"} :
            /\ st' = [st EXCEPT ![r] = x]
            /\ timer' = [timer EXCEPT ![r] = IF x = "rx" /\ @ = "armed" THEN "ticking" ELSE @]
      BY <1>3 DEF PollRx
    <2>2. st' \in [Req -> {"new", "info", "rx", "empty"} \union Ended]
      BY <2>1 DEF TypeOK
    <2>3. timer' \in [Req -> {"off", "armed", "ticking", "fired"}]
      BY <2>1 DEF TypeOK
    <2>4. note' \in [Req -> BOOLEAN]
      BY <1>3 DEF PollRx, TypeOK
    <2> QED
      BY <1>3, <2>2, <2>3, <2>4 DEF PollRx, TypeOK
  <1>4. ASSUME NEW r \in Req, TimerFires(r) PROVE TypeOK'
    <2>1. note' \in [Req -> BOOLEAN]
      BY <1>4 DEF TimerFires, TypeOK
    <2> QED
      BY <1>4, <2>1 DEF TimerFires, TypeOK
  <1>5. ASSUME NEW r \in Req, DropRequest(r) PROVE TypeOK'
    <2>1. blockedRecv' \in BOOLEAN /\ rxNotified' \in BOOLEAN
      BY <1>5 DEF DropRequest, LastSender, TypeOK
    <2> QED
      BY <1>5, <2>1 DEF DropRequest, TypeOK
  <1>6. ASSUME NEW r \in Req, Respond(r) PROVE TypeOK'
    <2>1. reply' \in [Req -> {"none", "wait", "sent", "lost"}]
      BY <1>6 DEF Respond, TypeOK
    <2> QED
      BY <1>6, <2>1 DEF Respond, TypeOK
  <1>7. ASSUME Fire PROVE TypeOK'
    <2>1. buffer' \in Seq(Req \union {"fire"}) /\ blockedRecv' \in BOOLEAN /\ rxNotified' \in BOOLEAN
      BY <1>7, PushType DEF Fire
    <2> QED
      BY <1>7, <2>1, BoundAssumption DEF Fire, TypeOK
  <1>8. ASSUME TrySendFull PROVE TypeOK'
    <2>1. blocked' \in Seq(Req \union {"caller"})
      BY <1>8, AppendFacts DEF TrySendFull, TypeOK
    <2> QED
      BY <1>8, <2>1, BoundAssumption DEF TrySendFull, TypeOK
  <1>9. ASSUME CloneAddr \/ NewAddr PROVE TypeOK'
    BY <1>9, BoundAssumption DEF CloneAddr, NewAddr, TypeOK
  <1>10. ASSUME DropAddr PROVE TypeOK'
    <2>1. blockedRecv' \in BOOLEAN /\ rxNotified' \in BOOLEAN
      BY <1>10 DEF DropAddr, LastSender, TypeOK
    <2> QED
      BY <1>10, <2>1, BoundAssumption DEF DropAddr, TypeOK
  <1>11. ASSUME Wake PROVE TypeOK'
    BY <1>11 DEF Wake, TypeOK
  <1>12. ASSUME Pop PROVE TypeOK'
    <2>1. /\ buffer # <<>> /\ buffer' = Tail(buffer)
          /\ blocked' = blocked \/ (blocked # <<>> /\ blocked' = Tail(blocked))
          /\ handled' \subseteq Req
      <3>1. buffer # <<>> /\ buffer' = Tail(buffer)
        BY <1>12 DEF Pop
      <3>2. blocked' = IF Weak > 0 /\ blocked # <<>> THEN Tail(blocked) ELSE blocked
        BY <1>12 DEF Pop
      <3>3. handled' = IF Envelope(Head(buffer)) THEN handled \union {Head(buffer)} ELSE handled
        BY <1>12 DEF Pop
      <3>4. handled' \subseteq Req
        BY <3>3 DEF Envelope, TypeOK
      <3> QED
        BY <3>1, <3>2, <3>4
    <2>0. buffer \in Seq(Req \union {"fire"}) /\ blocked \in Seq(Req \union {"caller"})
      BY DEF TypeOK
    <2>2. buffer' \in Seq(Req \union {"fire"})
      BY <2>0, <2>1, TailFacts
    <2>3. blocked' \in Seq(Req \union {"caller"})
      BY <2>0, <2>1, TailFacts
    <2>4. reply' \in [Req -> {"none", "wait", "sent", "lost"}]
      <3>1. PICK now \in {"wait", "sent"} :
               reply' = [r \in Req |-> IF r = Head(buffer) THEN IF Envelope(Head(buffer)) THEN now ELSE "lost"
                                       ELSE reply[r]]
        BY <1>12 DEF Pop
      <3> QED
        BY <3>1 DEF TypeOK
    <2>5. note' \in [Req -> BOOLEAN]
      BY <1>12 DEF Pop
    <2> QED
      BY <1>12, <2>1, <2>2, <2>3, <2>4, <2>5 DEF Pop, TypeOK
  <1>13. ASSUME PollEmpty PROVE TypeOK'
    BY <1>13 DEF PollEmpty, TypeOK
  <1>14. ASSUME DropReceiver PROVE TypeOK'
    <2>1. reply' \in [Req -> {"none", "wait", "sent", "lost"}]
      <3>1. PICK kept \in SUBSET handled : reply' = [r \in Req |-> IF r \in Lost(kept) THEN "lost" ELSE reply[r]]
        BY <1>14 DEF DropReceiver
      <3> QED
        BY <3>1 DEF TypeOK
    <2>2. note' \in [Req -> BOOLEAN]
      <3>1. PICK kept \in SUBSET handled :
               note' = [r \in Req |-> \/ note[r]
                                      \/ r \in Lost(kept)
                                      \/ \E i \in DOMAIN blocked : blocked[i] = r]
        BY <1>14 DEF DropReceiver
      <3> QED
        BY <3>1
    <2>3. /\ buffer' = <<>> /\ blocked' = <<>> /\ rpc' = "gone" /\ blockedRecv' = FALSE
          /\ UNCHANGED <<capacity, addrs, rxNotified, st, timer, handled, fires, sets>>
      BY <1>14 DEF DropReceiver
    <2>4. buffer' \in Seq(Req \union {"fire"}) /\ blocked' \in Seq(Req \union {"caller"})
      BY <2>3
    <2>5. rpc' \in {"asleep", "polling", "gone"} /\ blockedRecv' \in BOOLEAN
      BY <2>3
    <2>6. UNCHANGED <<capacity, addrs, rxNotified, st, timer, handled, fires, sets>>
      BY <2>3
    <2> QED
      BY <2>1, <2>2, <2>4, <2>5, <2>6 DEF TypeOK
  <1>15. ASSUME NEW n \in Caps, SetCapacity(n) PROVE TypeOK'
    <2>1. n \in Nat /\ blocked \in Seq(Req \union {"caller"})
      BY CapAssumption DEF TypeOK
    <2>2. blocked' \in Seq(Req \union {"caller"})
      BY <1>15, <2>1, WokenFacts, DrainFacts DEF SetCapacity
    <2>3. note' \in [Req -> BOOLEAN]
      BY <1>15 DEF SetCapacity, TypeOK
    <2> QED
      BY <1>15, <2>1, <2>2, <2>3, BoundAssumption DEF SetCapacity, TypeOK
  <1>16. ASSUME UNCHANGED vars PROVE TypeOK'
    BY <1>16 DEF TypeOK, vars
  <1> QED
    BY <1>1, <1>2, <1>3, <1>4, <1>5, <1>6, <1>7, <1>8, <1>9, <1>10, <1>11, <1>12, <1>13, <1>14,
       <1>15, <1>16 DEF Next, Client, Receiver

\* Types of the channel and of the requests.
THEOREM TypeCorrect == Spec => []TypeOK
  BY TypeInit, TypeStep, PTL DEF Spec

-----------------------------------------------------------------------------
(* The receiving actor *)

\* A push notifies the receiver when it is registered, and it is while it sleeps
\* and a sender is left.
LEMMA PushWakes ==
    ASSUME TypeOK, ReceiverWoken, NEW m, PushBack(m), Weak > 0, rpc' = rpc
    PROVE  ReceiverWoken'
  BY DEF PushBack, ReceiverWoken, TypeOK

\* A sender that goes while the receiver sleeps leaves it registered, or was the
\* last one and wakes it.
LEMMA LastWakes ==
    ASSUME TypeOK, ReceiverWoken, LastSender, Weak > 0, UNCHANGED <<rpc, buffer>>
    PROVE  ReceiverWoken'
  BY DEF LastSender, ReceiverWoken, TypeOK

\* Steps that leave the receiver and its registration alone, and make no sender
\* where there was none.
LEMMA QuietReceiver ==
    ASSUME ReceiverWoken, UNCHANGED <<rpc, buffer, blockedRecv, rxNotified>>, Weak' > 0 => Weak > 0
    PROVE  ReceiverWoken'
  BY DEF ReceiverWoken

LEMMA ReceiverStep == TypeOK /\ TypeOK' /\ ReceiverWoken /\ [Next]_vars => ReceiverWoken'
  <1> SUFFICES ASSUME TypeOK, TypeOK', ReceiverWoken, [Next]_vars PROVE ReceiverWoken'
    OBVIOUS
  <1>a. Weak \in Nat /\ (Weak > 0 <=> addrs > 0 \/ \E r \in Req : st[r] = "info")
    BY WeakFacts
  <1>b. Weak' \in Nat /\ (Weak' > 0 <=> addrs' > 0 \/ \E r \in Req : st'[r] = "info")
    BY WeakFactsNext
  <1>t. st \in [Req -> {"new", "info", "rx", "empty"} \union Ended] /\ addrs \in Nat
    BY BoundAssumption DEF TypeOK
  <1>1. ASSUME NEW r \in Req, AddrSend(r) PROVE ReceiverWoken'
    <2>1. addrs > 0 /\ Weak > 0
      BY <1>1, <1>a DEF AddrSend
    <2>2. PushBack(r) \/ UNCHANGED <<buffer, blockedRecv, rxNotified>>
      BY <1>1 DEF AddrSend, chanVars
    <2> QED
      BY <1>1, <2>1, <2>2, PushWakes, QuietReceiver DEF AddrSend
  <1>2. ASSUME NEW r \in Req, PollInfo(r) PROVE ReceiverWoken'
    <2>1. Weak > 0
      BY <1>2, <1>a DEF PollInfo
    <2>2. PushBack(r) \/ UNCHANGED <<buffer, blockedRecv, rxNotified>>
      BY <1>2 DEF PollInfo, chanVars
    <2> QED
      BY <1>2, <2>1, <2>2, PushWakes, QuietReceiver DEF PollInfo
  <1>3. ASSUME NEW r \in Req, PollRx(r) PROVE ReceiverWoken'
    <2>1. PICK x \in {"closed", "ok", "timeout", "rx"} : st' = [st EXCEPT ![r] = x]
      BY <1>3 DEF PollRx
    <2>2. \A q \in Req : st'[q] = "info" => st[q] = "info"
      BY <1>t, <2>1
    <2>3. Weak' > 0 => Weak > 0
      BY <1>3, <1>a, <1>b, <2>2 DEF PollRx
    <2> QED
      BY <1>3, <2>3, QuietReceiver DEF PollRx, chanVars
  <1>4. ASSUME NEW r \in Req, TimerFires(r) \/ Respond(r) PROVE ReceiverWoken'
    <2>1. UNCHANGED <<st, addrs, rpc, buffer, blockedRecv, rxNotified>>
      BY <1>4 DEF TimerFires, Respond, chanVars
    <2> QED
      BY <2>1, <1>a, <1>b, QuietReceiver
  <1>5. ASSUME NEW r \in Req, DropRequest(r) PROVE ReceiverWoken'
    <2>1. CASE st[r] = "info" /\ rpc # "gone"
      <3>1. Weak > 0
        BY <1>a, <2>1
      <3> QED
        BY <1>5, <2>1, <3>1, LastWakes DEF DropRequest
    <2>2. CASE ~(st[r] = "info" /\ rpc # "gone")
      <3>1. \A q \in Req : st'[q] = "info" => st[q] = "info"
        BY <1>5, <1>t DEF DropRequest
      <3>2. Weak' > 0 => Weak > 0
        BY <1>5, <1>a, <1>b, <3>1 DEF DropRequest
      <3> QED
        BY <1>5, <2>2, <3>2, QuietReceiver DEF DropRequest
    <2> QED
      BY <2>1, <2>2
  <1>6. ASSUME Fire PROVE ReceiverWoken'
    <2>1. Weak > 0
      BY <1>6, <1>a DEF Fire
    <2> QED
      BY <1>6, <2>1, PushWakes DEF Fire
  <1>7. ASSUME TrySendFull \/ CloneAddr PROVE ReceiverWoken'
    <2>1. UNCHANGED <<rpc, buffer, blockedRecv, rxNotified>> /\ addrs > 0
      BY <1>7, <1>t DEF TrySendFull, CloneAddr, chanVars
    <2> QED
      BY <2>1, <1>a, QuietReceiver
  <1>8. ASSUME DropAddr PROVE ReceiverWoken'
    <2>1. Weak > 0
      BY <1>8, <1>a DEF DropAddr
    <2>2. CASE rpc # "gone"
      BY <1>8, <2>1, <2>2, LastWakes DEF DropAddr
    <2>3. CASE rpc = "gone"
      BY <1>8, <2>1, <2>3, QuietReceiver DEF DropAddr
    <2> QED
      BY <2>2, <2>3
  <1>9. ASSUME Wake \/ NewAddr \/ Pop \/ DropReceiver PROVE ReceiverWoken'
    <2>1. rpc' # "asleep"
      BY <1>9 DEF Wake, NewAddr, Pop, DropReceiver
    <2> QED
      BY <2>1 DEF ReceiverWoken
  <1>10. ASSUME PollEmpty PROVE ReceiverWoken'
    <2>1. UNCHANGED <<st, addrs, buffer>> /\ buffer = <<>> /\ blockedRecv' = (blockedRecv \/ Weak > 0)
      BY <1>10 DEF PollEmpty, reqVars
    <2>2. Weak' > 0 => Weak > 0
      BY <1>a, <1>b, <2>1
    <2> QED
      BY <2>1, <2>2 DEF ReceiverWoken
  <1>11. ASSUME NEW n \in Caps, SetCapacity(n) PROVE ReceiverWoken'
    BY <1>11 DEF SetCapacity, ReceiverWoken
  <1>12. ASSUME UNCHANGED vars PROVE ReceiverWoken'
    <2>1. UNCHANGED <<st, addrs, rpc, buffer, blockedRecv, rxNotified>>
      BY <1>12 DEF vars, chanVars, reqVars
    <2> QED
      BY <2>1, <1>a, <1>b, QuietReceiver
  <1> QED
    BY <1>1, <1>2, <1>3, <1>4, <1>5, <1>6, <1>7, <1>8, <1>9, <1>10, <1>11, <1>12
    DEF Next, Client, Receiver

\* unsync_channel.rs: an actor asleep on its mailbox has no message in it and is
\* registered with it while an address or a blocked request can send one, for
\* any number of addresses and requests.
THEOREM ReceiverIsWoken == Spec => []ReceiverWoken
  <1>1. Init => ReceiverWoken
    BY DEF Init, ReceiverWoken
  <1> QED
    BY <1>1, TypeCorrect, ReceiverStep, PTL DEF Spec

-----------------------------------------------------------------------------
(* The requests *)

Queued(r) == \E i \in DOMAIN buffer : buffer[i] = r
Waits(r) == \E i \in DOMAIN blocked : blocked[i] = r

\* The oneshot of a request is made when its message is queued, and only then.
Carried(r) ==
    /\ reply[r] = "none" => ~Queued(r) /\ r \notin handled
    /\ st[r] \in {"new", "info"} => reply[r] = "none"
    /\ st[r] = "rx" => reply[r] # "none"

RequestInv == RequestWakeable /\ DeliveredOnce /\ \A r \in Req : Carried(r)

\* What one step may do to a request that another task's step does not concern.
LEMMA OtherRequests ==
    ASSUME RequestInv, NEW r \in Req,
           st'[r] = st[r], timer'[r] = timer[r], reply'[r] = reply[r], rpc' = rpc,
           note'[r] <=> note[r],
           Queued(r)' <=> Queued(r), r \in handled' <=> r \in handled, Waits(r) => Waits(r)'
    PROVE  /\ Carried(r)'
           /\ ~note'[r] => /\ st'[r] = "info" => rpc' # "gone" /\ Waits(r)'
                           /\ st'[r] = "rx" => reply'[r] = "wait" /\ timer'[r] \in {"off", "ticking"}
           /\ Queued(r)' => r \notin handled'
           /\ reply'[r] = "sent" => r \in handled'
  BY DEF RequestInv, Carried, RequestWakeable, DeliveredOnce, Queued, Waits

\* The parts of the invariant for one request, and what is left for the queue.
LEMMA RequestParts ==
    ASSUME \A i, j \in DOMAIN buffer' : buffer'[i] = buffer'[j] /\ buffer'[i] \in Req => i = j,
           \A r \in Req :
              /\ Carried(r)'
              /\ ~note'[r] => /\ st'[r] = "info" => rpc' # "gone" /\ Waits(r)'
                              /\ st'[r] = "rx" => reply'[r] = "wait" /\ timer'[r] \in {"off", "ticking"}
              /\ Queued(r)' => r \notin handled'
              /\ reply'[r] = "sent" => r \in handled'
    PROVE  RequestInv'
  BY DEF RequestInv, RequestWakeable, DeliveredOnce, Queued, Waits

\* A push of a message that is not queued.
LEMMA PushOnce ==
    ASSUME TypeOK, RequestInv, NEW m \in Req \union {"fire"}, PushBack(m), m \in Req => ~Queued(m)
    PROVE  /\ \A i, j \in DOMAIN buffer' : buffer'[i] = buffer'[j] /\ buffer'[i] \in Req => i = j
           /\ \A q \in Req : Queued(q)' <=> Queued(q) \/ q = m
  <1>0. buffer \in Seq(Req \union {"fire"}) /\ buffer' = Append(buffer, m)
    BY DEF TypeOK, PushBack
  <1>1. /\ DOMAIN buffer' = DOMAIN buffer \union {Len(buffer) + 1}
        /\ \A i \in DOMAIN buffer : buffer'[i] = buffer[i]
        /\ buffer'[Len(buffer) + 1] = m
    BY <1>0, AppendFacts
  <1>2. \A i, j \in DOMAIN buffer' : buffer'[i] = buffer'[j] /\ buffer'[i] \in Req => i = j
    BY <1>1 DEF RequestInv, DeliveredOnce, Queued
  <1>3. \A q \in Req : Queued(q)' <=> Queued(q) \/ q = m
    BY <1>1 DEF Queued
  <1> QED
    BY <1>2, <1>3

\* Another task at the end of the blocked senders.
LEMMA RegisterFacts ==
    ASSUME TypeOK, NEW x \in Req \union {"caller"}, blocked' = Append(blocked, x)
    PROVE  \A q \in Req : Waits(q)' <=> Waits(q) \/ q = x
  <1>0. blocked \in Seq(Req \union {"caller"})
    BY DEF TypeOK
  <1>1. /\ DOMAIN blocked' = DOMAIN blocked \union {Len(blocked) + 1}
        /\ \A i \in DOMAIN blocked : blocked'[i] = blocked[i]
        /\ blocked'[Len(blocked) + 1] = x
    BY <1>0, AppendFacts
  <1> QED
    BY <1>1 DEF Waits

\* Addr::send, and Request::poll that sends again: the message is queued for the
\* first time, or the task that polls is registered, or is notified.
LEMMA SendInv ==
    ASSUME TypeOK, RequestInv, NEW r \in Req, AddrSend(r) \/ PollInfo(r)
    PROVE  RequestInv'
  <1>t. /\ st \in [Req -> {"new", "info", "rx", "empty"} \union Ended] /\ note \in [Req -> BOOLEAN]
        /\ reply \in [Req -> {"none", "wait", "sent", "lost"}]
    BY DEF TypeOK
  <1>1. /\ UNCHANGED <<rpc, timer, handled>>
        /\ \A q \in Req : q # r => (note'[q] <=> note[q]) /\ st'[q] = st[q] /\ reply'[q] = reply[q]
    BY <1>t DEF AddrSend, PollInfo
  <1>2. /\ st[r] \in {"new", "info"} /\ reply[r] = "none" /\ ~Queued(r) /\ r \notin handled
    BY DEF AddrSend, PollInfo, RequestInv, Carried
  <1>3. CASE PushBack(r)
    <2>1. st'[r] = "rx" /\ reply'[r] = "wait" /\ UNCHANGED blocked /\ note'[r]
      <3>1. CASE AddrSend(r)
        <4>1. HasRoom \/ ~HasRoom
          OBVIOUS
        <4>2. buffer' # buffer
          <5>1. buffer \in Seq(Req \union {"fire"})
            BY DEF TypeOK
          <5>2. Len(buffer') = Len(buffer) + 1 /\ Len(buffer) \in Nat
            BY <1>3, <5>1 DEF PushBack
          <5> QED
            BY <5>2
        <4> QED
          BY <1>t, <3>1, <4>2 DEF AddrSend, chanVars
      <3>2. CASE PollInfo(r)
        <4>2. buffer' # buffer
          <5>1. buffer \in Seq(Req \union {"fire"})
            BY DEF TypeOK
          <5>2. Len(buffer') = Len(buffer) + 1 /\ Len(buffer) \in Nat
            BY <1>3, <5>1 DEF PushBack
          <5> QED
            BY <5>2
        <4> QED
          BY <1>t, <3>2, <4>2 DEF PollInfo, chanVars
      <3> QED
        BY <3>1, <3>2
    <2>2. /\ \A i, j \in DOMAIN buffer' : buffer'[i] = buffer'[j] /\ buffer'[i] \in Req => i = j
          /\ \A q \in Req : Queued(q)' <=> Queued(q) \/ q = r
      BY <1>2, <1>3, PushOnce
    <2>3. \A q \in Req : Waits(q)' <=> Waits(q)
      BY <2>1 DEF Waits
    <2>4. Carried(r)'
      BY <2>1 DEF Carried
    <2> QED
      BY <1>1, <1>2, <2>1, <2>2, <2>3, <2>4, OtherRequests, RequestParts
  <1>4. CASE ~PushBack(r)
    <2>1. /\ UNCHANGED <<buffer, reply>>
          /\ \/ st'[r] \in {"empty", "closed"} /\ UNCHANGED blocked
             \/ /\ st'[r] = "info" /\ rpc # "gone"
                /\ \E x \in Req \union {"caller"} : /\ blocked' = Append(blocked, x)
                                                    /\ x = r \/ note'[r]
      <3>1. CASE AddrSend(r)
        BY <1>t, <1>4, <3>1 DEF AddrSend, chanVars
      <3>2. CASE PollInfo(r)
        BY <1>t, <1>4, <3>2 DEF PollInfo, chanVars
      <3> QED
        BY <3>1, <3>2
    <2>2. \A q \in Req : Queued(q)' <=> Queued(q)
      BY <2>1 DEF Queued
    <2>3. (\A q \in Req : Waits(q) => Waits(q)') /\ (st'[r] = "info" /\ ~note'[r] => Waits(r)')
      <3>1. CASE st'[r] \in {"empty", "closed"} /\ UNCHANGED blocked
        BY <3>1 DEF Waits
      <3>2. ASSUME NEW x \in Req \union {"caller"}, blocked' = Append(blocked, x), x = r \/ note'[r]
            PROVE  (\A q \in Req : Waits(q) => Waits(q)') /\ (st'[r] = "info" /\ ~note'[r] => Waits(r)')
        BY <3>2, RegisterFacts
      <3> QED
        BY <2>1, <3>1, <3>2
    <2>4. Carried(r)'
      BY <1>1, <1>2, <2>1, <2>2 DEF Carried
    <2>5. \A i, j \in DOMAIN buffer' : buffer'[i] = buffer'[j] /\ buffer'[i] \in Req => i = j
      BY <2>1 DEF RequestInv, DeliveredOnce
    <2>6. /\ ~note'[r] => /\ st'[r] = "info" => rpc' # "gone" /\ Waits(r)'
                          /\ st'[r] = "rx" => reply'[r] = "wait" /\ timer'[r] \in {"off", "ticking"}
          /\ Queued(r)' => r \notin handled'
          /\ reply'[r] = "sent" => r \in handled'
      BY <1>1, <1>2, <2>1, <2>2, <2>3
    <2>7. ASSUME NEW q \in Req, q # r
          PROVE  /\ Carried(q)'
                 /\ ~note'[q] => /\ st'[q] = "info" => rpc' # "gone" /\ Waits(q)'
                                 /\ st'[q] = "rx" => reply'[q] = "wait" /\ timer'[q] \in {"off", "ticking"}
                 /\ Queued(q)' => q \notin handled'
                 /\ reply'[q] = "sent" => q \in handled'
      <3>1. /\ st'[q] = st[q] /\ timer'[q] = timer[q] /\ reply'[q] = reply[q] /\ rpc' = rpc
            /\ (note'[q] <=> note[q]) /\ (q \in handled' <=> q \in handled)
            /\ (Queued(q)' <=> Queued(q)) /\ (Waits(q) => Waits(q)')
        BY <1>1, <2>2, <2>3, <2>7
      <3> QED
        BY <3>1, OtherRequests
    <2> QED
      BY <2>4, <2>5, <2>6, <2>7, RequestParts
  <1> QED
    BY <1>3, <1>4

\* Steps of the task or the timer of one request, and of the one that answers it:
\* they leave the queue and the blocked senders alone.
LEMMA OneRequestInv ==
    ASSUME TypeOK, RequestInv, NEW r \in Req,
           PollRx(r) \/ TimerFires(r) \/ DropRequest(r) \/ Respond(r)
    PROVE  RequestInv'
  <1>t. /\ st \in [Req -> {"new", "info", "rx", "empty"} \union Ended] /\ note \in [Req -> BOOLEAN]
        /\ reply \in [Req -> {"none", "wait", "sent", "lost"}]
        /\ timer \in [Req -> {"off", "armed", "ticking", "fired"}]
    BY DEF TypeOK
  <1>1. UNCHANGED <<rpc, handled, buffer, blocked>>
    BY DEF PollRx, TimerFires, DropRequest, Respond, chanVars
  <1>2. \A q \in Req : (Queued(q)' <=> Queued(q)) /\ (Waits(q)' <=> Waits(q))
    BY <1>1 DEF Queued, Waits
  <1>3. \A i, j \in DOMAIN buffer' : buffer'[i] = buffer'[j] /\ buffer'[i] \in Req => i = j
    BY <1>1 DEF RequestInv, DeliveredOnce
  <1>4. Carried(r) /\ (~note[r] => /\ st[r] = "info" => rpc # "gone" /\ Waits(r)
                                   /\ st[r] = "rx" => reply[r] = "wait" /\ timer[r] \in {"off", "ticking"})
        /\ (Queued(r) => r \notin handled) /\ (reply[r] = "sent" => r \in handled)
    BY DEF RequestInv, RequestWakeable, DeliveredOnce, Queued, Waits
  <1>5. /\ Carried(r)'
        /\ ~note'[r] => /\ st'[r] = "info" => rpc' # "gone" /\ Waits(r)'
                        /\ st'[r] = "rx" => reply'[r] = "wait" /\ timer'[r] \in {"off", "ticking"}
        /\ Queued(r)' => r \notin handled'
        /\ reply'[r] = "sent" => r \in handled'
    <2>1. CASE PollRx(r)
      <3>1. UNCHANGED reply /\ st[r] \in {"rx", "empty"} /\ st'[r] \in {"closed", "ok", "timeout", "rx"}
        BY <1>t, <2>1 DEF PollRx
      <3>2. st'[r] = "rx" => /\ st[r] = "rx" /\ reply[r] \notin {"lost", "sent"}
                             /\ timer'[r] \in {"off", "ticking"}
        BY <1>t, <2>1 DEF PollRx
      <3>3. st'[r] = "rx" => reply[r] = "wait"
        BY <1>t, <1>4, <3>2 DEF Carried
      <3>4. Carried(r)'
        BY <1>1, <1>2, <1>4, <3>1, <3>2 DEF Carried
      <3> QED
        BY <1>1, <1>2, <1>4, <3>1, <3>2, <3>3, <3>4
    <2>2. CASE TimerFires(r)
      <3>1. UNCHANGED <<st, reply>> /\ (note'[r] <=> note[r] \/ timer[r] = "ticking") /\ timer[r] \in {"armed", "ticking"}
        BY <1>t, <2>2 DEF TimerFires
      <3>2. ~note'[r] => ~note[r] /\ st[r] # "rx"
        BY <1>4, <3>1
      <3>3. Carried(r)'
        BY <1>1, <1>2, <1>4, <3>1 DEF Carried
      <3> QED
        BY <1>1, <1>2, <1>4, <3>1, <3>2, <3>3
    <2>3. CASE DropRequest(r)
      <3>1. UNCHANGED <<note, timer, reply>> /\ st'[r] = "dropped"
        BY <1>t, <2>3 DEF DropRequest
      <3>2. Carried(r)'
        BY <1>1, <1>2, <1>4, <3>1 DEF Carried
      <3> QED
        BY <1>1, <1>2, <1>4, <3>1, <3>2
    <2>4. CASE Respond(r)
      <3>1. UNCHANGED <<st, timer>> /\ r \in handled /\ reply[r] = "wait" /\ note'[r] /\ reply'[r] \in {"sent", "lost"}
        BY <1>t, <2>4 DEF Respond
      <3>2. Carried(r)'
        BY <1>1, <1>2, <1>4, <3>1 DEF Carried
      <3> QED
        BY <1>1, <1>2, <1>4, <3>1, <3>2
    <2> QED
      BY <2>1, <2>2, <2>3, <2>4
  <1>6. ASSUME NEW q \in Req, q # r
        PROVE  /\ Carried(q)'
               /\ ~note'[q] => /\ st'[q] = "info" => rpc' # "gone" /\ Waits(q)'
                               /\ st'[q] = "rx" => reply'[q] = "wait" /\ timer'[q] \in {"off", "ticking"}
               /\ Queued(q)' => q \notin handled'
               /\ reply'[q] = "sent" => q \in handled'
    <2>1. st'[q] = st[q] /\ timer'[q] = timer[q] /\ reply'[q] = reply[q] /\ (note'[q] <=> note[q])
      BY <1>t, <1>6 DEF PollRx, TimerFires, DropRequest, Respond
    <2> QED
      BY <1>1, <1>2, <2>1, OtherRequests
  <1> QED
    BY <1>3, <1>5, <1>6, RequestParts

\* Messages and addresses of others, and polls that find nothing.
LEMMA NoRequestInv ==
    ASSUME TypeOK, RequestInv,
           \/ Fire \/ TrySendFull \/ CloneAddr \/ DropAddr \/ Wake \/ NewAddr \/ PollEmpty
           \/ UNCHANGED vars
    PROVE  RequestInv'
  <1>1. UNCHANGED <<st, note, timer, reply, handled>> /\ (rpc = "gone" <=> rpc' = "gone")
    BY DEF Fire, TrySendFull, CloneAddr, DropAddr, Wake, NewAddr, PollEmpty, vars, reqVars
  <1>2. /\ \A i, j \in DOMAIN buffer' : buffer'[i] = buffer'[j] /\ buffer'[i] \in Req => i = j
        /\ \A q \in Req : Queued(q)' <=> Queued(q)
    <2>1. CASE Fire
      BY <2>1, PushOnce, ReqAssumption DEF Fire
    <2>2. CASE UNCHANGED buffer
      BY <2>2 DEF RequestInv, DeliveredOnce, Queued
    <2>3. Fire \/ UNCHANGED buffer
      BY DEF TrySendFull, CloneAddr, DropAddr, Wake, NewAddr, PollEmpty, vars, chanVars
    <2> QED
      BY <2>1, <2>2, <2>3
  <1>3. \A q \in Req : Waits(q) => Waits(q)'
    <2>1. CASE TrySendFull
      BY <2>1, RegisterFacts DEF TrySendFull
    <2>2. CASE UNCHANGED blocked
      BY <2>2 DEF Waits
    <2>3. TrySendFull \/ UNCHANGED blocked
      BY DEF Fire, CloneAddr, DropAddr, Wake, NewAddr, PollEmpty, vars, chanVars
    <2> QED
      BY <2>1, <2>2, <2>3
  <1>4. ASSUME NEW q \in Req
        PROVE  /\ Carried(q)'
               /\ ~note'[q] => /\ st'[q] = "info" => rpc' # "gone" /\ Waits(q)'
                               /\ st'[q] = "rx" => reply'[q] = "wait" /\ timer'[q] \in {"off", "ticking"}
               /\ Queued(q)' => q \notin handled'
               /\ reply'[q] = "sent" => q \in handled'
    BY <1>1, <1>2, <1>3 DEF RequestInv, Carried, RequestWakeable, DeliveredOnce, Queued, Waits
  <1> QED
    BY <1>2, <1>4, RequestParts

\* set_capacity: the tasks that leave the blocked senders are notified.
LEMMA SetCapacityInv ==
    ASSUME TypeOK, RequestInv, NEW n \in Caps, SetCapacity(n)
    PROVE  RequestInv'
  <1>1. /\ UNCHANGED <<buffer, rpc, st, timer, reply, handled>>
        /\ blocked' = SubSeq(blocked, Woken(n) + 1, Len(blocked))
        /\ note' = [r \in Req |-> note[r] \/ \E i \in 1..Woken(n) : blocked[i] = r]
    BY DEF SetCapacity
  <1>2. blocked \in Seq(Req \union {"caller"}) /\ Woken(n) \in 0..Len(blocked)
    BY CapAssumption, WokenFacts DEF TypeOK
  <1>3. \A i \in DOMAIN blocked : i \in 1..Woken(n) \/ \E j \in DOMAIN blocked' : blocked'[j] = blocked[i]
    BY <1>1, <1>2, DrainFacts
  <1>4. \A q \in Req : Waits(q) /\ ~note'[q] => Waits(q)'
    BY <1>1, <1>3 DEF Waits
  <1>5. \A q \in Req : Queued(q)' <=> Queued(q)
    BY <1>1 DEF Queued
  <1>6. \A i, j \in DOMAIN buffer' : buffer'[i] = buffer'[j] /\ buffer'[i] \in Req => i = j
    BY <1>1 DEF RequestInv, DeliveredOnce
  <1>7. ASSUME NEW q \in Req
        PROVE  /\ Carried(q)'
               /\ ~note'[q] => /\ st'[q] = "info" => rpc' # "gone" /\ Waits(q)'
                               /\ st'[q] = "rx" => reply'[q] = "wait" /\ timer'[q] \in {"off", "ticking"}
               /\ Queued(q)' => q \notin handled'
               /\ reply'[q] = "sent" => q \in handled'
    <2>1. ~note'[q] => ~note[q]
      BY <1>1
    <2> QED
      BY <1>1, <1>4, <1>5, <2>1 DEF RequestInv, Carried, RequestWakeable, DeliveredOnce, Queued, Waits
  <1> QED
    BY <1>6, <1>7, RequestParts

\* The receiver is dropped: every task that waits for it is notified.
LEMMA DropReceiverInv ==
    ASSUME TypeOK, RequestInv, DropReceiver
    PROVE  RequestInv'
  <1>1. buffer' = <<>> /\ blocked' = <<>> /\ UNCHANGED <<st, timer, handled>>
    BY DEF DropReceiver
  <1>2. PICK kept \in SUBSET handled :
          /\ note' = [r \in Req |-> \/ note[r]
                                    \/ r \in Lost(kept)
                                    \/ \E i \in DOMAIN blocked : blocked[i] = r]
          /\ reply' = [r \in Req |-> IF r \in Lost(kept) THEN "lost" ELSE reply[r]]
    BY DEF DropReceiver
  <1>3. DOMAIN buffer' = {}
    BY <1>1
  <1>4. ASSUME NEW q \in Req
        PROVE  /\ Carried(q)'
               /\ ~note'[q] => /\ st'[q] = "info" => rpc' # "gone" /\ Waits(q)'
                               /\ st'[q] = "rx" => reply'[q] = "wait" /\ timer'[q] \in {"off", "ticking"}
               /\ Queued(q)' => q \notin handled'
               /\ reply'[q] = "sent" => q \in handled'
    <2>1. ~note'[q] => ~note[q] /\ q \notin Lost(kept) /\ ~Waits(q)
      BY <1>2 DEF Waits
    <2>2. reply'[q] = reply[q] \/ (reply[q] = "wait" /\ reply'[q] = "lost")
      BY <1>2 DEF Lost
    <2>3. q \notin Lost(kept) => reply'[q] = reply[q]
      BY <1>2
    <2>4. ~Queued(q)'
      BY <1>3 DEF Queued
    <2>5. Carried(q)'
      BY <1>1, <2>2, <2>4 DEF RequestInv, Carried
    <2>6. ~note'[q] => st'[q] # "info"
      BY <1>1, <2>1 DEF RequestInv, RequestWakeable, Waits
    <2>7. ~note'[q] /\ st'[q] = "rx" => reply'[q] = "wait" /\ timer'[q] \in {"off", "ticking"}
      BY <1>1, <2>1, <2>3 DEF RequestInv, RequestWakeable
    <2>8. reply'[q] = "sent" => q \in handled'
      BY <1>1, <2>2 DEF RequestInv, DeliveredOnce
    <2> QED
      BY <2>4, <2>5, <2>6, <2>7, <2>8
  <1> QED
    BY <1>3, <1>4, RequestParts

\* The receiver takes a message: its request gets the answer or loses it, and one
\* blocked task is notified.
LEMMA PopInv ==
    ASSUME TypeOK, RequestInv, Pop
    PROVE  RequestInv'
  <1>t. /\ buffer \in Seq(Req \union {"fire"}) /\ blocked \in Seq(Req \union {"caller"}) /\ buffer # <<>>
        /\ st \in [Req -> {"new", "info", "rx", "empty"} \union Ended]
    BY DEF TypeOK, Pop
  <1>1. PICK m \in Req \union {"fire"} : m = Head(buffer)
    BY <1>t, TailFacts
  <1>2. buffer' = Tail(buffer) /\ UNCHANGED <<rpc, st, timer>> /\ rpc = "polling"
    BY DEF Pop
  <1>3. PICK wakes \in BOOLEAN : wakes = (Weak > 0 /\ blocked # <<>>)
    OBVIOUS
  <1>4. /\ blocked' = (IF wakes THEN Tail(blocked) ELSE blocked)
        /\ handled' = (IF Envelope(m) THEN handled \union {m} ELSE handled)
        /\ note' = [r \in Req |-> \/ note[r]
                                  \/ wakes /\ Head(blocked) = r
                                  \/ r = m /\ reply'[r] = "sent"]
    <2>1. blocked' = IF Weak > 0 /\ blocked # <<>> THEN Tail(blocked) ELSE blocked
      BY DEF Pop
    <2>2. handled' = IF Envelope(Head(buffer)) THEN handled \union {Head(buffer)} ELSE handled
      BY DEF Pop
    <2>3. note' = [r \in Req |-> \/ note[r]
                                 \/ (Weak > 0 /\ blocked # <<>>) /\ Head(blocked) = r
                                 \/ r = Head(buffer) /\ reply'[r] = "sent"]
      BY DEF Pop
    <2> QED
      BY <1>1, <1>3, <2>1, <2>2, <2>3
  <1>5. PICK now \in {"wait", "sent"} :
          reply' = [r \in Req |-> IF r = m THEN IF Envelope(m) THEN now ELSE "lost" ELSE reply[r]]
    BY <1>1 DEF Pop
  <1>6. /\ m = buffer[1] /\ 1 \in DOMAIN buffer
        /\ \A i \in DOMAIN buffer' : i \in Nat \ {0} /\ i + 1 \in DOMAIN buffer /\ buffer'[i] = buffer[i + 1]
        /\ \A i \in DOMAIN buffer : i # 1 => i - 1 \in DOMAIN buffer' /\ buffer'[i - 1] = buffer[i]
    BY <1>t, <1>1, <1>2, TailFacts
  <1>7. \A i, j \in DOMAIN buffer' : buffer'[i] = buffer'[j] /\ buffer'[i] \in Req => i = j
    <2> SUFFICES ASSUME NEW i \in DOMAIN buffer', NEW j \in DOMAIN buffer',
                        buffer'[i] = buffer'[j], buffer'[i] \in Req
                 PROVE  i = j
      OBVIOUS
    <2>1. i + 1 = j + 1
      BY <1>6 DEF RequestInv, DeliveredOnce
    <2> QED
      BY <1>6, <2>1
  <1>8. \A q \in Req : Queued(q)' <=> Queued(q) /\ q # m
    <2>1. ASSUME NEW q \in Req, Queued(q)' PROVE Queued(q) /\ q # m
      <3>1. PICK i \in DOMAIN buffer' : buffer'[i] = q
        BY <2>1 DEF Queued
      <3>2. i + 1 \in DOMAIN buffer /\ buffer[i + 1] = q /\ i + 1 # 1
        BY <1>6, <3>1
      <3>3. buffer[1] # q
        BY <1>6, <3>2 DEF RequestInv, DeliveredOnce
      <3> QED
        BY <1>6, <3>2, <3>3 DEF Queued
    <2>2. ASSUME NEW q \in Req, Queued(q), q # m PROVE Queued(q)'
      BY <1>6, <2>2 DEF Queued
    <2> QED
      BY <2>1, <2>2
  <1>9. \A q \in Req : Waits(q) /\ ~note'[q] => Waits(q)'
    <2>1. CASE ~wakes
      BY <1>4, <2>1 DEF Waits
    <2>2. CASE wakes
      <3>1. blocked' = Tail(blocked) /\ Head(blocked) = blocked[1]
            /\ \A i \in DOMAIN blocked : i # 1 => i - 1 \in DOMAIN blocked' /\ blocked'[i - 1] = blocked[i]
        BY <1>t, <1>3, <1>4, <2>2, TailFacts
      <3> QED
        BY <1>4, <2>2, <3>1 DEF Waits
    <2> QED
      BY <2>1, <2>2
  <1>10. ASSUME NEW q \in Req
         PROVE  /\ Carried(q)'
                /\ ~note'[q] => /\ st'[q] = "info" => rpc' # "gone" /\ Waits(q)'
                                /\ st'[q] = "rx" => reply'[q] = "wait" /\ timer'[q] \in {"off", "ticking"}
                /\ Queued(q)' => q \notin handled'
                /\ reply'[q] = "sent" => q \in handled'
    <2>1. ~note'[q] => ~note[q]
      BY <1>4
    <2>2. CASE q # m
      <3>1. reply'[q] = reply[q] /\ (q \in handled' <=> q \in handled)
        BY <1>4, <1>5, <2>2
      <3> QED
        BY <1>2, <1>8, <1>9, <2>1, <2>2, <3>1
        DEF RequestInv, Carried, RequestWakeable, DeliveredOnce, Queued, Waits
    <2>3. CASE q = m
      <3>1. Queued(q) /\ ~Queued(q)'
        BY <1>6, <1>8, <2>3 DEF Queued
      <3>2. reply[q] # "none" /\ st[q] \notin {"new", "info"}
        BY <3>1 DEF RequestInv, Carried
      <3>3. reply'[q] # "none" /\ (reply'[q] = "sent" => q \in handled' /\ note'[q])
        BY <1>4, <1>5, <2>3
      <3>4. st[q] = "rx" => Envelope(q)
        BY DEF Envelope, Ended
      <3>5. ~note'[q] /\ st[q] = "rx" => reply'[q] = "wait"
        BY <1>4, <1>5, <2>3, <3>3, <3>4
      <3>6. ~note'[q] /\ st[q] = "rx" => timer[q] \in {"off", "ticking"}
        BY <2>1 DEF RequestInv, RequestWakeable
      <3>7. Carried(q)'
        BY <1>2, <3>2, <3>3 DEF Carried
      <3> QED
        BY <1>2, <3>1, <3>2, <3>3, <3>5, <3>6, <3>7
    <2> QED
      BY <2>2, <2>3
  <1> QED
    BY <1>7, <1>10, RequestParts

-----------------------------------------------------------------------------
LEMMA RequestInit == Init => RequestInv
  <1> SUFFICES ASSUME Init PROVE RequestInv
    OBVIOUS
  <1>1. DOMAIN buffer = {} /\ handled = {}
    BY DEF Init
  <1>2. \A r \in Req : st[r] = "new" /\ reply[r] = "none"
    BY DEF Init
  <1>3. \A r \in Req : Carried(r)
    BY <1>1, <1>2 DEF Carried, Queued
  <1>4. RequestWakeable /\ DeliveredOnce
    BY <1>1, <1>2 DEF RequestWakeable, DeliveredOnce
  <1> QED
    BY <1>3, <1>4 DEF RequestInv

LEMMA RequestStep == TypeOK /\ RequestInv /\ [Next]_vars => RequestInv'
  BY SendInv, OneRequestInv, NoRequestInv, SetCapacityInv, DropReceiverInv, PopInv
  DEF Next, Client, Receiver

LEMMA RequestsHold == Spec => []RequestInv
  BY RequestInit, RequestStep, TypeCorrect, PTL DEF Spec

\* unsync_channel.rs and message.rs: a request that sleeps is registered with a
\* living channel, or its answer is still to come and its timeout ticks; no task
\* is forgotten by a pop, by set_capacity or by the end of the receiver.
THEOREM RequestsAreWakeable == Spec => []RequestWakeable
  BY RequestsHold, PTL DEF RequestInv

\* A message is queued once and handled once however often its request is polled,
\* and an answer comes from the handler.
THEOREM DeliveredAtMostOnce == Spec => []DeliveredOnce
  BY RequestsHold, PTL DEF RequestInv

=============================================================================
