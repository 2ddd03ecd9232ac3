-------------------------- MODULE SyncChannelProofs --------------------------
(***************************************************************************)
(* Proofs about SyncChannel for any number of senders, any capacities and  *)
(* any bounds: the inductive invariant ChannelInv, one lemma per action.   *)
(***************************************************************************)
EXTENDS SyncChannel, FiniteSetTheorems, TLAPS

IndInv == TypeOK /\ ChannelInv

\* The three loops over parked_queue and where they go on.
UnparkLoops == {<<"unpark", "wake_one", "dec">>, <<"capwake", "wake_cap", "run">>,
                <<"dropwake", "wake_drop", "drain">>}
NotifyLoops == {<<"wake_one", "dec">>, <<"wake_cap", "capwake">>, <<"wake_drop", "dropwake">>}

\* The capacities the channel is ever given have a largest one.
Bounded == \E c \in Caps \union {InitCap} : \A d \in Caps \union {InitCap} : d <= c

\* do_send's messages in the queue, and on their way into it.
DoQueued == {i \in 1..Len(messageQueue) : messageQueue[i] = "do"}
DoPushing == {s \in Sender : spc[s] = "push" /\ op[s] = "do"}

\* A sender about to count a message saw room for it.  The popped message is
\* still counted.
PressureInv ==
    /\ buffer \in Caps \union {InitCap}
    /\ \A s \in Sender : spc[s] = "cas" /\ op[s] # "do" => curr[s].num < MaxCap
    /\ isOpen => numMessages <= MaxCap + Forced + (IF rpc \in Popped THEN 1 ELSE 0)

-----------------------------------------------------------------------------
(* Facts used by several actions *)

\* What a pop does to a queue.
LEMMA TailFacts ==
    ASSUME NEW S, NEW q \in Seq(S), q # <<>>
    PROVE  /\ Tail(q) \in Seq(S) /\ Head(q) \in S /\ Head(q) = q[1]
           /\ Len(q) \in Nat /\ Len(q) > 0 /\ Len(Tail(q)) = Len(q) - 1
           /\ \A i \in 1..(Len(q) - 1) : Tail(q)[i] = q[i + 1]
           /\ \A i \in 1..Len(q) : q[i] \in S
  <1>1. Len(q) \in Nat /\ Len(q) # 0
    OBVIOUS
  <1>2. Len(q) > 0
    BY <1>1
  <1> QED
    BY <1>2

\* The states inc_num_messages can have loaded.
LEMMA LoadedType ==
    ASSUME TypeOK
    PROVE  /\ [open |-> isOpen, num |-> numMessages] \in [open : BOOLEAN, num : Nat]
           /\ NoState \in [open : BOOLEAN, num : Nat]
  BY DEF TypeOK, NoState

LEMMA PushingFinite == IsFiniteSet(Pushing) /\ Cardinality(Pushing) \in Nat
  <1>1. Pushing \subseteq Sender
    BY DEF Pushing
  <1> QED
    BY <1>1, SenderAssumption, FS_Subset, FS_CardinalityType

LEMMA HandlesFinite == IsFiniteSet(Handles) /\ Cardinality(Handles) \in Nat
  <1>1. Handles \subseteq Sender
    BY DEF Handles
  <1> QED
    BY <1>1, SenderAssumption, FS_Subset, FS_CardinalityType

\* A step of a sender that neither begins nor ends its push.
LEMMA SamePushing ==
    ASSUME TypeOK, NEW s \in Sender, NEW x, spc' = [spc EXCEPT ![s] = x],
           spc[s] # "push", x # "push"
    PROVE  Pushing' = Pushing
  BY DEF Pushing, TypeOK

LEMMA SameCount ==
    ASSUME CountExact, Pushing' = Pushing,
           UNCHANGED <<isOpen, numMessages, messageQueue, rpc>>
    PROVE  CountExact'
  BY DEF CountExact

\* A step of a sender that leaves its handle where it is.
LEMMA SameHandles ==
    ASSUME TypeOK, HandleOnce, NEW s \in Sender, NEW x, spc' = [spc EXCEPT ![s] = x],
           spc[s] # "parkpush", x # "parkpush",
           UNCHANGED <<parkedQueue, sParked, rxHandle>>
    PROVE  HandleOnce'
  <1>1. \A q \in Sender : spc'[q] = "parkpush" <=> spc[q] = "parkpush"
    BY DEF TypeOK
  <1>2. \A i \in 1..Len(parkedQueue) : parkedQueue[i] \in Sender
    BY DEF TypeOK
  <1>3. rxHandle # NoHandle => rxHandle \in Sender
    BY DEF TypeOK
  <1> QED
    BY <1>1, <1>2, <1>3 DEF HandleOnce

-----------------------------------------------------------------------------
(* One lemma per action *)

\* A client begins a call.
LEMMA CallInv ==
    ASSUME IndInv, NEW s \in Sender, NEW k \in Ops, Call(s, k)
    PROVE  IndInv'
  <1> USE SenderAssumption, HandleAssumption DEF IndInv, ChannelInv
  <1>a. PICK x \in {"load", "blocked", "idle"} :
            /\ spc' = [spc EXCEPT ![s] = x]
            /\ x = "blocked" => k = "send"
            /\ x = "load" => k = "do" \/ ~maybeParked[s] \/ ~sParked[s]
            /\ x = "load" => k = "do" \/ ~maybeParked'[s]
    BY DEF Call, PollUnparked, AfterFull, TypeOK, SenderPcs, InCall, ReceiverPcs, Waking, Popped, Dropping, AllOps, stateVars, recvVars, taskVars, rxVars, boundVars
  <1>b. /\ sParked' = sParked
        /\ maybeParked' \in [Sender -> BOOLEAN] /\ sTask' \in [Sender -> BOOLEAN]
        /\ \A q \in Sender : q # s => maybeParked'[q] = maybeParked[q]
        /\ sParked[s] => maybeParked'[s] = maybeParked[s]
    BY DEF Call, PollUnparked, TypeOK, stateVars, recvVars, taskVars, rxVars, boundVars
  <1>c. /\ UNCHANGED <<buffer, isOpen, numMessages, messageQueue, parkedQueue, numSenders>>
        /\ UNCHANGED <<recvUnparked, recvTask, curr, rpc, rxHandle, rxNotified>>
    BY DEF Call, stateVars, recvVars, taskVars, rxVars, boundVars
  <1>1. TypeOK'
    <2>1. calls' \in [Sender -> Nat] /\ woken' \in [Sender -> BOOLEAN] /\ sets' \in Nat
      BY DEF Call, TypeOK
    <2>2. op' \in [Sender -> AllOps \union {"none", "drop"}]
      BY OpsAssumption DEF Call, TypeOK
    <2>3. spc' \in [Sender -> SenderPcs]
      BY <1>a DEF TypeOK, SenderPcs, InCall
    <2> QED
      BY <1>b, <1>c, <2>1, <2>2, <2>3 DEF TypeOK
  <1>2. RxOK' /\ OpOK'
    <2>1. op' = [op EXCEPT ![s] = k] /\ k \in AllOps /\ k # "drop" /\ k # "none"
      BY OpsAssumption DEF Call, AllOps
    <2> QED
      BY <1>a, <1>c, <2>1 DEF RxOK, OpOK, InCall, TypeOK
  <1>3. ParkOK'
    <2>1. op' = [op EXCEPT ![s] = k] /\ spc[s] = "idle"
      BY DEF Call
    <2> QED
      BY <1>a, <1>b, <1>c, <2>1 DEF ParkOK, TypeOK
  <1>4. WakeOK'
    BY <1>a, <1>c DEF Call, WakeOK, TypeOK
  <1>5. NoLostMessageWakeup' /\ NoLostDisconnect'
    BY <1>a, <1>c DEF Call, NoLostMessageWakeup, NoLostDisconnect, WakePending, TypeOK
  <1>6. HandleOnce'
    BY <1>a, <1>b, <1>c, SameHandles DEF Call
  <1>7. CountExact'
    BY <1>a, <1>c, SamePushing, SameCount DEF Call
  <1>8. SendersExact'
    <2>1. Handles' = Handles
      BY <1>a, OpsAssumption DEF Call, Handles, OpOK, AllOps, TypeOK
    <2> QED
      BY <2>1, <1>c DEF SendersExact
  <1> QED
    BY <1>1, <1>2, <1>3, <1>4, <1>5, <1>6, <1>7, <1>8

\* A waiting request calls send again.
LEMMA RetryInv ==
    ASSUME IndInv, NEW s \in Sender, Retry(s)
    PROVE  IndInv'
  <1> USE SenderAssumption, HandleAssumption DEF IndInv, ChannelInv
  <1>a. PICK x \in {"load", "blocked", "idle"} :
            /\ spc' = [spc EXCEPT ![s] = x]
            /\ x = "blocked" => "send" = "send"
            /\ x = "load" => "send" = "do" \/ ~maybeParked[s] \/ ~sParked[s]
            /\ x = "load" => "send" = "do" \/ ~maybeParked'[s]
    BY DEF Retry, PollUnparked, AfterFull, TypeOK, SenderPcs, InCall, ReceiverPcs, Waking, Popped, Dropping, AllOps, stateVars, recvVars, taskVars, rxVars, boundVars
  <1>b. /\ sParked' = sParked
        /\ maybeParked' \in [Sender -> BOOLEAN] /\ sTask' \in [Sender -> BOOLEAN]
        /\ \A q \in Sender : q # s => maybeParked'[q] = maybeParked[q]
        /\ sParked[s] => maybeParked'[s] = maybeParked[s]
    BY DEF Retry, PollUnparked, TypeOK, stateVars, recvVars, taskVars, rxVars, boundVars
  <1>c. /\ UNCHANGED <<buffer, isOpen, numMessages, messageQueue, parkedQueue, numSenders>>
        /\ UNCHANGED <<recvUnparked, recvTask, curr, rpc, rxHandle, rxNotified>>
    BY DEF Retry, stateVars, recvVars, taskVars, rxVars, boundVars
  <1>1. TypeOK'
    BY <1>a, <1>b, <1>c DEF Retry, stateVars, recvVars, taskVars, rxVars, boundVars, TypeOK, SenderPcs, InCall, ReceiverPcs, Waking, Popped, Dropping, AllOps
  <1>2. RxOK' /\ OpOK'
    BY <1>a, <1>c DEF Retry, RxOK, OpOK, InCall, AllOps, TypeOK, boundVars
  <1>3. ParkOK'
    <2>1. UNCHANGED op /\ spc[s] = "blocked" /\ op[s] = "send"
      BY DEF Retry, OpOK
    <2> QED
      BY <1>a, <1>b, <1>c, <2>1 DEF ParkOK, TypeOK
  <1>4. WakeOK'
    BY <1>a, <1>c DEF Retry, WakeOK, TypeOK
  <1>5. NoLostMessageWakeup' /\ NoLostDisconnect'
    BY <1>a, <1>c DEF Retry, NoLostMessageWakeup, NoLostDisconnect, WakePending, TypeOK
  <1>6. HandleOnce'
    BY <1>a, <1>b, <1>c, SameHandles DEF Retry
  <1>7. CountExact'
    BY <1>a, <1>c, SamePushing, SameCount DEF Retry
  <1>8. SendersExact'
    <2>1. Handles' = Handles
      BY <1>a DEF Retry, Handles, OpOK, TypeOK
    <2> QED
      BY <2>1, <1>c DEF SendersExact
  <1> QED
    BY <1>1, <1>2, <1>3, <1>4, <1>5, <1>6, <1>7, <1>8

\* inc_num_messages loads the state.
LEMMA LoadInv ==
    ASSUME IndInv, NEW s \in Sender, Load(s)
    PROVE  IndInv'
  <1> USE SenderAssumption, HandleAssumption DEF IndInv, ChannelInv
  <1>1. TypeOK'
    BY DEF TypeOK, SenderPcs, InCall, ReceiverPcs, Waking, Popped, Dropping, AllOps, Load, stateVars, recvVars, taskVars, rxVars, boundVars
  <1>2. RxOK' /\ OpOK'
    BY DEF RxOK, OpOK, TypeOK, SenderPcs, InCall, ReceiverPcs, Waking, Popped, Dropping, AllOps, Load, stateVars, recvVars, taskVars, rxVars, boundVars
  <1>3. ParkOK'
    BY DEF ParkOK, OpOK, RxOK, TypeOK, SenderPcs, InCall, ReceiverPcs, Waking, Popped, Dropping, AllOps, Load, stateVars, recvVars, taskVars, rxVars, boundVars
  <1>4. WakeOK'
    BY DEF WakeOK, TypeOK, SenderPcs, InCall, ReceiverPcs, Waking, Popped, Dropping, AllOps, Load, stateVars, recvVars, taskVars, rxVars, boundVars
  <1>5. NoLostMessageWakeup' /\ NoLostDisconnect'
    BY DEF WakeOK, NoLostMessageWakeup, NoLostDisconnect, WakePending, TypeOK, SenderPcs, InCall, ReceiverPcs, Waking, Popped, Dropping, AllOps, Load, stateVars, recvVars, taskVars, rxVars, boundVars
  <1>6. HandleOnce'
    BY DEF HandleOnce, RxOK, TypeOK, SenderPcs, InCall, ReceiverPcs, Waking, Popped, Dropping, AllOps, Load, stateVars, recvVars, taskVars, rxVars, boundVars
  <1>7. CountExact'
    BY DEF CountExact, Pushing, RxOK, TypeOK, SenderPcs, InCall, ReceiverPcs, Waking, Popped, Dropping, AllOps, Load, stateVars, recvVars, taskVars, rxVars, boundVars
  <1>8. SendersExact'
    BY DEF SendersExact, Handles, OpOK, TypeOK, SenderPcs, InCall, ReceiverPcs, Waking, Popped, Dropping, AllOps, Load, stateVars, recvVars, taskVars, rxVars, boundVars
  <1> QED
    BY <1>1, <1>2, <1>3, <1>4, <1>5, <1>6, <1>7, <1>8

\* inc_num_messages decides from what it loaded.
LEMMA CheckInv ==
    ASSUME IndInv, NEW s \in Sender, Check(s)
    PROVE  IndInv'
  <1> USE SenderAssumption, HandleAssumption DEF IndInv, ChannelInv
  <1>a. PICK x \in {"idle", "park", "cas"} :
            /\ spc' = [spc EXCEPT ![s] = x]
            /\ x = "park" => curr[s].open /\ op[s] # "do"
            /\ x = "cas" => curr[s].open
    BY DEF Check, IsFull, TypeOK, SenderPcs, InCall, ReceiverPcs, Waking, Popped, Dropping, AllOps
  <1>b. curr' = curr \/ curr' = [curr EXCEPT ![s] = NoState]
    BY DEF Check
  <1>c. UNCHANGED <<buffer, isOpen, numMessages, messageQueue, parkedQueue, numSenders,
                    recvUnparked, recvTask, sParked, sTask, maybeParked, op, woken, rpc,
                    rxHandle, rxNotified, calls, sets>>
    BY DEF Check, stateVars, recvVars, taskVars, rxVars, boundVars
  <1>d. curr' \in [Sender -> [open : BOOLEAN, num : Nat]]
    BY <1>b, LoadedType DEF TypeOK
  <1>1. TypeOK'
    BY <1>a, <1>c, <1>d DEF TypeOK, SenderPcs, InCall, ReceiverPcs, Waking, Popped, Dropping, AllOps
  <1>2. RxOK' /\ OpOK'
    <2>1. RxOK'
      BY <1>c DEF RxOK
    <2>2. \A q \in Sender : q # s => curr'[q] = curr[q] /\ spc'[q] = spc[q]
      BY <1>a, <1>b DEF TypeOK
    <2>3. spc'[s] = x /\ (x = "cas" => curr'[s].open)
      BY <1>a DEF Check, TypeOK
    <2> QED
      BY <1>a, <1>c, <2>1, <2>2, <2>3 DEF OpOK, InCall, Check
  <1>3. ParkOK'
    <2>1. \A q \in Sender : q # s => curr'[q] = curr[q]
      BY <1>b DEF TypeOK
    <2>2. spc'[s] = "cas" => curr[s].open
      BY <1>a DEF TypeOK
    <2> QED
      BY <1>a, <1>c, <2>1, <2>2 DEF Check, ParkOK, TypeOK
  <1>4. WakeOK'
    BY DEF WakeOK, TypeOK, SenderPcs, InCall, ReceiverPcs, Waking, Popped, Dropping, AllOps, Check, IsFull, stateVars, recvVars, taskVars, rxVars, boundVars
  <1>5. NoLostMessageWakeup' /\ NoLostDisconnect'
    BY DEF WakeOK, NoLostMessageWakeup, NoLostDisconnect, WakePending, TypeOK, SenderPcs, InCall, ReceiverPcs, Waking, Popped, Dropping, AllOps, Check, IsFull, stateVars, recvVars, taskVars, rxVars, boundVars
  <1>6. HandleOnce'
    BY <1>a, <1>c, SameHandles DEF Check
  <1>7. CountExact'
    BY <1>a, <1>c, SamePushing, SameCount DEF Check
  <1>8. SendersExact'
    BY DEF SendersExact, Handles, OpOK, TypeOK, SenderPcs, InCall, ReceiverPcs, Waking, Popped, Dropping, AllOps, Check, IsFull, stateVars, recvVars, taskVars, rxVars, boundVars
  <1> QED
    BY <1>1, <1>2, <1>3, <1>4, <1>5, <1>6, <1>7, <1>8

\* inc_num_messages counts the message or starts over.
LEMMA CasInv ==
    ASSUME IndInv, NEW s \in Sender, Cas(s)
    PROVE  IndInv'
  <1> USE SenderAssumption, HandleAssumption DEF IndInv, ChannelInv
  <1>a. spc[s] = "cas" /\ UNCHANGED <<buffer, isOpen, messageQueue, parkedQueue, numSenders,
                    recvUnparked, recvTask, sParked, sTask, maybeParked, op, woken, rpc,
                    rxHandle, rxNotified, calls, sets>>
    BY DEF Cas, stateVars, recvVars, taskVars, rxVars, boundVars
  <1>b. PICK x \in {"push", "check"} :
            /\ spc' = [spc EXCEPT ![s] = x]
            /\ x = "push" => numMessages' = numMessages + 1
            /\ x = "check" => numMessages' = numMessages
    BY DEF Cas
  <1>c. /\ curr' = [curr EXCEPT ![s] = NoState] \/ curr' = [curr EXCEPT ![s] = [open |-> isOpen, num |-> numMessages]]
        /\ x = "check" => curr'[s].open = isOpen
    BY <1>b DEF Cas, TypeOK
  <1>d. curr' \in [Sender -> [open : BOOLEAN, num : Nat]]
    BY <1>c, LoadedType DEF TypeOK
  <1>1. TypeOK'
    <2>1. numMessages' \in Nat /\ spc' \in [Sender -> SenderPcs]
      BY <1>b DEF TypeOK, SenderPcs, InCall
    <2> QED
      BY <1>a, <1>d, <2>1 DEF TypeOK
  <1>2. RxOK' /\ OpOK'
    <2>1. RxOK'
      BY <1>a DEF RxOK
    <2>2. \A q \in Sender : q # s => curr'[q] = curr[q] /\ spc'[q] = spc[q]
      BY <1>b, <1>c DEF TypeOK
    <2>3. spc'[s] = x
      BY <1>b DEF TypeOK
    <2> QED
      BY <1>a, <2>1, <2>2, <2>3 DEF OpOK, InCall
  <1>3. ParkOK'
    <2>1. \A q \in Sender : q # s => curr'[q] = curr[q]
      BY <1>c DEF TypeOK
    <2> QED
      BY <1>a, <1>b, <1>c, <2>1 DEF ParkOK, TypeOK
  <1>4. WakeOK'
    BY DEF WakeOK, TypeOK, SenderPcs, InCall, ReceiverPcs, Waking, Popped, Dropping, AllOps, Cas, stateVars, recvVars, taskVars, rxVars, boundVars
  <1>5. NoLostMessageWakeup' /\ NoLostDisconnect'
    BY DEF WakeOK, NoLostMessageWakeup, NoLostDisconnect, WakePending, TypeOK, SenderPcs, InCall, ReceiverPcs, Waking, Popped, Dropping, AllOps, Cas, stateVars, recvVars, taskVars, rxVars, boundVars
  <1>6. HandleOnce'
    BY <1>a, <1>b, SameHandles
  <1>7. CountExact'
    <2>1. CASE x = "check"
      BY <2>1, <1>a, <1>b, SamePushing, SameCount
    <2>2. CASE x = "push"
      <3>1. Pushing' = Pushing \union {s} /\ s \notin Pushing
        BY <2>2, <1>a, <1>b DEF Pushing, TypeOK
      <3>2. IsFiniteSet(Pushing) /\ Cardinality(Pushing) \in Nat
        BY PushingFinite
      <3>3. Cardinality(Pushing') = Cardinality(Pushing) + 1
        BY <3>1, <3>2, FS_AddElement
      <3> QED
        BY <2>2, <3>2, <3>3, <1>a, <1>b DEF CountExact, TypeOK
    <2> QED
      BY <2>1, <2>2
  <1>8. SendersExact'
    BY DEF SendersExact, Handles, OpOK, TypeOK, SenderPcs, InCall, ReceiverPcs, Waking, Popped, Dropping, AllOps, Cas, stateVars, recvVars, taskVars, rxVars, boundVars
  <1> QED
    BY <1>1, <1>2, <1>3, <1>4, <1>5, <1>6, <1>7, <1>8

\* A counted message enters the queue.
LEMMA PushInv ==
    ASSUME IndInv, NEW s \in Sender, Push(s)
    PROVE  IndInv'
  <1> USE SenderAssumption, HandleAssumption DEF IndInv, ChannelInv
  <1>1. TypeOK'
    <2>1. op[s] \in AllOps
      BY DEF Push, OpOK, InCall
    <2>2. messageQueue' \in Seq(AllOps)
      BY <2>1 DEF Push, TypeOK
    <2>3. spc' \in [Sender -> SenderPcs]
      BY DEF Push, TypeOK, SenderPcs
    <2> QED
      BY <2>2, <2>3 DEF Push, TypeOK, stateVars, recvVars, taskVars, rxVars, boundVars
  <1>2. RxOK' /\ OpOK'
    BY DEF RxOK, OpOK, TypeOK, SenderPcs, InCall, ReceiverPcs, Waking, Popped, Dropping, AllOps, Push, stateVars, recvVars, taskVars, rxVars, boundVars
  <1>3. ParkOK'
    BY DEF ParkOK, OpOK, RxOK, TypeOK, SenderPcs, InCall, ReceiverPcs, Waking, Popped, Dropping, AllOps, Push, stateVars, recvVars, taskVars, rxVars, boundVars
  <1>4. WakeOK'
    BY DEF WakeOK, TypeOK, SenderPcs, InCall, ReceiverPcs, Waking, Popped, Dropping, AllOps, Push, stateVars, recvVars, taskVars, rxVars, boundVars
  <1>5. NoLostMessageWakeup' /\ NoLostDisconnect'
    BY DEF WakeOK, NoLostMessageWakeup, NoLostDisconnect, WakePending, TypeOK, SenderPcs, InCall, ReceiverPcs, Waking, Popped, Dropping, AllOps, Push, stateVars, recvVars, taskVars, rxVars, boundVars
  <1>6. HandleOnce'
    BY DEF HandleOnce, RxOK, TypeOK, SenderPcs, InCall, ReceiverPcs, Waking, Popped, Dropping, AllOps, Push, stateVars, recvVars, taskVars, rxVars, boundVars
  <1>7. CountExact'
    <2>1. Pushing' = Pushing \ {s} /\ s \in Pushing
      BY DEF Push, Pushing, TypeOK
    <2>2. IsFiniteSet(Pushing) /\ Cardinality(Pushing) \in Nat
      BY PushingFinite
    <2>3. Cardinality(Pushing') = Cardinality(Pushing) - 1
      BY <2>1, <2>2, FS_RemoveElement
    <2>4. Len(messageQueue') = Len(messageQueue) + 1 /\ Len(messageQueue) \in Nat
      <3>1. op[s] \in AllOps
        BY DEF Push, OpOK, InCall
      <3> QED
        BY <3>1 DEF Push, TypeOK
    <2> QED
      BY <2>2, <2>3, <2>4 DEF Push, CountExact, TypeOK, stateVars, recvVars, taskVars, rxVars, boundVars
  <1>8. SendersExact'
    BY DEF SendersExact, Handles, OpOK, TypeOK, SenderPcs, InCall, ReceiverPcs, Waking, Popped, Dropping, AllOps, Push, stateVars, recvVars, taskVars, rxVars, boundVars
  <1> QED
    BY <1>1, <1>2, <1>3, <1>4, <1>5, <1>6, <1>7, <1>8

\* A sender signals the receiver.
LEMMA SignalInv ==
    ASSUME IndInv, NEW s \in Sender, Signal(s)
    PROVE  IndInv'
  <1> USE SenderAssumption, HandleAssumption DEF IndInv, ChannelInv
  <1>1. TypeOK'
    BY DEF TypeOK, SenderPcs, InCall, ReceiverPcs, Waking, Popped, Dropping, AllOps, Signal, AfterDone, stateVars, recvVars, taskVars, rxVars, boundVars
  <1>2. RxOK' /\ OpOK'
    BY DEF RxOK, OpOK, TypeOK, SenderPcs, InCall, ReceiverPcs, Waking, Popped, Dropping, AllOps, Signal, AfterDone, stateVars, recvVars, taskVars, rxVars, boundVars
  <1>3. ParkOK'
    BY DEF ParkOK, OpOK, RxOK, TypeOK, SenderPcs, InCall, ReceiverPcs, Waking, Popped, Dropping, AllOps, Signal, AfterDone, stateVars, recvVars, taskVars, rxVars, boundVars
  <1>4. WakeOK'
    BY DEF WakeOK, TypeOK, SenderPcs, InCall, ReceiverPcs, Waking, Popped, Dropping, AllOps, Signal, AfterDone, stateVars, recvVars, taskVars, rxVars, boundVars
  <1>5. NoLostMessageWakeup' /\ NoLostDisconnect'
    BY DEF WakeOK, NoLostMessageWakeup, NoLostDisconnect, WakePending, TypeOK, SenderPcs, InCall, ReceiverPcs, Waking, Popped, Dropping, AllOps, Signal, AfterDone, stateVars, recvVars, taskVars, rxVars, boundVars
  <1>6. HandleOnce'
    BY DEF HandleOnce, RxOK, TypeOK, SenderPcs, InCall, ReceiverPcs, Waking, Popped, Dropping, AllOps, Signal, AfterDone, stateVars, recvVars, taskVars, rxVars, boundVars
  <1>7. CountExact'
    BY DEF CountExact, Pushing, RxOK, TypeOK, SenderPcs, InCall, ReceiverPcs, Waking, Popped, Dropping, AllOps, Signal, AfterDone, stateVars, recvVars, taskVars, rxVars, boundVars
  <1>8. SendersExact'
    BY DEF SendersExact, Handles, OpOK, TypeOK, SenderPcs, InCall, ReceiverPcs, Waking, Popped, Dropping, AllOps, Signal, AfterDone, stateVars, recvVars, taskVars, rxVars, boundVars
  <1> QED
    BY <1>1, <1>2, <1>3, <1>4, <1>5, <1>6, <1>7, <1>8

\* A sender notifies the receiver's task.
LEMMA NotifyInv ==
    ASSUME IndInv, NEW s \in Sender, Notify(s)
    PROVE  IndInv'
  <1> USE SenderAssumption, HandleAssumption DEF IndInv, ChannelInv
  <1>1. TypeOK'
    BY DEF TypeOK, SenderPcs, InCall, ReceiverPcs, Waking, Popped, Dropping, AllOps, Notify, AfterDone, stateVars, recvVars, taskVars, rxVars, boundVars
  <1>2. RxOK' /\ OpOK'
    BY DEF RxOK, OpOK, TypeOK, SenderPcs, InCall, ReceiverPcs, Waking, Popped, Dropping, AllOps, Notify, AfterDone, stateVars, recvVars, taskVars, rxVars, boundVars
  <1>3. ParkOK'
    BY DEF ParkOK, OpOK, RxOK, TypeOK, SenderPcs, InCall, ReceiverPcs, Waking, Popped, Dropping, AllOps, Notify, AfterDone, stateVars, recvVars, taskVars, rxVars, boundVars
  <1>4. WakeOK'
    BY DEF WakeOK, TypeOK, SenderPcs, InCall, ReceiverPcs, Waking, Popped, Dropping, AllOps, Notify, AfterDone, stateVars, recvVars, taskVars, rxVars, boundVars
  <1>5. NoLostMessageWakeup' /\ NoLostDisconnect'
    BY DEF WakeOK, NoLostMessageWakeup, NoLostDisconnect, WakePending, TypeOK, SenderPcs, InCall, ReceiverPcs, Waking, Popped, Dropping, AllOps, Notify, AfterDone, stateVars, recvVars, taskVars, rxVars, boundVars
  <1>6. HandleOnce'
    BY DEF HandleOnce, RxOK, TypeOK, SenderPcs, InCall, ReceiverPcs, Waking, Popped, Dropping, AllOps, Notify, AfterDone, stateVars, recvVars, taskVars, rxVars, boundVars
  <1>7. CountExact'
    BY DEF CountExact, Pushing, RxOK, TypeOK, SenderPcs, InCall, ReceiverPcs, Waking, Popped, Dropping, AllOps, Notify, AfterDone, stateVars, recvVars, taskVars, rxVars, boundVars
  <1>8. SendersExact'
    BY DEF SendersExact, Handles, OpOK, TypeOK, SenderPcs, InCall, ReceiverPcs, Waking, Popped, Dropping, AllOps, Notify, AfterDone, stateVars, recvVars, taskVars, rxVars, boundVars
  <1> QED
    BY <1>1, <1>2, <1>3, <1>4, <1>5, <1>6, <1>7, <1>8

\* A sender marks itself parked.
LEMMA ParkInv ==
    ASSUME IndInv, NEW s \in Sender, Park(s)
    PROVE  IndInv'
  <1> USE SenderAssumption, HandleAssumption DEF IndInv, ChannelInv
  <1>1. TypeOK'
    BY DEF TypeOK, SenderPcs, InCall, ReceiverPcs, Waking, Popped, Dropping, AllOps, Park, stateVars, recvVars, taskVars, rxVars, boundVars
  <1>2. RxOK' /\ OpOK'
    BY DEF RxOK, OpOK, TypeOK, SenderPcs, InCall, ReceiverPcs, Waking, Popped, Dropping, AllOps, Park, stateVars, recvVars, taskVars, rxVars, boundVars
  <1>3. ParkOK'
    BY DEF ParkOK, OpOK, RxOK, TypeOK, SenderPcs, InCall, ReceiverPcs, Waking, Popped, Dropping, AllOps, Park, stateVars, recvVars, taskVars, rxVars, boundVars
  <1>4. WakeOK'
    BY DEF WakeOK, TypeOK, SenderPcs, InCall, ReceiverPcs, Waking, Popped, Dropping, AllOps, Park, stateVars, recvVars, taskVars, rxVars, boundVars
  <1>5. NoLostMessageWakeup' /\ NoLostDisconnect'
    BY DEF WakeOK, NoLostMessageWakeup, NoLostDisconnect, WakePending, TypeOK, SenderPcs, InCall, ReceiverPcs, Waking, Popped, Dropping, AllOps, Park, stateVars, recvVars, taskVars, rxVars, boundVars
  <1>6. HandleOnce'
    <2>1. /\ spc[s] = "park" /\ spc' = [spc EXCEPT ![s] = "parkpush"]
          /\ sParked' = [sParked EXCEPT ![s] = TRUE]
          /\ UNCHANGED <<parkedQueue, rxHandle>>
      BY DEF Park, stateVars, recvVars, taskVars, rxVars, boundVars
    <2>2. ~sParked[s]
      BY <2>1 DEF ParkOK
    <2>3. rxHandle # s /\ \A i \in 1..Len(parkedQueue) : parkedQueue[i] # s /\ parkedQueue[i] \in Sender
      BY <2>2 DEF HandleOnce, TypeOK
    <2> QED
      BY <2>1, <2>2, <2>3 DEF HandleOnce, TypeOK
  <1>7. CountExact'
    BY DEF CountExact, Pushing, RxOK, TypeOK, SenderPcs, InCall, ReceiverPcs, Waking, Popped, Dropping, AllOps, Park, stateVars, recvVars, taskVars, rxVars, boundVars
  <1>8. SendersExact'
    BY DEF SendersExact, Handles, OpOK, TypeOK, SenderPcs, InCall, ReceiverPcs, Waking, Popped, Dropping, AllOps, Park, stateVars, recvVars, taskVars, rxVars, boundVars
  <1> QED
    BY <1>1, <1>2, <1>3, <1>4, <1>5, <1>6, <1>7, <1>8

\* A sender hands its handle to the receiver.
LEMMA ParkPushInv ==
    ASSUME IndInv, NEW s \in Sender, ParkPush(s)
    PROVE  IndInv'
  <1> USE SenderAssumption, HandleAssumption DEF IndInv, ChannelInv
  <1>1. TypeOK'
    BY DEF TypeOK, SenderPcs, InCall, ReceiverPcs, Waking, Popped, Dropping, AllOps, ParkPush, stateVars, recvVars, taskVars, rxVars, boundVars
  <1>2. RxOK' /\ OpOK'
    BY DEF RxOK, OpOK, TypeOK, SenderPcs, InCall, ReceiverPcs, Waking, Popped, Dropping, AllOps, ParkPush, stateVars, recvVars, taskVars, rxVars, boundVars
  <1>3. ParkOK'
    BY DEF ParkOK, OpOK, RxOK, TypeOK, SenderPcs, InCall, ReceiverPcs, Waking, Popped, Dropping, AllOps, ParkPush, stateVars, recvVars, taskVars, rxVars, boundVars
  <1>4. WakeOK'
    BY DEF WakeOK, TypeOK, SenderPcs, InCall, ReceiverPcs, Waking, Popped, Dropping, AllOps, ParkPush, stateVars, recvVars, taskVars, rxVars, boundVars
  <1>5. NoLostMessageWakeup' /\ NoLostDisconnect'
    BY DEF WakeOK, NoLostMessageWakeup, NoLostDisconnect, WakePending, TypeOK, SenderPcs, InCall, ReceiverPcs, Waking, Popped, Dropping, AllOps, ParkPush, stateVars, recvVars, taskVars, rxVars, boundVars
  <1>6. HandleOnce'
    <2>1. /\ spc[s] = "parkpush" /\ spc' = [spc EXCEPT ![s] = "parkcheck"]
          /\ parkedQueue' = Append(parkedQueue, s) /\ UNCHANGED <<sParked, rxHandle>>
      BY DEF ParkPush, stateVars, recvVars, taskVars, rxVars, boundVars
    <2> DEFINE L == Len(parkedQueue)
    <2>2. /\ L \in Nat /\ Len(parkedQueue') = L + 1 /\ parkedQueue'[L + 1] = s
          /\ \A i \in 1..L : parkedQueue'[i] = parkedQueue[i] /\ parkedQueue[i] \in Sender
      BY <2>1 DEF TypeOK
    <2>3. /\ rxHandle # s /\ sParked[s]
          /\ \A i \in 1..L : parkedQueue[i] # s
      BY <2>1 DEF HandleOnce, ParkOK, TypeOK
    <2>4. \A i, j \in 1..Len(parkedQueue') : parkedQueue'[i] = parkedQueue'[j] => i = j
      BY <2>2, <2>3 DEF HandleOnce
    <2>5. ASSUME NEW i \in 1..Len(parkedQueue')
          PROVE  sParked'[parkedQueue'[i]] /\ parkedQueue'[i] # rxHandle' /\ spc'[parkedQueue'[i]] # "parkpush"
      <3>1. CASE i = L + 1
        BY <3>1, <2>1, <2>2, <2>3 DEF TypeOK
      <3>2. CASE i \in 1..L
        BY <3>2, <2>1, <2>2, <2>3 DEF HandleOnce, TypeOK
      <3> QED
        BY <3>1, <3>2, <2>2
    <2>6. rxHandle' # NoHandle => sParked'[rxHandle'] /\ spc'[rxHandle'] # "parkpush"
      BY <2>1, <2>3 DEF HandleOnce, TypeOK
    <2>7. ASSUME NEW q \in Sender, sParked'[q]
          PROVE  \/ spc'[q] = "parkpush"
                 \/ rxHandle' = q
                 \/ \E i \in 1..Len(parkedQueue') : parkedQueue'[i] = q
      <3>1. CASE q = s
        <4>1. L + 1 \in 1..Len(parkedQueue')
          BY <2>2
        <4> QED
          BY <3>1, <4>1, <2>2
      <3>2. CASE q # s
        <4>1. \/ spc[q] = "parkpush" \/ rxHandle = q
              \/ \E i \in 1..L : parkedQueue[i] = q
          BY <2>1, <2>7 DEF HandleOnce
        <4>2. 1..L \subseteq 1..Len(parkedQueue')
          BY <2>2
        <4> QED
          BY <3>2, <4>1, <4>2, <2>1, <2>2 DEF TypeOK
      <3> QED
        BY <3>1, <3>2
    <2> QED
      BY <2>4, <2>5, <2>6, <2>7 DEF HandleOnce
  <1>7. CountExact'
    BY DEF CountExact, Pushing, RxOK, TypeOK, SenderPcs, InCall, ReceiverPcs, Waking, Popped, Dropping, AllOps, ParkPush, stateVars, recvVars, taskVars, rxVars, boundVars
  <1>8. SendersExact'
    BY DEF SendersExact, Handles, OpOK, TypeOK, SenderPcs, InCall, ReceiverPcs, Waking, Popped, Dropping, AllOps, ParkPush, stateVars, recvVars, taskVars, rxVars, boundVars
  <1> QED
    BY <1>1, <1>2, <1>3, <1>4, <1>5, <1>6, <1>7, <1>8

\* A sender looks whether it was closed out.
LEMMA ParkCheckInv ==
    ASSUME IndInv, NEW s \in Sender, ParkCheck(s)
    PROVE  IndInv'
  <1> USE SenderAssumption, HandleAssumption DEF IndInv, ChannelInv
  <1>1. TypeOK'
    BY DEF TypeOK, SenderPcs, InCall, ReceiverPcs, Waking, Popped, Dropping, AllOps, ParkCheck, AfterFull, stateVars, recvVars, taskVars, rxVars, boundVars
  <1>2. RxOK' /\ OpOK'
    BY DEF RxOK, OpOK, TypeOK, SenderPcs, InCall, ReceiverPcs, Waking, Popped, Dropping, AllOps, ParkCheck, AfterFull, stateVars, recvVars, taskVars, rxVars, boundVars
  <1>3. ParkOK'
    BY DEF ParkOK, OpOK, RxOK, TypeOK, SenderPcs, InCall, ReceiverPcs, Waking, Popped, Dropping, AllOps, ParkCheck, AfterFull, stateVars, recvVars, taskVars, rxVars, boundVars
  <1>4. WakeOK'
    BY DEF WakeOK, TypeOK, SenderPcs, InCall, ReceiverPcs, Waking, Popped, Dropping, AllOps, ParkCheck, AfterFull, stateVars, recvVars, taskVars, rxVars, boundVars
  <1>5. NoLostMessageWakeup' /\ NoLostDisconnect'
    BY DEF WakeOK, NoLostMessageWakeup, NoLostDisconnect, WakePending, TypeOK, SenderPcs, InCall, ReceiverPcs, Waking, Popped, Dropping, AllOps, ParkCheck, AfterFull, stateVars, recvVars, taskVars, rxVars, boundVars
  <1>6. HandleOnce'
    BY DEF HandleOnce, RxOK, TypeOK, SenderPcs, InCall, ReceiverPcs, Waking, Popped, Dropping, AllOps, ParkCheck, AfterFull, stateVars, recvVars, taskVars, rxVars, boundVars
  <1>7. CountExact'
    BY DEF CountExact, Pushing, RxOK, TypeOK, SenderPcs, InCall, ReceiverPcs, Waking, Popped, Dropping, AllOps, ParkCheck, AfterFull, stateVars, recvVars, taskVars, rxVars, boundVars
  <1>8. SendersExact'
    BY DEF SendersExact, Handles, OpOK, TypeOK, SenderPcs, InCall, ReceiverPcs, Waking, Popped, Dropping, AllOps, ParkCheck, AfterFull, stateVars, recvVars, taskVars, rxVars, boundVars
  <1> QED
    BY <1>1, <1>2, <1>3, <1>4, <1>5, <1>6, <1>7, <1>8

\* A handle is cloned.
LEMMA CloneInv ==
    ASSUME IndInv, NEW s \in Sender, NEW t \in Sender, Clone(s, t)
    PROVE  IndInv'
  <1> USE SenderAssumption, HandleAssumption DEF IndInv, ChannelInv
  <1>1. TypeOK'
    BY DEF TypeOK, SenderPcs, InCall, ReceiverPcs, Waking, Popped, Dropping, AllOps, Clone, stateVars, recvVars, taskVars, rxVars, boundVars
  <1>2. RxOK' /\ OpOK'
    BY DEF RxOK, OpOK, TypeOK, SenderPcs, InCall, ReceiverPcs, Waking, Popped, Dropping, AllOps, Clone, stateVars, recvVars, taskVars, rxVars, boundVars
  <1>3. ParkOK'
    BY DEF ParkOK, OpOK, RxOK, TypeOK, SenderPcs, InCall, ReceiverPcs, Waking, Popped, Dropping, AllOps, Clone, stateVars, recvVars, taskVars, rxVars, boundVars
  <1>4. WakeOK'
    BY DEF WakeOK, TypeOK, SenderPcs, InCall, ReceiverPcs, Waking, Popped, Dropping, AllOps, Clone, stateVars, recvVars, taskVars, rxVars, boundVars
  <1>5. NoLostMessageWakeup' /\ NoLostDisconnect'
    BY DEF WakeOK, NoLostMessageWakeup, NoLostDisconnect, WakePending, TypeOK, SenderPcs, InCall, ReceiverPcs, Waking, Popped, Dropping, AllOps, Clone, stateVars, recvVars, taskVars, rxVars, boundVars
  <1>6. HandleOnce'
    BY DEF HandleOnce, RxOK, TypeOK, SenderPcs, InCall, ReceiverPcs, Waking, Popped, Dropping, AllOps, Clone, stateVars, recvVars, taskVars, rxVars, boundVars
  <1>7. CountExact'
    BY DEF CountExact, Pushing, RxOK, TypeOK, SenderPcs, InCall, ReceiverPcs, Waking, Popped, Dropping, AllOps, Clone, stateVars, recvVars, taskVars, rxVars, boundVars
  <1>8. SendersExact'
    <2>1. Handles' = Handles \union {t} /\ t \notin Handles
      BY DEF Clone, Handles, OpOK, TypeOK
    <2>2. IsFiniteSet(Handles) /\ Cardinality(Handles) \in Nat
      BY HandlesFinite
    <2>3. Cardinality(Handles') = Cardinality(Handles) + 1
      BY <2>1, <2>2, FS_AddElement
    <2> QED
      BY <2>2, <2>3 DEF Clone, SendersExact
  <1> QED
    BY <1>1, <1>2, <1>3, <1>4, <1>5, <1>6, <1>7, <1>8

\* A handle is dropped.
LEMMA DropSenderInv ==
    ASSUME IndInv, NEW s \in Sender, DropSender(s)
    PROVE  IndInv'
  <1> USE SenderAssumption, HandleAssumption DEF IndInv, ChannelInv
  <1>a. Handles' = Handles \ {s} /\ s \in Handles
    BY DEF DropSender, Handles, OpOK, TypeOK
  <1>b. IsFiniteSet(Handles) /\ Cardinality(Handles) \in Nat
    BY HandlesFinite
  <1>c. Cardinality(Handles') = Cardinality(Handles) - 1 /\ Cardinality(Handles') \in Nat
    BY <1>a, <1>b, FS_RemoveElement, FS_CardinalityType
  <1>d. numSenders' = Cardinality(Handles')
    BY <1>b, <1>c DEF DropSender, SendersExact
  <1>1. TypeOK'
    BY <1>c, <1>d DEF DropSender, TypeOK, SenderPcs, InCall, ReceiverPcs, Waking, Popped, Dropping, AllOps, stateVars, recvVars, taskVars, rxVars, boundVars
  <1>2. RxOK' /\ OpOK'
    BY DEF RxOK, OpOK, TypeOK, SenderPcs, InCall, ReceiverPcs, Waking, Popped, Dropping, AllOps, DropSender, stateVars, recvVars, taskVars, rxVars, boundVars
  <1>3. ParkOK'
    BY DEF ParkOK, OpOK, RxOK, TypeOK, SenderPcs, InCall, ReceiverPcs, Waking, Popped, Dropping, AllOps, DropSender, stateVars, recvVars, taskVars, rxVars, boundVars
  <1>4. WakeOK'
    BY DEF WakeOK, TypeOK, SenderPcs, InCall, ReceiverPcs, Waking, Popped, Dropping, AllOps, DropSender, stateVars, recvVars, taskVars, rxVars, boundVars
  <1>5. NoLostMessageWakeup' /\ NoLostDisconnect'
    BY DEF WakeOK, NoLostMessageWakeup, NoLostDisconnect, WakePending, TypeOK, SenderPcs, InCall, ReceiverPcs, Waking, Popped, Dropping, AllOps, DropSender, stateVars, recvVars, taskVars, rxVars, boundVars
  <1>6. HandleOnce'
    BY DEF HandleOnce, RxOK, TypeOK, SenderPcs, InCall, ReceiverPcs, Waking, Popped, Dropping, AllOps, DropSender, stateVars, recvVars, taskVars, rxVars, boundVars
  <1>7. CountExact'
    BY DEF CountExact, Pushing, RxOK, TypeOK, SenderPcs, InCall, ReceiverPcs, Waking, Popped, Dropping, AllOps, DropSender, stateVars, recvVars, taskVars, rxVars, boundVars
  <1>8. SendersExact'
    BY <1>d DEF SendersExact
  <1> QED
    BY <1>1, <1>2, <1>3, <1>4, <1>5, <1>6, <1>7, <1>8

\* The receiver hands out a handle.
LEMMA NewSenderInv ==
    ASSUME IndInv, NEW s \in Sender, NewSender(s)
    PROVE  IndInv'
  <1> USE SenderAssumption, HandleAssumption DEF IndInv, ChannelInv
  <1>1. TypeOK'
    BY DEF TypeOK, SenderPcs, InCall, ReceiverPcs, Waking, Popped, Dropping, AllOps, NewSender, stateVars, recvVars, taskVars, rxVars, boundVars
  <1>2. RxOK' /\ OpOK'
    BY DEF RxOK, OpOK, TypeOK, SenderPcs, InCall, ReceiverPcs, Waking, Popped, Dropping, AllOps, NewSender, stateVars, recvVars, taskVars, rxVars, boundVars
  <1>3. ParkOK'
    BY DEF ParkOK, OpOK, RxOK, TypeOK, SenderPcs, InCall, ReceiverPcs, Waking, Popped, Dropping, AllOps, NewSender, stateVars, recvVars, taskVars, rxVars, boundVars
  <1>4. WakeOK'
    BY DEF WakeOK, TypeOK, SenderPcs, InCall, ReceiverPcs, Waking, Popped, Dropping, AllOps, NewSender, stateVars, recvVars, taskVars, rxVars, boundVars
  <1>5. NoLostMessageWakeup' /\ NoLostDisconnect'
    BY DEF WakeOK, NoLostMessageWakeup, NoLostDisconnect, WakePending, TypeOK, SenderPcs, InCall, ReceiverPcs, Waking, Popped, Dropping, AllOps, NewSender, stateVars, recvVars, taskVars, rxVars, boundVars
  <1>6. HandleOnce'
    BY DEF HandleOnce, RxOK, TypeOK, SenderPcs, InCall, ReceiverPcs, Waking, Popped, Dropping, AllOps, NewSender, stateVars, recvVars, taskVars, rxVars, boundVars
  <1>7. CountExact'
    BY DEF CountExact, Pushing, RxOK, TypeOK, SenderPcs, InCall, ReceiverPcs, Waking, Popped, Dropping, AllOps, NewSender, stateVars, recvVars, taskVars, rxVars, boundVars
  <1>8. SendersExact'
    <2>1. Handles' = Handles \union {s} /\ s \notin Handles
      BY DEF NewSender, Handles, OpOK, TypeOK
    <2>2. IsFiniteSet(Handles) /\ Cardinality(Handles) \in Nat
      BY HandlesFinite
    <2>3. Cardinality(Handles') = Cardinality(Handles) + 1
      BY <2>1, <2>2, FS_AddElement
    <2> QED
      BY <2>2, <2>3 DEF NewSender, SendersExact
  <1> QED
    BY <1>1, <1>2, <1>3, <1>4, <1>5, <1>6, <1>7, <1>8

\* The receiver's task is scheduled.
LEMMA TaskInv ==
    ASSUME IndInv, Poll \/ Stop \/ Connected \/ Wake \/ SpuriousWake \/ \E c \in Caps : SetCapacity(c)
    PROVE  IndInv'
  <1> USE SenderAssumption, HandleAssumption DEF IndInv, ChannelInv
  <1>a. UNCHANGED <<isOpen, numMessages, messageQueue, parkedQueue, numSenders, recvUnparked,
                    recvTask, sParked, sTask, maybeParked, spc, op, curr, woken, rxHandle, calls>>
    BY DEF Poll, Stop, Connected, Wake, SpuriousWake, SetCapacity, stateVars, recvVars, taskVars, rxVars, boundVars
  <1>1. TypeOK'
    <2>1. buffer' \in Nat /\ sets' \in Nat
      BY CapAssumption DEF Poll, Stop, Connected, Wake, SpuriousWake, SetCapacity, TypeOK, stateVars, recvVars, taskVars, rxVars, boundVars
    <2>2. rpc' \in ReceiverPcs /\ rxNotified' \in BOOLEAN
      BY DEF Poll, Stop, Connected, Wake, SpuriousWake, SetCapacity, TypeOK, ReceiverPcs, stateVars, recvVars, taskVars, rxVars, boundVars
    <2> QED
      BY <1>a, <2>1, <2>2 DEF TypeOK
  <1>2. RxOK' /\ OpOK'
    BY DEF RxOK, OpOK, TypeOK, SenderPcs, InCall, ReceiverPcs, Waking, Popped, Dropping, AllOps, Poll, Stop, Connected, Wake, SpuriousWake, SetCapacity, stateVars, recvVars, taskVars, rxVars, boundVars
  <1>3. ParkOK'
    BY DEF ParkOK, OpOK, RxOK, TypeOK, SenderPcs, InCall, ReceiverPcs, Waking, Popped, Dropping, AllOps, Poll, Stop, Connected, Wake, SpuriousWake, SetCapacity, stateVars, recvVars, taskVars, rxVars, boundVars
  <1>4. WakeOK'
    BY DEF WakeOK, TypeOK, SenderPcs, InCall, ReceiverPcs, Waking, Popped, Dropping, AllOps, Poll, Stop, Connected, Wake, SpuriousWake, SetCapacity, stateVars, recvVars, taskVars, rxVars, boundVars
  <1>5. NoLostMessageWakeup' /\ NoLostDisconnect'
    BY DEF WakeOK, NoLostMessageWakeup, NoLostDisconnect, WakePending, TypeOK, SenderPcs, InCall, ReceiverPcs, Waking, Popped, Dropping, AllOps, Poll, Stop, Connected, Wake, SpuriousWake, SetCapacity, stateVars, recvVars, taskVars, rxVars, boundVars
  <1>6. HandleOnce'
    BY <1>a DEF HandleOnce
  <1>7. CountExact'
    BY DEF CountExact, Pushing, RxOK, TypeOK, SenderPcs, InCall, ReceiverPcs, Waking, Popped, Dropping, AllOps, Poll, Stop, Connected, Wake, SpuriousWake, SetCapacity, stateVars, recvVars, taskVars, rxVars, boundVars
  <1>8. SendersExact'
    BY <1>a DEF SendersExact, Handles
  <1> QED
    BY <1>1, <1>2, <1>3, <1>4, <1>5, <1>6, <1>7, <1>8

\* The receiver pops a message or finds none.
LEMMA PopInv ==
    ASSUME IndInv, Pop
    PROVE  IndInv'
  <1> USE SenderAssumption, HandleAssumption DEF IndInv, ChannelInv
  <1>1. TypeOK'
    <2>1. messageQueue' \in Seq(AllOps)
      <3>1. messageQueue \in Seq(AllOps)
        BY DEF TypeOK
      <3> QED
        BY <3>1, TailFacts DEF Pop
    <2> QED
      BY <2>1 DEF Pop, TypeOK, SenderPcs, InCall, ReceiverPcs, Waking, Popped, Dropping, AllOps, stateVars, recvVars, taskVars, rxVars, boundVars
  <1>2. RxOK' /\ OpOK'
    BY DEF RxOK, OpOK, TypeOK, SenderPcs, InCall, ReceiverPcs, Waking, Popped, Dropping, AllOps, Pop, stateVars, recvVars, taskVars, rxVars, boundVars
  <1>3. ParkOK'
    BY DEF ParkOK, OpOK, RxOK, TypeOK, SenderPcs, InCall, ReceiverPcs, Waking, Popped, Dropping, AllOps, Pop, stateVars, recvVars, taskVars, rxVars, boundVars
  <1>4. WakeOK'
    BY DEF WakeOK, TypeOK, SenderPcs, InCall, ReceiverPcs, Waking, Popped, Dropping, AllOps, Pop, stateVars, recvVars, taskVars, rxVars, boundVars
  <1>5. NoLostMessageWakeup' /\ NoLostDisconnect'
    BY DEF WakeOK, NoLostMessageWakeup, NoLostDisconnect, WakePending, TypeOK, SenderPcs, InCall, ReceiverPcs, Waking, Popped, Dropping, AllOps, Pop, stateVars, recvVars, taskVars, rxVars, boundVars
  <1>6. HandleOnce'
    BY DEF HandleOnce, RxOK, TypeOK, SenderPcs, InCall, ReceiverPcs, Waking, Popped, Dropping, AllOps, Pop, stateVars, recvVars, taskVars, rxVars, boundVars
  <1>7. CountExact'
    <2>1. Pushing' = Pushing /\ Cardinality(Pushing) \in Nat
      BY PushingFinite DEF Pop, Pushing
    <2>2. CASE messageQueue = <<>>
      BY <2>1, <2>2 DEF Pop, CountExact, Popped, stateVars, recvVars, taskVars, rxVars, boundVars
    <2>3. CASE messageQueue # <<>>
      <3>1. Len(messageQueue') = Len(messageQueue) - 1 /\ Len(messageQueue) \in Nat
        BY <2>3, TailFacts DEF Pop, TypeOK
      <3> QED
        BY <2>1, <2>3, <3>1 DEF Pop, CountExact, Popped, TypeOK, stateVars, recvVars, taskVars, rxVars, boundVars
    <2> QED
      BY <2>2, <2>3
  <1>8. SendersExact'
    BY DEF SendersExact, Handles, OpOK, TypeOK, SenderPcs, InCall, ReceiverPcs, Waking, Popped, Dropping, AllOps, Pop, stateVars, recvVars, taskVars, rxVars, boundVars
  <1> QED
    BY <1>1, <1>2, <1>3, <1>4, <1>5, <1>6, <1>7, <1>8

\* The receiver parks or consumes a signal.
LEMMA TryParkInv ==
    ASSUME IndInv, TryPark
    PROVE  IndInv'
  <1> USE SenderAssumption, HandleAssumption DEF IndInv, ChannelInv
  <1>1. TypeOK'
    BY DEF TypeOK, SenderPcs, InCall, ReceiverPcs, Waking, Popped, Dropping, AllOps, TryPark, stateVars, recvVars, taskVars, rxVars, boundVars
  <1>2. RxOK' /\ OpOK'
    BY DEF RxOK, OpOK, TypeOK, SenderPcs, InCall, ReceiverPcs, Waking, Popped, Dropping, AllOps, TryPark, stateVars, recvVars, taskVars, rxVars, boundVars
  <1>3. ParkOK'
    BY DEF ParkOK, OpOK, RxOK, TypeOK, SenderPcs, InCall, ReceiverPcs, Waking, Popped, Dropping, AllOps, TryPark, stateVars, recvVars, taskVars, rxVars, boundVars
  <1>4. WakeOK'
    BY DEF WakeOK, TypeOK, SenderPcs, InCall, ReceiverPcs, Waking, Popped, Dropping, AllOps, TryPark, stateVars, recvVars, taskVars, rxVars, boundVars
  <1>5. NoLostMessageWakeup' /\ NoLostDisconnect'
    BY DEF WakeOK, NoLostMessageWakeup, NoLostDisconnect, WakePending, TypeOK, SenderPcs, InCall, ReceiverPcs, Waking, Popped, Dropping, AllOps, TryPark, stateVars, recvVars, taskVars, rxVars, boundVars
  <1>6. HandleOnce'
    BY DEF HandleOnce, RxOK, TypeOK, SenderPcs, InCall, ReceiverPcs, Waking, Popped, Dropping, AllOps, TryPark, stateVars, recvVars, taskVars, rxVars, boundVars
  <1>7. CountExact'
    BY DEF CountExact, Pushing, RxOK, TypeOK, SenderPcs, InCall, ReceiverPcs, Waking, Popped, Dropping, AllOps, TryPark, stateVars, recvVars, taskVars, rxVars, boundVars
  <1>8. SendersExact'
    BY DEF SendersExact, Handles, OpOK, TypeOK, SenderPcs, InCall, ReceiverPcs, Waking, Popped, Dropping, AllOps, TryPark, stateVars, recvVars, taskVars, rxVars, boundVars
  <1> QED
    BY <1>1, <1>2, <1>3, <1>4, <1>5, <1>6, <1>7, <1>8

\* The receiver uncounts the message.
LEMMA DecInv ==
    ASSUME IndInv, Dec
    PROVE  IndInv'
  <1> USE SenderAssumption, HandleAssumption DEF IndInv, ChannelInv
  <1>a. /\ rpc = "dec" /\ isOpen /\ numMessages' = numMessages - 1 /\ rpc' = "run"
        /\ UNCHANGED <<isOpen, messageQueue, spc>>
    BY DEF Dec, RxOK, Dropping
  <1>b. Pushing' = Pushing /\ Cardinality(Pushing) \in Nat /\ Len(messageQueue) \in Nat
    BY <1>a, PushingFinite DEF Pushing, TypeOK
  <1>c. numMessages = Len(messageQueue) + Cardinality(Pushing) + 1
    BY <1>a DEF CountExact, Popped
  <1>1. TypeOK'
    BY <1>a, <1>b, <1>c DEF Dec, TypeOK, SenderPcs, InCall, ReceiverPcs, Waking, Popped, Dropping, AllOps, stateVars, recvVars, taskVars, rxVars, boundVars
  <1>2. RxOK' /\ OpOK'
    BY DEF RxOK, OpOK, TypeOK, SenderPcs, InCall, ReceiverPcs, Waking, Popped, Dropping, AllOps, Dec, stateVars, recvVars, taskVars, rxVars, boundVars
  <1>3. ParkOK'
    BY DEF ParkOK, OpOK, RxOK, TypeOK, SenderPcs, InCall, ReceiverPcs, Waking, Popped, Dropping, AllOps, Dec, stateVars, recvVars, taskVars, rxVars, boundVars
  <1>4. WakeOK'
    BY DEF WakeOK, TypeOK, SenderPcs, InCall, ReceiverPcs, Waking, Popped, Dropping, AllOps, Dec, stateVars, recvVars, taskVars, rxVars, boundVars
  <1>5. NoLostMessageWakeup' /\ NoLostDisconnect'
    BY DEF WakeOK, NoLostMessageWakeup, NoLostDisconnect, WakePending, TypeOK, SenderPcs, InCall, ReceiverPcs, Waking, Popped, Dropping, AllOps, Dec, stateVars, recvVars, taskVars, rxVars, boundVars
  <1>6. HandleOnce'
    BY DEF HandleOnce, RxOK, TypeOK, SenderPcs, InCall, ReceiverPcs, Waking, Popped, Dropping, AllOps, Dec, stateVars, recvVars, taskVars, rxVars, boundVars
  <1>7. CountExact'
    BY <1>a, <1>b, <1>c DEF CountExact, Popped
  <1>8. SendersExact'
    BY DEF SendersExact, Handles, OpOK, TypeOK, SenderPcs, InCall, ReceiverPcs, Waking, Popped, Dropping, AllOps, Dec, stateVars, recvVars, taskVars, rxVars, boundVars
  <1> QED
    BY <1>1, <1>2, <1>3, <1>4, <1>5, <1>6, <1>7, <1>8

\* The receiver closes the channel.
LEMMA CloseInv ==
    ASSUME IndInv, Close
    PROVE  IndInv'
  <1> USE SenderAssumption, HandleAssumption DEF IndInv, ChannelInv
  <1>1. TypeOK'
    BY DEF TypeOK, SenderPcs, InCall, ReceiverPcs, Waking, Popped, Dropping, AllOps, Close, stateVars, recvVars, taskVars, rxVars, boundVars
  <1>2. RxOK' /\ OpOK'
    BY DEF RxOK, OpOK, TypeOK, SenderPcs, InCall, ReceiverPcs, Waking, Popped, Dropping, AllOps, Close, stateVars, recvVars, taskVars, rxVars, boundVars
  <1>3. ParkOK'
    BY DEF ParkOK, OpOK, RxOK, TypeOK, SenderPcs, InCall, ReceiverPcs, Waking, Popped, Dropping, AllOps, Close, stateVars, recvVars, taskVars, rxVars, boundVars
  <1>4. WakeOK'
    BY DEF WakeOK, TypeOK, SenderPcs, InCall, ReceiverPcs, Waking, Popped, Dropping, AllOps, Close, stateVars, recvVars, taskVars, rxVars, boundVars
  <1>5. NoLostMessageWakeup' /\ NoLostDisconnect'
    BY DEF WakeOK, NoLostMessageWakeup, NoLostDisconnect, WakePending, TypeOK, SenderPcs, InCall, ReceiverPcs, Waking, Popped, Dropping, AllOps, Close, stateVars, recvVars, taskVars, rxVars, boundVars
  <1>6. HandleOnce'
    BY DEF HandleOnce, RxOK, TypeOK, SenderPcs, InCall, ReceiverPcs, Waking, Popped, Dropping, AllOps, Close, stateVars, recvVars, taskVars, rxVars, boundVars
  <1>7. CountExact'
    BY DEF CountExact, Pushing, RxOK, TypeOK, SenderPcs, InCall, ReceiverPcs, Waking, Popped, Dropping, AllOps, Close, stateVars, recvVars, taskVars, rxVars, boundVars
  <1>8. SendersExact'
    BY DEF SendersExact, Handles, OpOK, TypeOK, SenderPcs, InCall, ReceiverPcs, Waking, Popped, Dropping, AllOps, Close, stateVars, recvVars, taskVars, rxVars, boundVars
  <1> QED
    BY <1>1, <1>2, <1>3, <1>4, <1>5, <1>6, <1>7, <1>8

\* The dropped receiver drains the queue.
LEMMA DrainInv ==
    ASSUME IndInv, Drain
    PROVE  IndInv'
  <1> USE SenderAssumption, HandleAssumption DEF IndInv, ChannelInv
  <1>1. TypeOK'
    <2>1. messageQueue' \in Seq(AllOps)
      <3>1. messageQueue \in Seq(AllOps)
        BY DEF TypeOK
      <3> QED
        BY <3>1, TailFacts DEF Drain
    <2> QED
      BY <2>1 DEF Drain, TypeOK, SenderPcs, InCall, ReceiverPcs, Waking, Popped, Dropping, AllOps, stateVars, recvVars, taskVars, rxVars, boundVars
  <1>2. RxOK' /\ OpOK'
    BY DEF RxOK, OpOK, TypeOK, SenderPcs, InCall, ReceiverPcs, Waking, Popped, Dropping, AllOps, Drain, stateVars, recvVars, taskVars, rxVars, boundVars
  <1>3. ParkOK'
    BY DEF ParkOK, OpOK, RxOK, TypeOK, SenderPcs, InCall, ReceiverPcs, Waking, Popped, Dropping, AllOps, Drain, stateVars, recvVars, taskVars, rxVars, boundVars
  <1>4. WakeOK'
    BY DEF WakeOK, TypeOK, SenderPcs, InCall, ReceiverPcs, Waking, Popped, Dropping, AllOps, Drain, stateVars, recvVars, taskVars, rxVars, boundVars
  <1>5. NoLostMessageWakeup' /\ NoLostDisconnect'
    BY DEF WakeOK, NoLostMessageWakeup, NoLostDisconnect, WakePending, TypeOK, SenderPcs, InCall, ReceiverPcs, Waking, Popped, Dropping, AllOps, Drain, stateVars, recvVars, taskVars, rxVars, boundVars
  <1>6. HandleOnce'
    BY DEF HandleOnce, RxOK, TypeOK, SenderPcs, InCall, ReceiverPcs, Waking, Popped, Dropping, AllOps, Drain, stateVars, recvVars, taskVars, rxVars, boundVars
  <1>7. CountExact'
    BY DEF CountExact, Pushing, RxOK, TypeOK, SenderPcs, InCall, ReceiverPcs, Waking, Popped, Dropping, AllOps, Drain, stateVars, recvVars, taskVars, rxVars, boundVars
  <1>8. SendersExact'
    BY DEF SendersExact, Handles, OpOK, TypeOK, SenderPcs, InCall, ReceiverPcs, Waking, Popped, Dropping, AllOps, Drain, stateVars, recvVars, taskVars, rxVars, boundVars
  <1> QED
    BY <1>1, <1>2, <1>3, <1>4, <1>5, <1>6, <1>7, <1>8

\* The receiver pops a parked handle.
LEMMA UnparkPopInv ==
    ASSUME IndInv, NEW from, NEW wake, NEW after, <<from, wake, after>> \in UnparkLoops, UnparkPop(from, wake, after)
    PROVE  IndInv'
  <1> USE SenderAssumption, HandleAssumption DEF IndInv, ChannelInv
  <1>1. TypeOK'
    <2>1. parkedQueue' \in Seq(Sender) /\ rxHandle' \in Sender \union {NoHandle}
      <3>1. parkedQueue \in Seq(Sender) /\ rxHandle \in Sender \union {NoHandle}
        BY DEF TypeOK
      <3> QED
        BY <3>1, TailFacts DEF UnparkPop
    <2> QED
      BY <2>1 DEF UnparkPop, UnparkLoops, TypeOK, SenderPcs, InCall, ReceiverPcs, Waking, Popped, Dropping, AllOps, stateVars, recvVars, taskVars, rxVars, boundVars
  <1>2. RxOK' /\ OpOK'
    BY DEF RxOK, OpOK, TypeOK, SenderPcs, InCall, ReceiverPcs, Waking, Popped, Dropping, AllOps, UnparkPop, UnparkLoops, stateVars, recvVars, taskVars, rxVars, boundVars
  <1>3. ParkOK'
    BY DEF ParkOK, OpOK, RxOK, TypeOK, SenderPcs, InCall, ReceiverPcs, Waking, Popped, Dropping, AllOps, UnparkPop, UnparkLoops, stateVars, recvVars, taskVars, rxVars, boundVars
  <1>4. WakeOK'
    BY DEF WakeOK, TypeOK, SenderPcs, InCall, ReceiverPcs, Waking, Popped, Dropping, AllOps, UnparkPop, UnparkLoops, stateVars, recvVars, taskVars, rxVars, boundVars
  <1>5. NoLostMessageWakeup' /\ NoLostDisconnect'
    BY DEF WakeOK, NoLostMessageWakeup, NoLostDisconnect, WakePending, TypeOK, SenderPcs, InCall, ReceiverPcs, Waking, Popped, Dropping, AllOps, UnparkPop, UnparkLoops, stateVars, recvVars, taskVars, rxVars, boundVars
  <1>6. HandleOnce'
    <2>1. UNCHANGED <<sParked, spc>> /\ rxHandle = NoHandle
      BY DEF UnparkPop, UnparkLoops, RxOK, Waking, stateVars, recvVars, taskVars, rxVars, boundVars
    <2>2. CASE parkedQueue = <<>>
      BY <2>1, <2>2 DEF UnparkPop, HandleOnce
    <2>3. CASE parkedQueue # <<>>
      <3> DEFINE L == Len(parkedQueue)
      <3>1. /\ L \in Nat /\ L > 0 /\ Len(parkedQueue') = L - 1 /\ rxHandle' = parkedQueue[1]
            /\ \A i \in 1..(L - 1) : parkedQueue'[i] = parkedQueue[i + 1]
            /\ \A i \in 1..L : parkedQueue[i] \in Sender
        <4>1. parkedQueue \in Seq(Sender)
          BY DEF TypeOK
        <4> QED
          BY <2>3, <4>1, TailFacts DEF UnparkPop
      <3>2. ASSUME NEW i \in 1..(L - 1), NEW j \in 1..(L - 1), parkedQueue'[i] = parkedQueue'[j]
            PROVE  i = j
        <4>1. i + 1 \in 1..L /\ j + 1 \in 1..L /\ parkedQueue[i + 1] = parkedQueue[j + 1]
          BY <3>1, <3>2
        <4>2. i + 1 = j + 1
          BY <4>1 DEF HandleOnce
        <4> QED
          BY <4>2, <3>1
      <3>3. ASSUME NEW i \in 1..(L - 1)
            PROVE  /\ sParked[parkedQueue'[i]] /\ spc[parkedQueue'[i]] # "parkpush"
                   /\ parkedQueue'[i] # rxHandle'
        <4>1. i + 1 \in 1..L /\ 1 \in 1..L /\ i + 1 # 1 /\ parkedQueue'[i] = parkedQueue[i + 1]
          BY <3>1
        <4> QED
          BY <4>1, <3>1 DEF HandleOnce
      <3>4. sParked[rxHandle'] /\ spc[rxHandle'] # "parkpush"
        BY <3>1 DEF HandleOnce
      <3>5. ASSUME NEW q \in Sender, sParked[q], spc[q] # "parkpush", rxHandle' # q
            PROVE  \E i \in 1..(L - 1) : parkedQueue'[i] = q
        <4>1. PICK i \in 1..L : parkedQueue[i] = q
          BY <3>5, <2>1, HandleAssumption DEF HandleOnce
        <4>2. i - 1 \in 1..(L - 1) /\ parkedQueue'[i - 1] = parkedQueue[(i - 1) + 1] /\ (i - 1) + 1 = i
          BY <4>1, <3>1, <3>5
        <4> QED
          BY <4>1, <4>2
      <3> QED
        BY <2>1, <3>1, <3>2, <3>3, <3>4, <3>5 DEF HandleOnce
    <2> QED
      BY <2>2, <2>3
  <1>7. CountExact'
    BY DEF CountExact, Pushing, RxOK, TypeOK, SenderPcs, InCall, ReceiverPcs, Waking, Popped, Dropping, AllOps, UnparkPop, UnparkLoops, stateVars, recvVars, taskVars, rxVars, boundVars
  <1>8. SendersExact'
    BY DEF SendersExact, Handles, OpOK, TypeOK, SenderPcs, InCall, ReceiverPcs, Waking, Popped, Dropping, AllOps, UnparkPop, UnparkLoops, stateVars, recvVars, taskVars, rxVars, boundVars
  <1> QED
    BY <1>1, <1>2, <1>3, <1>4, <1>5, <1>6, <1>7, <1>8

\* The receiver unparks the handle it popped.
LEMMA NotifyHandleInv ==
    ASSUME IndInv, NEW from, NEW after, <<from, after>> \in NotifyLoops, NotifyHandle(from, after)
    PROVE  IndInv'
  <1> USE SenderAssumption, HandleAssumption DEF IndInv, ChannelInv
  <1>1. TypeOK'
    BY DEF TypeOK, SenderPcs, InCall, ReceiverPcs, Waking, Popped, Dropping, AllOps, NotifyHandle, NotifyLoops, stateVars, recvVars, taskVars, rxVars, boundVars
  <1>2. RxOK' /\ OpOK'
    BY DEF RxOK, OpOK, TypeOK, SenderPcs, InCall, ReceiverPcs, Waking, Popped, Dropping, AllOps, NotifyHandle, NotifyLoops, stateVars, recvVars, taskVars, rxVars, boundVars
  <1>3. ParkOK'
    BY DEF ParkOK, HandleOnce, RxOK, NotifyHandle, NotifyLoops, Waking, Dropping, TypeOK, stateVars, recvVars, taskVars, rxVars, boundVars
  <1>4. WakeOK'
    BY DEF WakeOK, TypeOK, SenderPcs, InCall, ReceiverPcs, Waking, Popped, Dropping, AllOps, NotifyHandle, NotifyLoops, stateVars, recvVars, taskVars, rxVars, boundVars
  <1>5. NoLostMessageWakeup' /\ NoLostDisconnect'
    BY DEF WakeOK, NoLostMessageWakeup, NoLostDisconnect, WakePending, TypeOK, SenderPcs, InCall, ReceiverPcs, Waking, Popped, Dropping, AllOps, NotifyHandle, NotifyLoops, stateVars, recvVars, taskVars, rxVars, boundVars
  <1>6. HandleOnce'
    BY DEF HandleOnce, RxOK, TypeOK, SenderPcs, InCall, ReceiverPcs, Waking, Popped, Dropping, AllOps, NotifyHandle, NotifyLoops, stateVars, recvVars, taskVars, rxVars, boundVars
  <1>7. CountExact'
    BY DEF CountExact, Pushing, RxOK, TypeOK, SenderPcs, InCall, ReceiverPcs, Waking, Popped, Dropping, AllOps, NotifyHandle, NotifyLoops, stateVars, recvVars, taskVars, rxVars, boundVars
  <1>8. SendersExact'
    BY DEF SendersExact, Handles, OpOK, TypeOK, SenderPcs, InCall, ReceiverPcs, Waking, Popped, Dropping, AllOps, NotifyHandle, NotifyLoops, stateVars, recvVars, taskVars, rxVars, boundVars
  <1> QED
    BY <1>1, <1>2, <1>3, <1>4, <1>5, <1>6, <1>7, <1>8

-----------------------------------------------------------------------------

\* channel() establishes the invariant.
LEMMA InitInv == Init => IndInv
  <1> SUFFICES ASSUME Init PROVE IndInv
    OBVIOUS
  <1> USE SenderAssumption, HandleAssumption, CapAssumption
  <1>1. TypeOK
    <2>1. spc \in [Sender -> SenderPcs] /\ rpc \in ReceiverPcs
      BY DEF Init, SenderPcs, ReceiverPcs
    <2>2. curr \in [Sender -> [open : BOOLEAN, num : Nat]]
      BY DEF Init, NoState
    <2>3. /\ sParked \in [Sender -> BOOLEAN] /\ sTask \in [Sender -> BOOLEAN]
          /\ maybeParked \in [Sender -> BOOLEAN] /\ woken \in [Sender -> BOOLEAN]
      BY DEF Init
    <2>4. calls \in [Sender -> Nat] /\ op \in [Sender -> AllOps \union {"none", "drop"}]
      BY DEF Init
    <2>5. messageQueue \in Seq(AllOps) /\ parkedQueue \in Seq(Sender)
      BY DEF Init
    <2>6. /\ buffer \in Nat /\ isOpen \in BOOLEAN /\ numMessages \in Nat /\ numSenders \in Nat
          /\ recvUnparked \in BOOLEAN /\ recvTask \in BOOLEAN /\ rxNotified \in BOOLEAN
          /\ rxHandle \in Sender \union {NoHandle} /\ sets \in Nat
      BY DEF Init
    <2> QED
      BY <2>1, <2>2, <2>3, <2>4, <2>5, <2>6 DEF TypeOK
  <1>2. RxOK /\ OpOK /\ ParkOK
    BY DEF Init, RxOK, OpOK, ParkOK, Dropping, Waking, InCall
  <1>3. WakeOK /\ NoLostMessageWakeup /\ NoLostDisconnect
    BY DEF Init, WakeOK, NoLostMessageWakeup, NoLostDisconnect
  <1>4. HandleOnce
    <2>1. Len(parkedQueue) = 0 /\ 1..Len(parkedQueue) = {}
      BY DEF Init
    <2> QED
      BY <2>1 DEF Init, HandleOnce
  <1>5. CountExact
    <2>1. Pushing = {}
      BY DEF Init, Pushing
    <2> QED
      BY <2>1, FS_EmptySet DEF Init, CountExact, Popped
  <1>6. SendersExact
    <2>1. Handles = {First}
      BY DEF Init, Handles
    <2> QED
      BY <2>1, FS_Singleton DEF Init, SendersExact
  <1> QED
    BY <1>1, <1>2, <1>3, <1>4, <1>5, <1>6 DEF IndInv, ChannelInv

LEMMA StutterInv ==
    ASSUME IndInv, UNCHANGED vars
    PROVE  IndInv'
  <1> USE DEF IndInv, ChannelInv
  <1>1. TypeOK' /\ RxOK' /\ OpOK' /\ ParkOK'
    BY DEF vars, TypeOK, RxOK, OpOK, ParkOK
  <1>2. WakeOK' /\ NoLostMessageWakeup' /\ NoLostDisconnect'
    BY DEF vars, WakeOK, NoLostMessageWakeup, NoLostDisconnect, WakePending
  <1>3. HandleOnce'
    BY DEF vars, HandleOnce
  <1>4. CountExact' /\ SendersExact'
    BY DEF vars, CountExact, SendersExact, Pushing, Handles
  <1> QED
    BY <1>1, <1>2, <1>3, <1>4

\* Every step of every thread preserves the invariant.
LEMMA StepInv == IndInv /\ [Next]_vars => IndInv'
  <1> SUFFICES ASSUME IndInv, [Next]_vars PROVE IndInv'
    OBVIOUS
  <1>1. ASSUME NEW s \in Sender, NEW k \in Ops, Call(s, k) PROVE IndInv'
    BY <1>1, CallInv
  <1>2. ASSUME NEW s \in Sender, Retry(s) PROVE IndInv'
    BY <1>2, RetryInv
  <1>3. ASSUME NEW s \in Sender, SenderStep(s) PROVE IndInv'
    BY <1>3, LoadInv, CheckInv, CasInv, PushInv, SignalInv, NotifyInv, ParkInv, ParkPushInv, ParkCheckInv
       DEF SenderStep
  <1>4. ASSUME NEW s \in Sender, NEW t \in Sender, Clone(s, t) PROVE IndInv'
    BY <1>4, CloneInv
  <1>5. ASSUME NEW s \in Sender, DropSender(s) PROVE IndInv'
    BY <1>5, DropSenderInv
  <1>6. ASSUME NEW s \in Sender, NewSender(s) PROVE IndInv'
    BY <1>6, NewSenderInv
  <1>7. CASE ReceiverStep
    <2>1. CASE UnparkOne \/ CapWake \/ DropWake
      BY <2>1, UnparkPopInv, NotifyHandleInv DEF UnparkOne, CapWake, DropWake, UnparkLoops, NotifyLoops
    <2>2. CASE Poll \/ Connected
      BY <2>2, TaskInv
    <2>3. CASE Pop \/ TryPark \/ Dec \/ Close \/ Drain
      BY <2>3, PopInv, TryParkInv, DecInv, CloseInv, DrainInv
    <2> QED
      BY <1>7, <2>1, <2>2, <2>3 DEF ReceiverStep
  <1>8. CASE Wake \/ SpuriousWake \/ Stop \/ \E c \in Caps : SetCapacity(c)
    BY <1>8, TaskInv
  <1>9. CASE UNCHANGED vars
    BY <1>9, StutterInv
  <1> QED
    BY <1>1, <1>2, <1>3, <1>4, <1>5, <1>6, <1>7, <1>8, <1>9 DEF Next

LEMMA Invariance == Spec => []IndInv
  BY InitInv, StepInv, PTL DEF Spec

-----------------------------------------------------------------------------

\* The channel keeps its types; in particular num_messages and num_senders
\* never underflow.
THEOREM TypeCorrect == Spec => []TypeOK
  BY Invariance, PTL DEF IndInv

\* The inductive invariant holds for every number of senders.
THEOREM ChannelCorrect == Spec => []ChannelInv
  BY Invariance, PTL DEF IndInv

\* num_messages counts exactly the messages in flight while the channel is open.
THEOREM CountIsExact == Spec => []CountExact
  BY Invariance, PTL DEF IndInv, ChannelInv

\* num_senders counts exactly the handles.
THEOREM SendersAreExact == Spec => []SendersExact
  BY Invariance, PTL DEF IndInv, ChannelInv

\* A parked handle reaches the receiver once and is not lost on the way.
THEOREM HandlesAreOnce == Spec => []HandleOnce
  BY Invariance, PTL DEF IndInv, ChannelInv

\* The receiver never sleeps on a message nor on the loss of its last sender
\* without a wake-up on its way.
THEOREM ReceiverIsWoken == Spec => [](NoLostMessageWakeup /\ NoLostDisconnect)
  BY Invariance, PTL DEF IndInv, ChannelInv

\* A closed channel stays closed and counts no message in.
THEOREM ClosedIsFinal == Spec => ClosedForGood
  <1>1. IndInv /\ [Next]_vars => [~isOpen => ~isOpen' /\ numMessages' <= numMessages]_vars
    <2> SUFFICES ASSUME IndInv, Next, ~isOpen PROVE ~isOpen' /\ numMessages' <= numMessages
      OBVIOUS
    <2>1. rpc \in Dropping /\ numMessages \in Nat
      BY DEF IndInv, ChannelInv, RxOK, TypeOK
    <2>2. ASSUME NEW s \in Sender, Cas(s) PROVE ~isOpen' /\ numMessages' <= numMessages
      <3>1. isOpen' = isOpen
        BY <2>2 DEF Cas
      <3>2. curr[s].open
        BY <2>2 DEF IndInv, ChannelInv, OpOK, Cas
      <3> QED
        BY <2>1, <2>2, <3>1, <3>2 DEF Cas
    <2>3. CASE Dec
      BY <2>1, <2>3 DEF Dec, Dropping
    <2>4. CASE Close
      BY <2>1, <2>4 DEF Close
    <2>5. CASE isOpen' = isOpen /\ numMessages' = numMessages
      BY <2>1, <2>5
    <2>6. \/ \E s \in Sender : Cas(s)
          \/ Dec \/ Close
          \/ isOpen' = isOpen /\ numMessages' = numMessages
      <3>1. ASSUME NEW s \in Sender, NEW k \in Ops, Call(s, k) PROVE isOpen' = isOpen /\ numMessages' = numMessages
        BY <3>1 DEF Call, stateVars
      <3>2. ASSUME NEW s \in Sender, NEW t \in Sender,
                   Retry(s) \/ Clone(s, t) \/ DropSender(s) \/ NewSender(s)
            PROVE  isOpen' = isOpen /\ numMessages' = numMessages
        BY <3>2 DEF Retry, Clone, DropSender, NewSender, stateVars
      <3>3. ASSUME NEW s \in Sender, SenderStep(s)
            PROVE  Cas(s) \/ (isOpen' = isOpen /\ numMessages' = numMessages)
        BY <3>3 DEF SenderStep, Load, Check, Push, Signal, Notify, Park, ParkPush, ParkCheck, stateVars
      <3>4. CASE ReceiverStep
        BY <3>4 DEF ReceiverStep, Poll, Pop, TryPark, UnparkOne, UnparkPop, NotifyHandle, Connected,
                    CapWake, DropWake, Drain, stateVars
      <3>5. CASE Wake \/ SpuriousWake \/ Stop \/ \E c \in Caps : SetCapacity(c)
        BY <3>5 DEF Wake, SpuriousWake, Stop, SetCapacity, stateVars
      <3> QED
        BY <3>1, <3>2, <3>3, <3>4, <3>5 DEF Next
    <2> QED
      BY <2>2, <2>3, <2>4, <2>5, <2>6
  <1> QED
    BY <1>1, Invariance, PTL DEF Spec, ClosedForGood

-----------------------------------------------------------------------------
(* Back pressure *)

LEMMA MaxCapFacts ==
    ASSUME Bounded
    PROVE  MaxCap \in Nat /\ \A d \in Caps \union {InitCap} : d <= MaxCap
  <1>1. MaxCap \in Caps \union {InitCap} /\ \A d \in Caps \union {InitCap} : d <= MaxCap
    BY DEF Bounded, MaxCap
  <1> QED
    BY <1>1, CapAssumption

LEMMA ForcedFacts ==
    TypeOK => /\ IsFiniteSet(DoQueued) /\ IsFiniteSet(DoPushing)
              /\ Cardinality(DoQueued) \in Nat /\ Cardinality(DoPushing) \in Nat
              /\ Forced = Cardinality(DoQueued) + Cardinality(DoPushing) /\ Forced \in Nat
  <1> SUFFICES ASSUME TypeOK
               PROVE  /\ IsFiniteSet(DoQueued) /\ IsFiniteSet(DoPushing)
                      /\ Cardinality(DoQueued) \in Nat /\ Cardinality(DoPushing) \in Nat
                      /\ Forced = Cardinality(DoQueued) + Cardinality(DoPushing) /\ Forced \in Nat
    OBVIOUS
  <1>1. Len(messageQueue) \in Nat
    BY DEF TypeOK
  <1>2. IsFiniteSet(1..Len(messageQueue))
    BY <1>1, FS_Interval
  <1>3. IsFiniteSet(DoQueued)
    BY <1>2, FS_Subset DEF DoQueued
  <1>4. IsFiniteSet(DoPushing)
    BY SenderAssumption, FS_Subset DEF DoPushing
  <1>5. Cardinality(DoQueued) \in Nat /\ Cardinality(DoPushing) \in Nat
    BY <1>3, <1>4, FS_CardinalityType
  <1>6. Forced = Cardinality(DoQueued) + Cardinality(DoPushing)
    BY DEF Forced, DoQueued, DoPushing
  <1> QED
    BY <1>3, <1>4, <1>5, <1>6

\* The same of the next state.
LEMMA ForcedFactsNext ==
    (TypeOK => /\ IsFiniteSet(DoQueued) /\ IsFiniteSet(DoPushing)
               /\ Cardinality(DoQueued) \in Nat /\ Cardinality(DoPushing) \in Nat
               /\ Forced = Cardinality(DoQueued) + Cardinality(DoPushing) /\ Forced \in Nat)'
  BY ForcedFacts, PTL

\* A step of a sender that is not at its push, and goes elsewhere.
LEMMA SameForced ==
    ASSUME TypeOK, NEW s \in Sender, NEW x, spc' = [spc EXCEPT ![s] = x], spc[s] # "push", x # "push",
           \A q \in Sender : q # s => op'[q] = op[q], UNCHANGED messageQueue
    PROVE  Forced' = Forced
  <1>1. DoPushing' = DoPushing
    BY DEF DoPushing, TypeOK
  <1> QED
    BY <1>1 DEF Forced, DoPushing

\* A pop uncovers at most one of do_send's messages.
LEMMA PoppedForced ==
    ASSUME TypeOK, TypeOK', messageQueue # <<>>, messageQueue' = Tail(messageQueue), UNCHANGED <<spc, op>>
    PROVE  Forced <= Forced' + 1
  <1>1. PICK n : n = Len(messageQueue)
    OBVIOUS
  <1>2. /\ n \in Nat /\ n > 0 /\ Len(messageQueue') = n - 1
        /\ \A i \in 1..(n - 1) : messageQueue'[i] = messageQueue[i + 1]
    <2>1. messageQueue \in Seq(AllOps)
      BY DEF TypeOK
    <2> QED
      BY <1>1, <2>1, TailFacts
  <1>3. DoQueued = {i \in 1..n : messageQueue[i] = "do"}
    BY <1>1 DEF DoQueued
  <1>4. DoQueued' = {i \in 1..(n - 1) : messageQueue'[i] = "do"}
    BY <1>2 DEF DoQueued
  <1>5. PICK f : f = [i \in DoQueued' |-> i + 1]
    OBVIOUS
  <1>6. f \in Surjection(DoQueued', DoQueued \ {1})
    <2>1. \A i \in DoQueued' : i + 1 \in DoQueued \ {1}
      BY <1>2, <1>3, <1>4
    <2>2. ASSUME NEW j \in DoQueued \ {1} PROVE \E i \in DoQueued' : i + 1 = j
      <3>1. j - 1 \in 1..(n - 1) /\ (j - 1) + 1 = j
        BY <1>2, <1>3
      <3>2. messageQueue'[j - 1] = "do"
        BY <1>2, <1>3, <3>1
      <3> QED
        BY <1>4, <3>1, <3>2
    <2> QED
      BY <1>5, <2>1, <2>2 DEF Surjection
  <1>7. IsFiniteSet(DoQueued) /\ IsFiniteSet(DoQueued') /\ Cardinality(DoQueued) \in Nat /\ Cardinality(DoQueued') \in Nat
    BY ForcedFacts, ForcedFactsNext
  <1>8. Cardinality(DoQueued \ {1}) <= Cardinality(DoQueued')
    BY <1>6, <1>7, FS_Surjection
  <1>9. Cardinality(DoQueued \ {1}) = IF 1 \in DoQueued THEN Cardinality(DoQueued) - 1 ELSE Cardinality(DoQueued)
    BY <1>7, FS_RemoveElement
  <1>10. Cardinality(DoQueued) <= Cardinality(DoQueued') + 1
    BY <1>7, <1>8, <1>9
  <1>11. DoPushing' = DoPushing
    BY DEF DoPushing
  <1>12. /\ Forced = Cardinality(DoQueued) + Cardinality(DoPushing) /\ Cardinality(DoPushing) \in Nat
         /\ Forced' = Cardinality(DoQueued') + Cardinality(DoPushing')
    BY ForcedFacts, ForcedFactsNext
  <1> QED
    BY <1>7, <1>10, <1>11, <1>12

\* A push of do_send's message moves it into the queue.
LEMMA PushedForced ==
    ASSUME TypeOK, TypeOK', OpOK, NEW s \in Sender, Push(s)
    PROVE  Forced' = Forced
  <1>1. PICK n : n = Len(messageQueue) + 1
    OBVIOUS
  <1>2. /\ messageQueue \in Seq(AllOps) /\ op[s] \in AllOps /\ messageQueue' = Append(messageQueue, op[s])
        /\ spc[s] = "push" /\ spc' = [spc EXCEPT ![s] = "signal"] /\ UNCHANGED op
    BY DEF Push, TypeOK, OpOK, InCall
  <1>3. /\ Len(messageQueue) \in Nat /\ Len(messageQueue') = n
        /\ \A i \in 1..Len(messageQueue) : messageQueue'[i] = messageQueue[i]
        /\ messageQueue'[n] = op[s] /\ n \notin 1..Len(messageQueue) /\ 1..n = 1..Len(messageQueue) \union {n}
    BY <1>1, <1>2
  <1>4. /\ IsFiniteSet(DoQueued) /\ IsFiniteSet(DoPushing)
        /\ Cardinality(DoQueued) \in Nat /\ Cardinality(DoPushing) \in Nat
        /\ Forced = Cardinality(DoQueued) + Cardinality(DoPushing)
        /\ Forced' = Cardinality(DoQueued') + Cardinality(DoPushing')
    BY ForcedFacts, ForcedFactsNext
  <1>5. CASE op[s] = "do"
    <2>1. DoQueued' = DoQueued \union {n} /\ n \notin DoQueued
      BY <1>3, <1>5 DEF DoQueued
    <2>2. DoPushing' = DoPushing \ {s} /\ s \in DoPushing
      BY <1>2, <1>5 DEF DoPushing, TypeOK
    <2>3. Cardinality(DoQueued') = Cardinality(DoQueued) + 1
      BY <1>4, <2>1, FS_AddElement
    <2>4. Cardinality(DoPushing') = Cardinality(DoPushing) - 1
      BY <1>4, <2>2, FS_RemoveElement
    <2> QED
      BY <1>4, <2>3, <2>4
  <1>6. CASE op[s] # "do"
    <2>1. DoQueued' = DoQueued
      BY <1>3, <1>6 DEF DoQueued
    <2>2. DoPushing' = DoPushing
      BY <1>2, <1>6 DEF DoPushing, TypeOK
    <2> QED
      BY <1>4, <2>1, <2>2
  <1> QED
    BY <1>5, <1>6

\* A step of a sender that counts nothing and is not about to.
LEMMA SenderPressure ==
    ASSUME TypeOK, PressureInv, NEW s \in Sender, NEW x, spc' = [spc EXCEPT ![s] = x],
           spc[s] # "push", x \notin {"push", "cas"},
           \A q \in Sender : q # s => op'[q] = op[q] /\ curr'[q] = curr[q],
           UNCHANGED <<messageQueue, buffer, isOpen, numMessages, rpc>>
    PROVE  PressureInv'
  <1>1. Forced' = Forced
    BY SameForced
  <1>2. MaxCap' = MaxCap
    BY DEF MaxCap
  <1>3. \A q \in Sender : spc'[q] = IF q = s THEN x ELSE spc[q]
    BY DEF TypeOK
  <1> QED
    BY <1>1, <1>2, <1>3 DEF PressureInv

\* A step of the receiver that takes no message, or that closes the channel.
LEMMA ReceiverPressure ==
    ASSUME PressureInv, UNCHANGED <<spc, op, curr, numMessages>>, buffer' \in Caps \union {InitCap},
           isOpen' => isOpen /\ UNCHANGED messageQueue /\ (rpc \in Popped => rpc' \in Popped),
           TypeOK, Bounded
    PROVE  PressureInv'
  <1>1. isOpen' => Forced' = Forced
    BY DEF Forced
  <1>2. MaxCap' = MaxCap
    BY DEF MaxCap
  <1>3. MaxCap \in Nat /\ Forced \in Nat /\ numMessages \in Nat
    BY MaxCapFacts, ForcedFacts DEF TypeOK
  <1> QED
    BY <1>1, <1>2, <1>3 DEF PressureInv

LEMMA PressureStep ==
    ASSUME Bounded, 0 \notin Caps \union {InitCap}
    PROVE  IndInv /\ IndInv' /\ PressureInv /\ [Next]_vars => PressureInv'
  <1> SUFFICES ASSUME IndInv, IndInv', PressureInv, [Next]_vars PROVE PressureInv'
    OBVIOUS
  <1>0. /\ TypeOK /\ TypeOK' /\ OpOK /\ RxOK /\ buffer \in Caps \union {InitCap} /\ MaxCap \in Nat /\ MaxCap' = MaxCap
        /\ Forced \in Nat /\ Forced' \in Nat /\ numMessages \in Nat
    BY MaxCapFacts, ForcedFacts, ForcedFactsNext DEF IndInv, ChannelInv, PressureInv, TypeOK, MaxCap
  <1>1. CASE UNCHANGED vars
    BY <1>1 DEF vars, PressureInv, Forced
  <1>2. ASSUME NEW s \in Sender, NEW k \in Ops, Call(s, k) PROVE PressureInv'
    <2>1. PICK x \in {"load", "blocked", "idle"} : spc' = [spc EXCEPT ![s] = x]
      BY <1>2 DEF Call, PollUnparked, AfterFull
    <2>2. /\ spc[s] # "push" /\ UNCHANGED <<messageQueue, buffer, isOpen, numMessages, rpc, curr>>
          /\ \A q \in Sender : q # s => op'[q] = op[q]
      BY <1>0, <1>2 DEF Call, TypeOK, stateVars, rxVars
    <2> QED
      BY <1>0, <2>1, <2>2, SenderPressure
  <1>3. ASSUME NEW s \in Sender, Retry(s) PROVE PressureInv'
    <2>1. PICK x \in {"load", "blocked", "idle"} : spc' = [spc EXCEPT ![s] = x]
      BY <1>3 DEF Retry, PollUnparked, AfterFull
    <2>2. /\ spc[s] # "push" /\ UNCHANGED <<messageQueue, buffer, isOpen, numMessages, rpc, curr, op>>
      BY <1>0, <1>3 DEF Retry, stateVars, rxVars
    <2> QED
      BY <1>0, <2>1, <2>2, SenderPressure
  <1>4. ASSUME NEW s \in Sender, Load(s) \/ Signal(s) \/ Notify(s) \/ Park(s) \/ ParkPush(s) \/ ParkCheck(s)
        PROVE  PressureInv'
    <2>1. PICK x \in {"check", "notify", "gone", "idle", "parkpush", "parkcheck", "blocked"} :
             spc' = [spc EXCEPT ![s] = x]
      BY <1>4 DEF Load, Signal, Notify, Park, ParkPush, ParkCheck, AfterDone, AfterFull
    <2>2. /\ spc[s] # "push" /\ UNCHANGED <<messageQueue, buffer, isOpen, numMessages, rpc, op>>
          /\ \A q \in Sender : q # s => curr'[q] = curr[q]
      BY <1>0, <1>4 DEF Load, Signal, Notify, Park, ParkPush, ParkCheck, TypeOK, stateVars, rxVars
    <2> QED
      BY <1>0, <2>1, <2>2, SenderPressure
  <1>5. ASSUME NEW s \in Sender, Check(s) PROVE PressureInv'
    <2>1. /\ spc[s] = "check" /\ UNCHANGED <<messageQueue, buffer, isOpen, numMessages, rpc, op>>
          /\ \A q \in Sender : q # s => curr'[q] = curr[q]
      BY <1>0, <1>5 DEF Check, TypeOK, stateVars, rxVars
    <2>2. CASE \E x \in {"idle", "park"} : spc' = [spc EXCEPT ![s] = x]
      BY <1>0, <2>1, <2>2, SenderPressure
    <2>3. CASE ~IsFull(s) /\ spc' = [spc EXCEPT ![s] = "cas"] /\ UNCHANGED curr
      <3>1. op[s] # "do" => curr[s].num < MaxCap
        <4>1. buffer \in Nat /\ buffer # 0 /\ buffer <= MaxCap /\ curr[s].num \in Nat
          BY <1>0, MaxCapFacts DEF TypeOK
        <4> QED
          BY <1>0, <2>3, <4>1 DEF IsFull
      <3>2. DoPushing' = DoPushing
        BY <1>0, <2>1, <2>3 DEF DoPushing, TypeOK
      <3>3. Forced' = Forced
        BY <2>1, <3>2 DEF Forced, DoPushing
      <3>4. \A q \in Sender : spc'[q] = IF q = s THEN "cas" ELSE spc[q]
        BY <1>0, <2>3 DEF TypeOK
      <3> QED
        BY <1>0, <2>1, <2>3, <3>1, <3>3, <3>4 DEF PressureInv
    <2> QED
      BY <1>5, <2>2, <2>3 DEF Check
  <1>6. ASSUME NEW s \in Sender, Cas(s) PROVE PressureInv'
    <2>1. /\ spc[s] = "cas" /\ UNCHANGED <<messageQueue, buffer, isOpen, rpc, op>>
          /\ \A q \in Sender : q # s => curr'[q] = curr[q]
      BY <1>0, <1>6 DEF Cas, TypeOK, rxVars
    <2>2. CASE spc' = [spc EXCEPT ![s] = "check"] /\ UNCHANGED numMessages
      BY <1>0, <2>1, <2>2, SenderPressure
    <2>3. CASE /\ curr[s] = [open |-> isOpen, num |-> numMessages]
               /\ numMessages' = numMessages + 1 /\ spc' = [spc EXCEPT ![s] = "push"]
      <3>1. \A q \in Sender : spc'[q] = IF q = s THEN "push" ELSE spc[q]
        BY <1>0, <2>3 DEF TypeOK
      <3>2. isOpen => numMessages' <= MaxCap + Forced' + (IF rpc \in Popped THEN 1 ELSE 0)
        <4>1. CASE op[s] = "do"
          <5>1. DoPushing' = DoPushing \union {s} /\ s \notin DoPushing
            BY <2>1, <3>1, <4>1 DEF DoPushing
          <5>2. Cardinality(DoPushing') = Cardinality(DoPushing) + 1
            BY <1>0, <5>1, ForcedFacts, FS_AddElement
          <5>3. DoQueued' = DoQueued
            BY <2>1 DEF DoQueued
          <5>4. Forced' = Forced + 1
            BY <1>0, <5>2, <5>3, ForcedFacts, ForcedFactsNext
          <5> QED
            BY <1>0, <2>3, <5>4 DEF PressureInv
        <4>2. CASE op[s] # "do"
          <5>1. numMessages < MaxCap
            BY <2>1, <2>3, <4>2 DEF PressureInv
          <5> QED
            BY <1>0, <2>3, <5>1
        <4> QED
          BY <4>1, <4>2
      <3> QED
        BY <1>0, <2>1, <3>1, <3>2 DEF PressureInv
    <2> QED
      BY <1>6, <2>2, <2>3 DEF Cas
  <1>7. ASSUME NEW s \in Sender, Push(s) PROVE PressureInv'
    <2>1. Forced' = Forced
      BY <1>0, <1>7, PushedForced
    <2>2. UNCHANGED <<buffer, isOpen, numMessages, rpc, op, curr>>
      BY <1>7 DEF Push, stateVars, rxVars
    <2>3. \A q \in Sender : spc'[q] = "cas" => spc[q] = "cas"
      BY <1>0, <1>7 DEF Push, TypeOK
    <2> QED
      BY <1>0, <2>1, <2>2, <2>3 DEF PressureInv
  <1>8. ASSUME NEW s \in Sender, NEW t \in Sender, Clone(s, t) PROVE PressureInv'
    <2>1. /\ spc[t] # "push" /\ spc' = [spc EXCEPT ![t] = "idle"]
          /\ UNCHANGED <<messageQueue, buffer, isOpen, numMessages, rpc, curr, op>>
      BY <1>8 DEF Clone, stateVars, rxVars
    <2>2. "idle" \notin {"push", "cas"} /\ \A q \in Sender : q # t => op'[q] = op[q] /\ curr'[q] = curr[q]
      BY <2>1
    <2> QED
      BY <1>0, <2>1, <2>2, SenderPressure
  <1>9. ASSUME NEW s \in Sender, DropSender(s) \/ NewSender(s) PROVE PressureInv'
    <2>1. PICK x \in {"signal", "gone", "idle"} : spc' = [spc EXCEPT ![s] = x]
      BY <1>9 DEF DropSender, NewSender
    <2>2. /\ spc[s] # "push" /\ UNCHANGED <<messageQueue, buffer, isOpen, numMessages, rpc, curr>>
          /\ \A q \in Sender : q # s => op'[q] = op[q]
      BY <1>0, <1>9 DEF DropSender, NewSender, TypeOK, stateVars, rxVars
    <2> QED
      BY <1>0, <2>1, <2>2, SenderPressure
  <1>10. CASE Pop /\ messageQueue # <<>>
    <2>1. /\ rpc = "pop" /\ rpc' = "unpark" /\ messageQueue' = Tail(messageQueue)
          /\ UNCHANGED <<buffer, isOpen, numMessages, spc, op, curr>>
      BY <1>10 DEF Pop, stateVars
    <2>2. Forced <= Forced' + 1
      BY <1>0, <1>10, <2>1, PoppedForced
    <2>3. rpc \notin Popped /\ rpc' \in Popped
      BY <2>1 DEF Popped
    <2>4. isOpen => numMessages <= MaxCap + Forced
      BY <1>0, <2>3 DEF PressureInv
    <2>5. isOpen => numMessages <= MaxCap + Forced' + 1
      <3>1. MaxCap \in Nat /\ Forced \in Nat /\ Forced' \in Nat /\ numMessages \in Nat
        BY <1>0
      <3>2. \A n, m, f, g \in Nat : n <= m + f /\ f <= g + 1 => n <= m + g + 1
        OBVIOUS
      <3> QED
        BY <2>2, <2>4, <3>1, <3>2
    <2> QED
      BY <1>0, <2>1, <2>3, <2>5 DEF PressureInv
  <1>11. CASE Dec
    <2>1. /\ rpc = "dec" /\ rpc' = "run" /\ numMessages' = numMessages - 1
          /\ UNCHANGED <<buffer, isOpen, messageQueue, spc, op, curr>>
      BY <1>11 DEF Dec
    <2>2. rpc \in Popped /\ rpc' \notin Popped
      BY <2>1 DEF Popped
    <2>3. Forced' = Forced
      BY <2>1 DEF Forced
    <2>4. isOpen => numMessages <= MaxCap + Forced + 1
      BY <1>0, <2>2 DEF PressureInv
    <2>5. isOpen' => numMessages' <= MaxCap' + Forced' + (IF rpc' \in Popped THEN 1 ELSE 0)
      BY <1>0, <2>1, <2>2, <2>3, <2>4
    <2> QED
      BY <1>0, <2>1, <2>5 DEF PressureInv
  <1>12. CASE Drain
    <2>1. ~isOpen /\ UNCHANGED <<buffer, isOpen, numMessages, spc, op, curr>>
      BY <1>0, <1>12 DEF Drain, RxOK, Dropping, stateVars
    <2> QED
      BY <1>0, <2>1, ReceiverPressure
  <1>13. CASE \/ UnparkOne \/ CapWake \/ DropWake \/ Poll \/ TryPark \/ Connected \/ Close
              \/ Wake \/ SpuriousWake \/ Stop \/ (Pop /\ messageQueue = <<>>)
    <2>1. UNCHANGED <<buffer, numMessages, messageQueue, spc, op, curr>> /\ (isOpen' => isOpen)
      BY <1>0, <1>13 DEF UnparkOne, CapWake, DropWake, UnparkPop, NotifyHandle, Poll, TryPark, Connected,
                         Close, Wake, SpuriousWake, Stop, Pop, stateVars
    <2>2. rpc \in Popped => rpc' \in Popped
      BY <1>13 DEF UnparkOne, CapWake, DropWake, UnparkPop, NotifyHandle, Poll, TryPark, Connected,
                   Close, Wake, SpuriousWake, Stop, Pop, Popped
    <2> QED
      BY <1>0, <2>1, <2>2, ReceiverPressure
  <1>14. ASSUME NEW c \in Caps, SetCapacity(c) PROVE PressureInv'
    <2>1. /\ UNCHANGED <<isOpen, numMessages, messageQueue, spc, op, curr>> /\ buffer' = c
          /\ rpc \notin Popped
      BY <1>14 DEF SetCapacity, stateVars, Popped
    <2> QED
      BY <1>0, <2>1, ReceiverPressure
  <1>15. CASE ReceiverStep
    BY <1>10, <1>11, <1>12, <1>13, <1>15 DEF ReceiverStep
  <1>16. ASSUME NEW s \in Sender, SenderStep(s) PROVE PressureInv'
    BY <1>4, <1>5, <1>6, <1>7, <1>16 DEF SenderStep
  <1> QED
    BY <1>1, <1>2, <1>3, <1>8, <1>9, <1>13, <1>14, <1>15, <1>16 DEF Next

\* inc_num_messages under any interleaving of its compare_exchange loops:
\* with a capacity, the counted messages other than do_send's never exceed
\* the largest capacity the channel was given.
THEOREM CapacityIsKept ==
    ASSUME Bounded
    PROVE  Spec => []BackPressure
  <1>1. CASE 0 \in Caps \union {InitCap}
    <2>1. BackPressure
      BY <1>1 DEF BackPressure
    <2> QED
      BY <2>1, PTL
  <1>2. CASE 0 \notin Caps \union {InitCap}
    <2>1. Init /\ TypeOK => PressureInv
      <3> SUFFICES ASSUME Init, TypeOK PROVE PressureInv
        OBVIOUS
      <3>1. numMessages = 0 /\ buffer = InitCap /\ \A s \in Sender : spc[s] # "cas"
        BY DEF Init
      <3>2. MaxCap \in Nat /\ Forced \in Nat
        BY MaxCapFacts, ForcedFacts
      <3> QED
        BY <3>1, <3>2 DEF PressureInv
    <2>2. IndInv /\ IndInv' /\ PressureInv /\ [Next]_vars => PressureInv'
      BY <1>2, PressureStep
    <2>3. TypeOK /\ PressureInv => BackPressure
      <3> SUFFICES ASSUME TypeOK, PressureInv, isOpen, rpc \notin Popped PROVE numMessages <= MaxCap + Forced
        BY DEF BackPressure
      <3>1. MaxCap \in Nat /\ Forced \in Nat
        BY MaxCapFacts, ForcedFacts
      <3> QED
        BY <3>1 DEF PressureInv
    <2>4. IndInv => TypeOK
      BY DEF IndInv
    <2> QED
      BY <2>1, <2>2, <2>3, <2>4, Invariance, PTL DEF Spec
  <1> QED
    BY <1>1, <1>2
=============================================================================
