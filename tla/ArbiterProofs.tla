---------------------------- MODULE ArbiterProofs ----------------------------
(***************************************************************************)
(* Proofs about the arbiters, ArbiterSystem and SyncArbiter, for any set of  *)
(* arbiters, workers, messages and addresses: types, the map of arbiters and *)
(* the messages on their way to it describe the loops that run, and workers  *)
(* take the messages of a sync arbiter in the order they were sent.          *)
(***************************************************************************)
EXTENDS ArbiterSystem, SyncArbiter, FiniteSetTheorems, TLAPS

-----------------------------------------------------------------------------
(* ArbiterSystem: types *)

LEMMA TypeInit == Init => TypeOK
  BY ArbBoundAssumption DEF Init, TypeOK, Loop

\* A message that is posted is one of the System actor's.
LEMMA PostType ==
    ASSUME TypeOK, NEW k \in {"reg", "unreg", "exit"}, NEW a \in Loop, Post(k, a)
    PROVE  sbox' \in Seq(Message)
  <1>1. [kind |-> k, arb |-> a] \in Message
    BY DEF Message
  <1> QED
    BY <1>1 DEF Post, TypeOK

LEMMA ReceivedType ==
    ASSUME TypeOK, NEW k, Received(k)
    PROVE  /\ sbox' = Tail(sbox) /\ sbox' \in Seq(Message) /\ Head(sbox) \in Message
           /\ Head(sbox).arb \in Loop /\ Head(sbox).kind = k /\ sbox # <<>>
           /\ spc \in {"running", "stopping"}
  <1>1. Head(sbox) \in Message /\ Tail(sbox) \in Seq(Message)
    BY DEF Received, TypeOK
  <1> QED
    BY <1>1 DEF Received, Turning, Message

LEMMA TypeStep == TypeOK /\ [Next]_vars => TypeOK'
  <1> SUFFICES ASSUME TypeOK, [Next]_vars PROVE TypeOK'
    OBVIOUS
  <1>0. Arb \subseteq Loop /\ Main \in Loop
    BY DEF Loop
  <1>1. ASSUME NEW c \in Loop, NEW a \in Arb, New(c, a) PROVE TypeOK'
    BY <1>0, <1>1 DEF TypeOK, New
  <1>2. ASSUME NEW a \in Arb, Boot(a) PROVE TypeOK'
    BY <1>0, <1>2 DEF TypeOK, Boot
  <1>3. ASSUME NEW a \in Arb, SendStop(a) PROVE TypeOK'
    BY <1>0, <1>3 DEF TypeOK, SendStop
  <1>4. ASSUME NEW a \in Loop, Started(a) PROVE TypeOK'
    <2>1. sbox' \in Seq(Message)
      BY <1>4, PostType DEF Started
    <2> QED
      BY <1>4, <2>1 DEF TypeOK, Started
  <1>5. ASSUME NEW a \in Loop, HandleStop(a) PROVE TypeOK'
    <2>1. stops' \in [Loop -> Nat]
      BY <1>5 DEF TypeOK, HandleStop
    <2>2. apc' \in [Loop -> {"none", "boot", "running", "registered", "stopping", "ended"}]
      BY <1>5 DEF TypeOK, HandleStop
    <2> QED
      BY <1>5, <2>1, <2>2 DEF TypeOK, HandleStop
  <1>6. ASSUME NEW a \in Arb, EndLoop(a) PROVE TypeOK'
    <2>1. sbox' \in Seq(Message)
      BY <1>0, <1>6, PostType DEF EndLoop
    <2> QED
      BY <1>0, <1>6, <2>1 DEF TypeOK, EndLoop
  <1>7. ASSUME Run PROVE TypeOK'
    BY <1>7 DEF TypeOK, Run
  <1>8. ASSUME HandleRegister PROVE TypeOK'
    BY <1>8, ReceivedType DEF TypeOK, HandleRegister
  <1>9. ASSUME HandleUnregister PROVE TypeOK'
    BY <1>9, ReceivedType DEF TypeOK, HandleUnregister
  <1>10. ASSUME HandleExit PROVE TypeOK'
    BY <1>10, ReceivedType DEF TypeOK, HandleExit
  <1>11. ASSUME Return PROVE TypeOK'
    BY <1>0, <1>11 DEF TypeOK, Return
  <1>12. ASSUME SendExit PROVE TypeOK'
    <2>1. sbox' \in Seq(Message)
      BY <1>0, <1>12, PostType DEF SendExit
    <2> QED
      BY <1>12, <2>1, ArbBoundAssumption DEF TypeOK, SendExit
  <1>13. ASSUME UNCHANGED vars PROVE TypeOK'
    BY <1>13 DEF TypeOK, vars
  <1> QED
    BY <1>1, <1>2, <1>3, <1>4, <1>5, <1>6, <1>7, <1>8, <1>9, <1>10, <1>11, <1>12, <1>13
    DEF Next, SystemStep

\* Types of the System actor and of the arbiters.
THEOREM TypeCorrect == Spec => []TypeOK
  BY TypeInit, TypeStep, PTL DEF Spec

-----------------------------------------------------------------------------
(* The inductive invariant: what the mailbox and the map hold of an arbiter,  *)
(* by how far its thread has come.                                           *)

\* Entry i of the mailbox registers or unregisters a.
Mine(a, i) == i \in DOMAIN sbox /\ sbox[i].kind # "exit" /\ sbox[i].arb = a

None(a) == \A i \in DOMAIN sbox : ~Mine(a, i)

\* The thread has not registered.
Before(a) == None(a) /\ a \notin arbiters

\* It has, and RegisterArbiter is on its way or was handled.
Registered(a) ==
    \/ None(a) /\ a \in arbiters
    \/ \E i \in DOMAIN sbox : /\ Mine(a, i) /\ sbox[i].kind = "reg"
                              /\ \A j \in DOMAIN sbox : Mine(a, j) => j = i

\* It has ended, and UnregisterArbiter is on its way or was handled.
After(a) ==
    \/ None(a) /\ a \notin arbiters
    \/ \E i \in DOMAIN sbox : /\ Mine(a, i) /\ sbox[i].kind = "unreg"
                              /\ \A j \in DOMAIN sbox : Mine(a, j) => j <= i

Tracked(a) ==
    /\ apc[a] \in {"none", "boot", "running"} => Before(a)
    /\ apc[a] \in {"registered", "stopping"} => Registered(a)
    /\ apc[a] = "ended" => After(a)

SystemInv == TypeOK /\ (spc # "returned" => \A a \in Loop : Tracked(a))

\* What a message that is appended does to the entries of an arbiter.
LEMMA PostMine ==
    ASSUME TypeOK, NEW k \in {"reg", "unreg", "exit"}, NEW b \in Loop, spc # "returned", Post(k, b)
    PROVE  \E n \in Nat :
             /\ DOMAIN sbox' = DOMAIN sbox \union {n} /\ \A i \in DOMAIN sbox : i < n /\ i \in Nat
             /\ sbox'[n].kind = k /\ sbox'[n].arb = b
             /\ \A i \in DOMAIN sbox : sbox'[i] = sbox[i]
  <1>1. sbox \in Seq(Message) /\ sbox' = Append(sbox, [kind |-> k, arb |-> b])
    BY DEF Post, TypeOK
  <1>2. Len(sbox) + 1 \in Nat /\ DOMAIN sbox = 1..Len(sbox)
    BY <1>1
  <1>3. /\ DOMAIN sbox' = DOMAIN sbox \union {Len(sbox) + 1}
        /\ \A i \in DOMAIN sbox : sbox'[i] = sbox[i]
        /\ sbox'[Len(sbox) + 1] = [kind |-> k, arb |-> b]
    BY <1>1
  <1>4. \A i \in DOMAIN sbox : i < Len(sbox) + 1 /\ i \in Nat
    BY <1>2
  <1> QED
    BY <1>2, <1>3, <1>4

\* What taking the first message does to the entries of an arbiter.
LEMMA ReceivedMine ==
    ASSUME TypeOK, NEW k, Received(k)
    PROVE  /\ 1 \in DOMAIN sbox /\ sbox[1] = Head(sbox)
           /\ \A i \in DOMAIN sbox : i \in Nat
           /\ \A i \in DOMAIN sbox' : i \in Nat \ {0} /\ i + 1 \in DOMAIN sbox /\ sbox'[i] = sbox[i + 1]
           /\ \A i \in DOMAIN sbox : i # 1 => i - 1 \in DOMAIN sbox' /\ sbox'[i - 1] = sbox[i]
  <1>1. sbox \in Seq(Message) /\ sbox # <<>> /\ sbox' = Tail(sbox)
    BY DEF Received, TypeOK
  <1>2. Len(sbox) \in Nat /\ Len(sbox) # 0 /\ DOMAIN sbox = 1..Len(sbox)
    BY <1>1
  <1>3. Len(sbox) > 0
    BY <1>2
  <1> QED
    BY <1>1, <1>2, <1>3

\* A step of the arbiters' threads that neither posts nor handles messages.
LEMMA QuietInv ==
    ASSUME SystemInv, UNCHANGED <<sbox, arbiters>>,
           spc' # "returned" => spc # "returned",
           \A a \in Loop :
              \/ apc'[a] = apc[a]
              \/ {apc[a], apc'[a]} \subseteq {"none", "boot", "running"}
              \/ {apc[a], apc'[a]} \subseteq {"registered", "stopping"}
    PROVE  spc' # "returned" => \A a \in Loop : Tracked(a)'
  <1> SUFFICES ASSUME spc # "returned", NEW a \in Loop PROVE Tracked(a)'
    OBVIOUS
  <1>1. Tracked(a)
    BY DEF SystemInv
  <1>2. (Before(a)' <=> Before(a)) /\ (Registered(a)' <=> Registered(a)) /\ (After(a)' <=> After(a))
    BY DEF Before, Registered, After, None, Mine
  <1> QED
    BY <1>1, <1>2 DEF Tracked

\* A message of thread b is posted when b gets from one stage to the next.
LEMMA PostInv ==
    ASSUME SystemInv, spc # "returned", NEW b \in Loop, NEW k \in {"reg", "unreg"},
           Post(k, b), UNCHANGED arbiters,
           \A a \in Loop : a # b => apc'[a] = apc[a],
           \/ k = "reg" /\ apc[b] = "running" /\ apc'[b] = "registered"
           \/ k = "unreg" /\ apc[b] = "stopping" /\ apc'[b] = "ended"
    PROVE  \A a \in Loop : Tracked(a)'
  <1>1. PICK n \in Nat :
             /\ DOMAIN sbox' = DOMAIN sbox \union {n} /\ \A i \in DOMAIN sbox : i < n /\ i \in Nat
             /\ sbox'[n].kind = k /\ sbox'[n].arb = b
             /\ \A i \in DOMAIN sbox : sbox'[i] = sbox[i]
    BY PostMine DEF SystemInv
  <1>2. ASSUME NEW a \in Loop PROVE Tracked(a)'
    <2>1. Tracked(a)
      BY DEF SystemInv
    <2>2. CASE a # b
      <3>1. \A i \in DOMAIN sbox' : Mine(a, i)' <=> Mine(a, i)
        BY <1>1, <2>2 DEF Mine
      <3>2. (Before(a)' <=> Before(a)) /\ (Registered(a)' <=> Registered(a)) /\ (After(a)' <=> After(a))
        BY <1>1, <3>1 DEF Before, Registered, After, None, Mine
      <3> QED
        BY <2>1, <2>2, <3>2 DEF Tracked
    <2>3. CASE a = b /\ k = "reg"
      <3>1. Before(a)
        BY <2>1, <2>3 DEF Tracked
      <3>2. Registered(a)'
        BY <1>1, <2>3, <3>1 DEF Before, Registered, None, Mine
      <3> QED
        BY <2>3, <3>2 DEF Tracked
    <2>4. CASE a = b /\ k = "unreg"
      <3>1. n \in DOMAIN sbox' /\ Mine(a, n)' /\ sbox'[n].kind = "unreg"
        BY <1>1, <2>4 DEF Mine
      <3>2. \A j \in DOMAIN sbox' : j <= n
        BY <1>1
      <3>3. After(a)'
        BY <3>1, <3>2 DEF After
      <3> QED
        BY <2>4, <3>3 DEF Tracked
    <2> QED
      BY <2>2, <2>3, <2>4
  <1> QED
    BY <1>2

\* The System actor takes a message of the mailbox and applies it to the map.
LEMMA TakeInv ==
    ASSUME SystemInv, UNCHANGED apc,
           \/ HandleRegister \/ HandleUnregister \/ HandleExit
    PROVE  \A a \in Loop : Tracked(a)'
  <1>1. PICK k \in {"reg", "unreg", "exit"} :
           /\ Received(k)
           /\ k = "reg" => arbiters' = arbiters \union {Head(sbox).arb}
           /\ k = "unreg" => arbiters' = arbiters \ {Head(sbox).arb}
           /\ k = "exit" => UNCHANGED arbiters
    BY DEF HandleRegister, HandleUnregister, HandleExit
  <1>2. spc # "returned" /\ Head(sbox).kind = k
    BY <1>1 DEF Received, Turning
  <1>3. /\ 1 \in DOMAIN sbox /\ sbox[1] = Head(sbox)
        /\ \A i \in DOMAIN sbox : i \in Nat
        /\ \A i \in DOMAIN sbox' : i \in Nat \ {0} /\ i + 1 \in DOMAIN sbox /\ sbox'[i] = sbox[i + 1]
        /\ \A i \in DOMAIN sbox : i # 1 => i - 1 \in DOMAIN sbox' /\ sbox'[i - 1] = sbox[i]
    BY <1>1, ReceivedMine DEF SystemInv
  <1>4. ASSUME NEW a \in Loop PROVE Tracked(a)'
    <2>1. Tracked(a)
      BY <1>2 DEF SystemInv
    <2>2. /\ \A i \in DOMAIN sbox' : Mine(a, i)' <=> Mine(a, i + 1)
          /\ \A i \in DOMAIN sbox : i # 1 => (Mine(a, i - 1)' <=> Mine(a, i))
      BY <1>3 DEF Mine
    <2>3. None(a) => None(a)'
      BY <1>3, <2>2 DEF None
    <2>4. ~Mine(a, 1) => (a \in arbiters' <=> a \in arbiters)
      BY <1>1, <1>2, <1>3 DEF Mine
    <2>5. Before(a) => Before(a)'
      BY <1>3, <2>3, <2>4 DEF Before, None
    <2>6. Registered(a) => Registered(a)'
      <3>1. CASE None(a) /\ a \in arbiters
        BY <1>3, <2>3, <2>4, <3>1 DEF Registered, None
      <3>2. ASSUME NEW i \in DOMAIN sbox, Mine(a, i), sbox[i].kind = "reg",
                   \A j \in DOMAIN sbox : Mine(a, j) => j = i
            PROVE  Registered(a)'
        <4>1. CASE i = 1
          <5>1. None(a)'
            BY <1>3, <2>2, <3>2, <4>1 DEF None
          <5>2. a \in arbiters'
            BY <1>1, <1>2, <1>3, <3>2, <4>1 DEF Mine
          <5> QED
            BY <5>1, <5>2 DEF Registered
        <4>2. CASE i # 1
          <5>1. i - 1 \in DOMAIN sbox' /\ Mine(a, i - 1)' /\ sbox'[i - 1].kind = "reg"
            BY <1>3, <2>2, <3>2, <4>2
          <5>2. \A j \in DOMAIN sbox' : Mine(a, j)' => j = i - 1
            BY <1>3, <2>2, <3>2
          <5> QED
            BY <5>1, <5>2 DEF Registered
        <4> QED
          BY <4>1, <4>2
      <3> QED
        BY <3>1, <3>2 DEF Registered
    <2>7. After(a) => After(a)'
      <3>1. CASE None(a) /\ a \notin arbiters
        BY <1>3, <2>3, <2>4, <3>1 DEF After, None
      <3>2. ASSUME NEW i \in DOMAIN sbox, Mine(a, i), sbox[i].kind = "unreg",
                   \A j \in DOMAIN sbox : Mine(a, j) => j <= i
            PROVE  After(a)'
        <4>1. CASE i = 1
          <5>1. None(a)'
            <6> SUFFICES ASSUME NEW j \in DOMAIN sbox', Mine(a, j)' PROVE FALSE
              BY DEF None
            <6>1. j + 1 \in DOMAIN sbox /\ Mine(a, j + 1) /\ j \in Nat /\ j + 1 \in Nat
              BY <1>3, <2>2
            <6>2. j + 1 <= 1
              BY <3>2, <4>1, <6>1
            <6> QED
              BY <1>3, <6>1, <6>2
          <5>2. a \notin arbiters'
            BY <1>1, <1>2, <1>3, <3>2, <4>1 DEF Mine
          <5> QED
            BY <5>1, <5>2 DEF After
        <4>2. CASE i # 1
          <5>1. i - 1 \in DOMAIN sbox' /\ Mine(a, i - 1)' /\ sbox'[i - 1].kind = "unreg"
            BY <1>3, <2>2, <3>2, <4>2
          <5>2. ASSUME NEW j \in DOMAIN sbox', Mine(a, j)' PROVE j <= i - 1
            <6>1. j + 1 <= i /\ j \in Nat /\ i \in Nat
              BY <1>3, <2>2, <3>2, <5>2
            <6> QED
              BY <6>1
          <5> QED
            BY <5>1, <5>2 DEF After
        <4> QED
          BY <4>1, <4>2
      <3> QED
        BY <3>1, <3>2 DEF After
    <2> QED
      BY <2>1, <2>5, <2>6, <2>7 DEF Tracked
  <1> QED
    BY <1>4

\* SystemExit is nobody's registration.
LEMMA SendExitInv ==
    ASSUME SystemInv, SendExit, spc # "returned"
    PROVE  \A a \in Loop : Tracked(a)'
  <1>1. PICK n \in Nat :
             /\ DOMAIN sbox' = DOMAIN sbox \union {n} /\ \A i \in DOMAIN sbox : i < n /\ i \in Nat
             /\ sbox'[n].kind = "exit" /\ sbox'[n].arb = Main
             /\ \A i \in DOMAIN sbox : sbox'[i] = sbox[i]
    BY PostMine DEF SystemInv, SendExit, Loop
  <1>2. ASSUME NEW a \in Loop PROVE Tracked(a)'
    <2>1. Tracked(a) /\ UNCHANGED <<apc, arbiters>>
      BY DEF SystemInv, SendExit
    <2>2. \A i \in DOMAIN sbox' : Mine(a, i)' <=> Mine(a, i)
      BY <1>1 DEF Mine
    <2>3. (Before(a)' <=> Before(a)) /\ (Registered(a)' <=> Registered(a)) /\ (After(a)' <=> After(a))
      BY <1>1, <2>1, <2>2 DEF Before, Registered, After, None, Mine
    <2> QED
      BY <2>1, <2>3 DEF Tracked
  <1> QED
    BY <1>2

LEMMA SystemInit == Init => SystemInv
  <1> SUFFICES ASSUME Init PROVE SystemInv
    OBVIOUS
  <1>1. DOMAIN sbox = {} /\ arbiters = {}
    BY DEF Init
  <1>2. \A a \in Loop : Before(a) /\ apc[a] \in {"none", "running"}
    BY <1>1 DEF Init, Before, None
  <1> QED
    BY <1>2, TypeInit DEF SystemInv, Tracked

LEMMA SystemStepInv == SystemInv /\ [Next]_vars => SystemInv'
  <1> SUFFICES ASSUME SystemInv, [Next]_vars
               PROVE  spc' # "returned" => \A a \in Loop : Tracked(a)'
    BY TypeStep DEF SystemInv
  <1>0. Arb \subseteq Loop /\ apc \in [Loop -> {"none", "boot", "running", "registered", "stopping", "ended"}]
    BY DEF Loop, SystemInv, TypeOK
  <1> SUFFICES ASSUME spc' # "returned" PROVE \A a \in Loop : Tracked(a)'
    OBVIOUS
  <1>1. ASSUME NEW c \in Loop, NEW a \in Arb, New(c, a) PROVE \A b \in Loop : Tracked(b)'
    BY <1>0, <1>1, QuietInv DEF New
  <1>2. ASSUME NEW a \in Arb, Boot(a) \/ SendStop(a) PROVE \A b \in Loop : Tracked(b)'
    BY <1>0, <1>2, QuietInv DEF Boot, SendStop
  <1>3. ASSUME NEW a \in Loop, Started(a) PROVE \A b \in Loop : Tracked(b)'
    BY <1>0, <1>3, PostInv DEF Started
  <1>4. ASSUME NEW a \in Loop, HandleStop(a) PROVE \A b \in Loop : Tracked(b)'
    <2>1. \A b \in Loop : apc'[b] = apc[b] \/ {apc[b], apc'[b]} \subseteq {"registered", "stopping"}
      BY <1>0, <1>4 DEF HandleStop
    <2> QED
      BY <1>4, <2>1, QuietInv DEF HandleStop
  <1>5. ASSUME NEW a \in Arb, EndLoop(a) PROVE \A b \in Loop : Tracked(b)'
    BY <1>0, <1>5, PostInv DEF EndLoop
  <1>6. ASSUME Run PROVE \A b \in Loop : Tracked(b)'
    BY <1>6, QuietInv DEF Run
  <1>7. ASSUME SystemStep PROVE \A b \in Loop : Tracked(b)'
    BY <1>7, TakeInv DEF SystemStep, HandleRegister, HandleUnregister, HandleExit
  <1>8. ASSUME Return PROVE \A b \in Loop : Tracked(b)'
    BY <1>8 DEF Return
  <1>9. ASSUME SendExit PROVE \A b \in Loop : Tracked(b)'
    BY <1>9, SendExitInv DEF SendExit
  <1>10. ASSUME UNCHANGED vars PROVE \A b \in Loop : Tracked(b)'
    BY <1>10, QuietInv DEF vars
  <1> QED
    BY <1>1, <1>2, <1>3, <1>4, <1>5, <1>6, <1>7, <1>8, <1>9, <1>10 DEF Next

\* What the last message of an arbiter is, by its stage.
LEMMA InvSettles == SystemInv => RegistrySettles
  <1> SUFFICES ASSUME SystemInv, spc # "returned", NEW a \in Loop
               PROVE  WillBeRegistered(a) <=> apc[a] \in {"registered", "stopping"}
    BY DEF RegistrySettles
  <1> DEFINE mine == {i \in DOMAIN sbox : sbox[i].kind # "exit" /\ sbox[i].arb = a}
             last == CHOOSE i \in mine : \A j \in mine : j <= i
  <1>1. /\ Tracked(a) /\ apc[a] \in {"none", "boot", "running", "registered", "stopping", "ended"}
        /\ sbox \in Seq(Message)
    BY DEF SystemInv, TypeOK
  <1>2. \A i \in DOMAIN sbox : i \in mine <=> Mine(a, i)
    BY DEF Mine
  <1>3. WillBeRegistered(a) <=> IF mine = {} THEN a \in arbiters ELSE sbox[last].kind = "reg"
    BY DEF WillBeRegistered
  <1>4. None(a) <=> mine = {}
    BY <1>2 DEF None
  <1>5. ASSUME NEW i \in DOMAIN sbox, Mine(a, i), \A j \in DOMAIN sbox : Mine(a, j) => j <= i
        PROVE  last = i /\ mine # {}
    <2>1. i \in mine /\ \A j \in mine : j <= i
      BY <1>2, <1>5
    <2>2. last \in mine /\ \A j \in mine : j <= last
      BY <2>1
    <2>3. i \in Nat /\ last \in Nat
      BY <1>1, <2>1, <2>2
    <2>4. i <= last /\ last <= i
      BY <2>1, <2>2
    <2> QED
      BY <2>1, <2>3, <2>4
  <1>6. CASE apc[a] \in {"none", "boot", "running"}
    BY <1>1, <1>3, <1>4, <1>6 DEF Tracked, Before
  <1>7. CASE apc[a] \in {"registered", "stopping"}
    <2>1. Registered(a)
      BY <1>1, <1>7 DEF Tracked
    <2>2. \A i \in DOMAIN sbox : i \in Nat
      BY <1>1
    <2>3. ASSUME NEW i \in DOMAIN sbox, Mine(a, i), sbox[i].kind = "reg",
                 \A j \in DOMAIN sbox : Mine(a, j) => j = i
          PROVE  WillBeRegistered(a)
      <3>1. \A j \in DOMAIN sbox : Mine(a, j) => j <= i
        BY <2>2, <2>3
      <3> QED
        BY <1>3, <1>5, <2>3, <3>1
    <2> QED
      BY <1>3, <1>4, <1>7, <2>1, <2>3 DEF Registered
  <1>8. CASE apc[a] = "ended"
    <2>1. After(a)
      BY <1>1, <1>8 DEF Tracked
    <2> QED
      BY <1>3, <1>4, <1>5, <1>8, <2>1 DEF After
  <1> QED
    BY <1>1, <1>6, <1>7, <1>8

\* system.rs:115-165: whatever the number of arbiters, and however their threads
\* and the System actor interleave, no entry of the map outlives its arbiter and
\* none is missing once the messages on their way have been handled.
THEOREM RegistryIsSettled == Spec => []RegistrySettles
  BY SystemInit, SystemStepInv, InvSettles, PTL DEF Spec

-----------------------------------------------------------------------------
(* SyncArbiter: facts about sequences *)

LEMMA AppendFacts ==
    ASSUME NEW S, NEW q \in Seq(S), NEW x \in S
    PROVE  /\ Append(q, x) \in Seq(S)
           /\ DOMAIN Append(q, x) = DOMAIN q \union {Len(q) + 1}
           /\ \A i \in DOMAIN q : Append(q, x)[i] = q[i] /\ i \in Nat /\ i < Len(q) + 1
           /\ Append(q, x)[Len(q) + 1] = x
  OBVIOUS

LEMMA TailFacts ==
    ASSUME NEW S, NEW q \in Seq(S), q # <<>>
    PROVE  /\ Tail(q) \in Seq(S) /\ Head(q) \in S /\ Head(q) = q[1] /\ 1 \in DOMAIN q
           /\ \A i \in DOMAIN Tail(q) :
                 i \in Nat \ {0} /\ i + 1 \in DOMAIN q /\ Tail(q)[i] = q[i + 1] /\ 1 < i + 1
  <1>1. Len(q) \in Nat /\ Len(q) # 0 /\ DOMAIN q = 1..Len(q)
    OBVIOUS
  <1>2. Len(q) > 0
    BY <1>1
  <1> QED
    BY <1>1, <1>2

\* The Stops at the end of the queue.
LEMMA StopFacts ==
    ASSUME NEW q \in Seq(Msg \union {Stop}), NEW n \in Nat
    PROVE  /\ q \o [i \in 1..n |-> Stop] \in Seq(Msg \union {Stop})
           /\ \A i \in DOMAIN (q \o [k \in 1..n |-> Stop]) :
                 \/ i \in DOMAIN q /\ (q \o [k \in 1..n |-> Stop])[i] = q[i]
                 \/ (q \o [k \in 1..n |-> Stop])[i] = Stop /\ \A j \in DOMAIN q : j < i
  <1> DEFINE z == [k \in 1..n |-> Stop]
  <1>1. z \in Seq(Msg \union {Stop}) /\ Len(z) = n /\ DOMAIN z = 1..n
    OBVIOUS
  <1>2. Len(q) \in Nat /\ DOMAIN q = 1..Len(q)
    OBVIOUS
  <1>3. /\ q \o z \in Seq(Msg \union {Stop}) /\ DOMAIN (q \o z) = 1..(Len(q) + n)
        /\ \A i \in 1..(Len(q) + n) : (q \o z)[i] = IF i <= Len(q) THEN q[i] ELSE z[i - Len(q)]
    BY <1>1
  <1>4. ASSUME NEW i \in 1..(Len(q) + n), ~(i <= Len(q))
        PROVE  (q \o z)[i] = Stop /\ \A j \in DOMAIN q : j < i
    <2>1. i - Len(q) \in 1..n
      BY <1>2, <1>4
    <2> QED
      BY <1>2, <1>3, <1>4, <2>1
  <1> HIDE DEF z
  <1>5. \A i \in 1..(Len(q) + n) : i <= Len(q) => i \in DOMAIN q
    BY <1>2
  <1>6. \A i \in DOMAIN (q \o z) : \/ i \in DOMAIN q /\ (q \o z)[i] = q[i]
                                   \/ (q \o z)[i] = Stop /\ \A j \in DOMAIN q : j < i
    BY <1>3, <1>4, <1>5
  <1> QED
    BY <1>3, <1>6 DEF z

-----------------------------------------------------------------------------
(* Types *)

LEMMA LoseType ==
    ASSUME SyncTypeOK, NEW s
    PROVE  Lose(s) \in [Msg -> {"open", "handled", "skipped", "lost"}]
  BY DEF Lose, SyncTypeOK

LEMMA SyncTypeInit == SyncInit => SyncTypeOK
  <1> SUFFICES ASSUME SyncInit PROVE SyncTypeOK
    OBVIOUS
  <1>1. addrs \in 0..MaxAddr /\ sent \in 0..MaxMsg
    BY SyncBoundAssumption DEF SyncInit
  <1>2. mbox \in Seq(Msg) /\ queue \in Seq(Msg \union {Stop})
    BY DEF SyncInit
  <1> QED
    BY <1>1, <1>2 DEF SyncInit, SyncTypeOK

LEMMA FinishType ==
    ASSUME SyncTypeOK, NEW n \in Nat, Finish(n)
    PROVE  SyncTypeOK'
  <1>1. CASE addrs > 0
    BY <1>1 DEF Finish, SyncTypeOK, clientVars, workerVars
  <1>2. CASE ~(addrs > 0)
    <2>1. queue' \in Seq(Msg \union {Stop})
      BY <1>2, StopFacts DEF Finish, SyncTypeOK
    <2>2. outcome' \in [Msg -> {"open", "handled", "skipped", "lost"}]
      BY <1>2, LoseType DEF Finish
    <2>3. mbox' = <<>> /\ fpc' = "done"
      BY <1>2 DEF Finish
    <2>4. mbox' \in Seq(Msg)
      BY <2>3
    <2> QED
      BY <2>1, <2>2, <2>3, <2>4 DEF Finish, SyncTypeOK, clientVars, workerVars
  <1> QED
    BY <1>1, <1>2

LEMMA WorkersCounted == Cardinality(Worker) \in Nat
  BY WorkerAssumption, FS_CardinalityType

LEMMA SyncTypeStep == SyncTypeOK /\ [SyncNext]_syncVars => SyncTypeOK'
  <1> SUFFICES ASSUME SyncTypeOK, [SyncNext]_syncVars PROVE SyncTypeOK'
    OBVIOUS
  <1> USE DEF clientVars, workerVars
  <1>1. ASSUME Send PROVE SyncTypeOK'
    <2>0. sent + 1 \in Msg /\ sent' \in 0..MaxMsg
      BY <1>1, SyncBoundAssumption DEF Send, SyncTypeOK, Msg
    <2>a. mbox \in Seq(Msg) /\ mbox' \in {mbox, Append(mbox, sent + 1)}
      BY <1>1 DEF Send, SyncTypeOK
    <2>1. mbox' \in Seq(Msg)
      BY <2>0, <2>a, AppendFacts
    <2>2. outcome' \in [Msg -> {"open", "handled", "skipped", "lost"}] /\ woken' \in BOOLEAN
      BY <1>1, <2>0 DEF Send, SyncTypeOK
    <2> QED
      BY <1>1, <2>0, <2>1, <2>2 DEF Send, SyncTypeOK
  <1>2. ASSUME NEW m \in Msg, Cancel(m) PROVE SyncTypeOK'
    BY <1>2 DEF Cancel, SyncTypeOK
  <1>3. ASSUME CloneAddr \/ DropAddr PROVE SyncTypeOK'
    <2>a. addrs \in 0..MaxAddr /\ addrs' \in {addrs + 1, addrs - 1} /\ MaxAddr \in Nat \ {0}
          /\ (addrs' = addrs + 1 => addrs \in 1..(MaxAddr - 1)) /\ (addrs' = addrs - 1 => addrs > 0)
      BY <1>3, SyncBoundAssumption DEF CloneAddr, DropAddr, SyncTypeOK
    <2>b. addrs' \in 0..MaxAddr
      BY <2>a
    <2>c. woken' \in BOOLEAN
      BY <1>3 DEF CloneAddr, DropAddr, SyncTypeOK
    <2>1. addrs' \in 0..MaxAddr /\ woken' \in BOOLEAN
      BY <2>b, <2>c
    <2> QED
      BY <1>3, <2>1 DEF CloneAddr, DropAddr, SyncTypeOK
  <1>4. ASSUME StartPoll \/ Drained PROVE SyncTypeOK'
    BY <1>4 DEF StartPoll, Drained, SyncTypeOK
  <1>5. ASSUME Forward PROVE SyncTypeOK'
    <2>0. Head(mbox) \in Msg /\ Tail(mbox) \in Seq(Msg)
      BY <1>5, TailFacts DEF Forward, SyncTypeOK
    <2>a. /\ queue \in Seq(Msg \union {Stop}) /\ queue' \in {queue, Append(queue, Head(mbox))}
          /\ mbox' = <<>> \/ mbox' = Tail(mbox)
      BY <1>5 DEF Forward, SyncTypeOK
    <2>1. queue' \in Seq(Msg \union {Stop})
      BY <2>0, <2>a, AppendFacts
    <2>2. mbox' \in Seq(Msg)
      <3>1. <<>> \in Seq(Msg)
        OBVIOUS
      <3> QED
        BY <2>0, <2>a, <3>1
    <2>3. outcome' \in [Msg -> {"open", "handled", "skipped", "lost"}]
      BY <1>5, LoseType DEF Forward, SyncTypeOK
    <2> QED
      BY <1>5, <2>1, <2>2, <2>3 DEF Forward, SyncTypeOK
  <1>6. ASSUME Check PROVE SyncTypeOK'
    BY <1>6, WorkersCounted, FinishType DEF Check
  <1>7. ASSUME LoopEnds PROVE SyncTypeOK'
    <2>1. outcome' \in [Msg -> {"open", "handled", "skipped", "lost"}]
      BY <1>7, LoseType DEF LoopEnds
    <2>2. mbox' \in Seq(Msg)
      BY <1>7 DEF LoopEnds
    <2> QED
      BY <1>7, <2>1, <2>2 DEF LoopEnds, SyncTypeOK
  <1>8. ASSUME NEW w \in Worker, WorkerStarted(w) \/ Restart(w) PROVE SyncTypeOK'
    <2>1. stopping' \in [Worker -> BOOLEAN]
      BY <1>8 DEF WorkerStarted, Restart, AfterStarted, SyncTypeOK
    <2> QED
      BY <1>8, <2>1 DEF WorkerStarted, Restart, SyncTypeOK
  <1>9. ASSUME NEW w \in Worker, RecvEnvelope(w) PROVE SyncTypeOK'
    <2>0. Head(queue) \in Msg \union {Stop} /\ Tail(queue) \in Seq(Msg \union {Stop})
      BY <1>9, TailFacts DEF RecvEnvelope, SyncTypeOK
    <2>1. cur' \in [Worker -> Msg \union {0}]
      BY <1>9, <2>0 DEF RecvEnvelope, SyncTypeOK, Stop
    <2> QED
      BY <1>9, <2>0, <2>1 DEF RecvEnvelope, SyncTypeOK
  <1>10. ASSUME NEW w \in Worker, RecvStop(w) \/ RecvErr(w) PROVE SyncTypeOK'
    <2>1. queue' \in Seq(Msg \union {Stop})
      <3>1. /\ queue \in Seq(Msg \union {Stop})
            /\ queue' = queue \/ (queue # <<>> /\ queue' = Tail(queue))
        BY <1>10 DEF RecvStop, RecvErr, SyncTypeOK
      <3> QED
        BY <3>1, TailFacts
    <2> QED
      BY <1>10, <2>1 DEF RecvStop, RecvErr, SyncTypeOK
  <1>11. ASSUME NEW w \in Worker, Handle(w) PROVE SyncTypeOK'
    <2>1. stopping' \in [Worker -> BOOLEAN]
      BY <1>11 DEF Handle, SyncTypeOK
    <2>2. outcome' \in [Msg -> {"open", "handled", "skipped", "lost"}]
      BY <1>11 DEF Handle, SyncTypeOK
    <2> QED
      BY <1>11, <2>1, <2>2 DEF Handle, SyncTypeOK
  <1>12. ASSUME NEW w \in Worker, Panic(w) PROVE SyncTypeOK'
    BY <1>12 DEF Panic, SyncTypeOK
  <1>13. ASSUME UNCHANGED syncVars PROVE SyncTypeOK'
    BY <1>13 DEF syncVars, SyncTypeOK
  <1> QED
    BY <1>1, <1>2, <1>3, <1>4, <1>5, <1>6, <1>7, <1>8, <1>9, <1>10, <1>11, <1>12, <1>13
    DEF SyncNext, Poll, Work

\* Types of the future, of the queue and of the workers.
THEOREM SyncTypeCorrect == SyncSpec => []SyncTypeOK
  BY SyncTypeInit, SyncTypeStep, PTL DEF SyncSpec

-----------------------------------------------------------------------------
(* The inductive invariant: types, a worker that handles has a message, and   *)
(* what was not sent is nowhere.                                             *)

\* Whatever waits or was taken has been sent.
SentOnly ==
    /\ \A i \in DOMAIN mbox : mbox[i] <= sent
    /\ \A i \in DOMAIN queue : queue[i] <= sent
    /\ \A m \in Taken : m <= sent

OrderInv ==
    /\ SyncTypeOK /\ \A w \in Worker : wpc[w] = "handle" => cur[w] \in Msg
    /\ SentOnly /\ TakenInOrder

LEMMA OrderTypes ==
    ASSUME OrderInv
    PROVE  /\ mbox \in Seq(Msg) /\ queue \in Seq(Msg \union {Stop}) /\ sent \in Nat /\ Msg \subseteq Nat
           /\ Stop \in Nat /\ Taken \subseteq Msg
           /\ (\A i \in DOMAIN mbox : mbox[i] \in Nat) /\ (\A i \in DOMAIN queue : queue[i] \in Nat)
           /\ outcome \in [Msg -> {"open", "handled", "skipped", "lost"}]
           /\ wpc \in [Worker -> {"start", "recv", "handle", "after", "ended", "dead"}]
           /\ cur \in [Worker -> Msg \union {0}]
  <1>1. SyncTypeOK
    BY DEF OrderInv
  <1>2. /\ mbox \in Seq(Msg) /\ queue \in Seq(Msg \union {Stop})
        /\ outcome \in [Msg -> {"open", "handled", "skipped", "lost"}]
        /\ wpc \in [Worker -> {"start", "recv", "handle", "after", "ended", "dead"}]
        /\ cur \in [Worker -> Msg \union {0}]
    BY <1>1 DEF SyncTypeOK
  <1>3. sent \in Nat /\ Msg \subseteq Nat /\ Stop \in Nat
    BY <1>1, SyncBoundAssumption DEF SyncTypeOK, Msg, Stop
  <1>4. (\A i \in DOMAIN mbox : mbox[i] \in Msg) /\ (\A i \in DOMAIN queue : queue[i] \in Msg \union {Stop})
    BY <1>2
  <1>5. Taken \subseteq Msg
    BY DEF OrderInv, Taken
  <1> QED
    BY <1>2, <1>3, <1>4, <1>5

\* A step that changes neither queue nor mailbox, nor makes a message taken.
LEMMA SameQueues ==
    ASSUME OrderInv, SyncTypeOK', UNCHANGED <<mbox, queue, sent>>, Taken' \subseteq Taken,
           \A w \in Worker : wpc'[w] = "handle" => cur'[w] \in Msg
    PROVE  OrderInv'
  BY DEF OrderInv, SentOnly, TakenInOrder

\* A step that empties the mailbox, and may put Stops into the queue.
LEMMA EmptiedMailbox ==
    ASSUME OrderInv, SyncTypeOK', mbox' = <<>>, UNCHANGED sent, Taken' \subseteq Taken,
           UNCHANGED <<wpc, cur>>,
           \A i \in DOMAIN queue' : \/ i \in DOMAIN queue /\ queue'[i] = queue[i]
                                    \/ queue'[i] = Stop /\ \A j \in DOMAIN queue : j < i
    PROVE  OrderInv'
  <1>t. /\ queue \in Seq(Msg \union {Stop}) /\ sent \in Nat /\ Msg \subseteq Nat
        /\ queue' \in Seq(Msg \union {Stop})
    BY OrderTypes DEF SyncTypeOK
  <1>1. DOMAIN mbox' = {}
    OBVIOUS
  <1>2. SentOnly'
    BY <1>t, <1>1 DEF OrderInv, SentOnly, Stop
  <1>3. \A i, j \in DOMAIN queue' : i < j /\ queue'[j] # Stop => queue'[i] < queue'[j]
    <2> SUFFICES ASSUME NEW i \in DOMAIN queue', NEW j \in DOMAIN queue', i < j, queue'[j] # Stop
                 PROVE  queue'[i] < queue'[j]
      OBVIOUS
    <2>1. j \in DOMAIN queue /\ queue'[j] = queue[j] /\ i \in Nat /\ j \in Nat
      BY <1>t
    <2>2. i \in DOMAIN queue /\ queue'[i] = queue[i]
      BY <2>1
    <2> QED
      BY <2>1, <2>2 DEF OrderInv, TakenInOrder
  <1>4. TakenInOrder'
    BY <1>1, <1>3 DEF OrderInv, TakenInOrder
  <1> QED
    BY <1>2, <1>4 DEF OrderInv

\* Who drops a mailbox loses its messages, and takes none.
LEMMA LoseTakes ==
    ASSUME SyncTypeOK, NEW s, outcome' = Lose(s), UNCHANGED <<wpc, cur>>
    PROVE  Taken' \subseteq Taken
  <1>1. \A m \in Msg : outcome'[m] \in {"lost", outcome[m]}
    BY DEF Lose
  <1> QED
    BY <1>1 DEF Taken

LEMMA SendInv ==
    ASSUME OrderInv, SyncTypeOK', Send
    PROVE  OrderInv'
  <1>t. /\ mbox \in Seq(Msg) /\ queue \in Seq(Msg \union {Stop}) /\ sent \in Nat /\ Msg \subseteq Nat
        /\ Stop \in Nat /\ Taken \subseteq Msg
        /\ (\A i \in DOMAIN mbox : mbox[i] \in Nat) /\ (\A i \in DOMAIN queue : queue[i] \in Nat)
    BY OrderTypes
  <1>0. sent + 1 \in Msg
    BY SyncBoundAssumption DEF Send, OrderInv, SyncTypeOK, Msg
  <1>1. sent' = sent + 1 /\ UNCHANGED <<queue, wpc, cur>>
    BY DEF Send, workerVars
  <1>2. Taken' \subseteq Taken
    <2>1. \A m \in Msg : outcome'[m] \in {"lost", outcome[m]}
      BY <1>0 DEF Send, OrderInv, SyncTypeOK
    <2> QED
      BY <1>1, <2>1 DEF Taken
  <1>3. \A w \in Worker : wpc'[w] = "handle" => cur'[w] \in Msg
    BY <1>1 DEF OrderInv
  <1>4. \A m \in Msg : m <= sent => m <= sent + 1 /\ m < sent + 1
    BY <1>t
  <1>5. CASE mbox' = mbox
    <2>1. SentOnly'
      <3>1. \A m \in Taken' : m <= sent /\ m \in Nat
        BY <1>t, <1>2 DEF OrderInv, SentOnly
      <3> QED
        BY <1>t, <1>1, <1>5, <3>1 DEF OrderInv, SentOnly
    <2>2. TakenInOrder'
      BY <1>1, <1>2, <1>5 DEF OrderInv, TakenInOrder
    <2> QED
      BY <1>3, <2>1, <2>2 DEF OrderInv
  <1>6. CASE mbox' = Append(mbox, sent + 1)
    <2>1. /\ DOMAIN mbox' = DOMAIN mbox \union {Len(mbox) + 1}
          /\ \A i \in DOMAIN mbox : mbox'[i] = mbox[i] /\ i \in Nat /\ i < Len(mbox) + 1
          /\ mbox'[Len(mbox) + 1] = sent + 1
      BY <1>t, <1>0, <1>6, AppendFacts
    <2>a. Len(mbox) \in Nat /\ \A i \in DOMAIN mbox : mbox[i] \in Nat
      BY <1>t
    <2>2. /\ \A i \in DOMAIN mbox : mbox[i] <= sent
          /\ \A i \in DOMAIN queue : queue[i] <= sent /\ queue[i] \in Nat
          /\ \A m \in Taken' : m <= sent /\ m \in Nat
      BY <1>t, <1>2 DEF OrderInv, SentOnly
    <2>3. SentOnly'
      BY <1>t, <1>1, <2>1, <2>2 DEF SentOnly
    <2>4. \A i, j \in DOMAIN mbox' : i < j => mbox'[i] < mbox'[j]
      <3> SUFFICES ASSUME NEW i \in DOMAIN mbox', NEW j \in DOMAIN mbox', i < j PROVE mbox'[i] < mbox'[j]
        OBVIOUS
      <3>1. i \in DOMAIN mbox
        BY <2>1, <2>a
      <3>2. CASE j \in DOMAIN mbox
        BY <2>1, <3>1, <3>2 DEF OrderInv, TakenInOrder
      <3>3. CASE j = Len(mbox) + 1
        BY <1>t, <2>1, <2>2, <2>a, <3>1, <3>3
      <3> QED
        BY <2>1, <3>2, <3>3
    <2>5. \A i \in DOMAIN queue, j \in DOMAIN mbox' : queue[i] < mbox'[j]
      BY <1>t, <2>1, <2>2 DEF OrderInv, TakenInOrder
    <2>6. \A m \in Taken' : \A i \in DOMAIN mbox' : m < mbox'[i]
      BY <1>t, <1>2, <2>1, <2>2 DEF OrderInv, TakenInOrder
    <2>7. TakenInOrder'
      BY <1>1, <1>2, <2>4, <2>5, <2>6 DEF OrderInv, TakenInOrder
    <2> QED
      BY <1>3, <2>3, <2>7 DEF OrderInv
  <1> QED
    BY <1>5, <1>6 DEF Send

\* The oldest message of the mailbox becomes the newest of the queue.
LEMMA ForwardInv ==
    ASSUME OrderInv, SyncTypeOK', Forward
    PROVE  OrderInv'
  <1>t. /\ mbox \in Seq(Msg) /\ queue \in Seq(Msg \union {Stop}) /\ sent \in Nat /\ Msg \subseteq Nat
        /\ Stop \in Nat /\ Taken \subseteq Msg /\ mbox # <<>>
    BY OrderTypes DEF Forward
  <1>1. UNCHANGED <<sent, wpc, cur>>
    BY DEF Forward, clientVars, workerVars
  <1>2. CASE queue' = Append(queue, Head(mbox)) /\ mbox' = Tail(mbox) /\ UNCHANGED <<fpc, outcome>>
    <2>1. /\ Head(mbox) = mbox[1] /\ 1 \in DOMAIN mbox /\ mbox[1] \in Msg
          /\ \A i \in DOMAIN mbox' :
                i \in Nat /\ i + 1 \in DOMAIN mbox /\ mbox'[i] = mbox[i + 1] /\ 1 < i + 1
      BY <1>t, <1>2, TailFacts
    <2>2. /\ DOMAIN queue' = DOMAIN queue \union {Len(queue) + 1}
          /\ \A i \in DOMAIN queue : queue'[i] = queue[i] /\ i \in Nat /\ i < Len(queue) + 1
          /\ queue'[Len(queue) + 1] = mbox[1] /\ Len(queue) \in Nat
      BY <1>t, <1>2, <2>1, AppendFacts
    <2>3. Taken' = Taken
      BY <1>1, <1>2 DEF Taken
    <2>4. SentOnly'
      BY <1>1, <2>1, <2>2, <2>3 DEF OrderInv, SentOnly
    <2>5. \A i, j \in DOMAIN queue' : i < j /\ queue'[j] # Stop => queue'[i] < queue'[j]
      <3> SUFFICES ASSUME NEW i \in DOMAIN queue', NEW j \in DOMAIN queue', i < j, queue'[j] # Stop
                   PROVE  queue'[i] < queue'[j]
        OBVIOUS
      <3>1. i \in DOMAIN queue
        BY <2>2
      <3>2. CASE j \in DOMAIN queue
        BY <2>2, <3>1, <3>2 DEF OrderInv, TakenInOrder
      <3>3. CASE j = Len(queue) + 1
        BY <2>1, <2>2, <3>1, <3>3 DEF OrderInv, TakenInOrder
      <3> QED
        BY <2>2, <3>2, <3>3
    <2>6. \A i, j \in DOMAIN mbox' : i < j => mbox'[i] < mbox'[j]
      <3> SUFFICES ASSUME NEW i \in DOMAIN mbox', NEW j \in DOMAIN mbox', i < j PROVE mbox'[i] < mbox'[j]
        OBVIOUS
      <3>1. i + 1 < j + 1
        BY <2>1
      <3> QED
        BY <2>1, <3>1 DEF OrderInv, TakenInOrder
    <2>7. \A i \in DOMAIN queue', j \in DOMAIN mbox' : queue'[i] < mbox'[j]
      BY <2>1, <2>2 DEF OrderInv, TakenInOrder
    <2>8. \A m \in Taken' : /\ \A i \in DOMAIN queue' : queue'[i] # Stop => m < queue'[i]
                            /\ \A i \in DOMAIN mbox' : m < mbox'[i]
      BY <2>1, <2>2, <2>3 DEF OrderInv, TakenInOrder
    <2>9. TakenInOrder'
      BY <2>5, <2>6, <2>7, <2>8 DEF TakenInOrder
    <2> QED
      BY <1>1, <2>4, <2>9 DEF OrderInv
  <1>3. CASE outcome' = Lose(mbox) /\ mbox' = <<>> /\ UNCHANGED queue
    <2>1. Taken' \subseteq Taken
      BY <1>1, <1>3, LoseTakes DEF OrderInv
    <2> QED
      BY <1>1, <1>3, <2>1, EmptiedMailbox
  <1> QED
    BY <1>2, <1>3 DEF Forward

\* The future resolves, or is dropped with its loop.
LEMMA CloseInv ==
    ASSUME OrderInv, SyncTypeOK', Check \/ LoopEnds
    PROVE  OrderInv'
  <1>1. UNCHANGED <<sent, wpc, cur>>
    BY DEF Check, Finish, LoopEnds, clientVars, workerVars
  <1>2. CASE Check /\ addrs > 0
    <2>1. UNCHANGED <<mbox, queue, outcome>>
      BY <1>2 DEF Check, Finish
    <2>2. Taken' = Taken
      BY <1>1, <2>1 DEF Taken
    <2> QED
      BY <1>1, <2>1, <2>2, SameQueues DEF OrderInv
  <1>3. CASE ~(Check /\ addrs > 0)
    <2>1. /\ mbox' = <<>> /\ outcome' = Lose(mbox)
          /\ queue' = queue \/ queue' = queue \o [i \in 1..Cardinality(Worker) |-> Stop]
      BY <1>3 DEF Check, Finish, LoopEnds
    <2>2. Taken' \subseteq Taken
      BY <1>1, <2>1, LoseTakes DEF OrderInv
    <2>3. \A i \in DOMAIN queue' : \/ i \in DOMAIN queue /\ queue'[i] = queue[i]
                                   \/ queue'[i] = Stop /\ \A j \in DOMAIN queue : j < i
      <3>1. CASE queue' = queue
        BY <3>1
      <3>2. CASE queue' = queue \o [i \in 1..Cardinality(Worker) |-> Stop]
        <4>1. queue \in Seq(Msg \union {Stop})
          BY OrderTypes
        <4> QED
          BY <3>2, <4>1, WorkersCounted, StopFacts
      <3> QED
        BY <2>1, <3>1, <3>2
    <2> QED
      BY <1>1, <2>1, <2>2, <2>3, EmptiedMailbox
  <1> QED
    BY <1>2, <1>3

\* A worker takes the first entry of the queue.
LEMMA RecvInv ==
    ASSUME OrderInv, SyncTypeOK', NEW w \in Worker, RecvEnvelope(w) \/ RecvStop(w)
    PROVE  OrderInv'
  <1>t. /\ mbox \in Seq(Msg) /\ queue \in Seq(Msg \union {Stop}) /\ sent \in Nat /\ Msg \subseteq Nat
        /\ Stop \in Nat /\ Taken \subseteq Msg /\ queue # <<>>
        /\ wpc \in [Worker -> {"start", "recv", "handle", "after", "ended", "dead"}]
        /\ cur \in [Worker -> Msg \union {0}]
    BY OrderTypes DEF RecvEnvelope, RecvStop
  <1>1. queue' = Tail(queue) /\ UNCHANGED <<mbox, sent, outcome>> /\ wpc[w] = "recv"
    BY DEF RecvEnvelope, RecvStop, clientVars
  <1>2. /\ Head(queue) = queue[1] /\ 1 \in DOMAIN queue /\ queue[1] \in Msg \union {Stop}
        /\ \A i \in DOMAIN queue' :
              i \in Nat /\ i + 1 \in DOMAIN queue /\ queue'[i] = queue[i + 1] /\ 1 < i + 1
    BY <1>t, <1>1, TailFacts
  <1>3. Taken' \subseteq Taken \union ({queue[1]} \ {Stop})
    <2>1. CASE RecvEnvelope(w)
      <3>1. cur' = [cur EXCEPT ![w] = queue[1]] /\ wpc' = [wpc EXCEPT ![w] = "handle"] /\ queue[1] # Stop
        BY <1>2, <2>1 DEF RecvEnvelope
      <3>2. \A v \in Worker : wpc'[v] = "handle" => v = w \/ (wpc[v] = "handle" /\ cur'[v] = cur[v])
        BY <1>t, <3>1
      <3>3. cur'[w] = queue[1]
        BY <1>t, <3>1
      <3> QED
        BY <1>1, <3>1, <3>2, <3>3 DEF Taken
    <2>2. CASE RecvStop(w)
      <3>1. \A v \in Worker : wpc'[v] = "handle" => wpc[v] = "handle" /\ cur'[v] = cur[v]
        BY <1>t, <2>2 DEF RecvStop
      <3> QED
        BY <1>1, <3>1 DEF Taken
    <2> QED
      BY <2>1, <2>2
  <1>4. \A v \in Worker : wpc'[v] = "handle" => cur'[v] \in Msg
    BY <1>t, <1>2 DEF OrderInv, RecvEnvelope, RecvStop
  <1>5. SentOnly'
    BY <1>1, <1>2, <1>3 DEF OrderInv, SentOnly
  <1>6. \A i, j \in DOMAIN queue' : i < j /\ queue'[j] # Stop => queue'[i] < queue'[j]
    <2> SUFFICES ASSUME NEW i \in DOMAIN queue', NEW j \in DOMAIN queue', i < j, queue'[j] # Stop
                 PROVE  queue'[i] < queue'[j]
      OBVIOUS
    <2>1. i + 1 < j + 1
      BY <1>2
    <2> QED
      BY <1>2, <2>1 DEF OrderInv, TakenInOrder
  <1>7. \A i \in DOMAIN queue', j \in DOMAIN mbox : queue'[i] < mbox[j]
    BY <1>2 DEF OrderInv, TakenInOrder
  <1>8. \A m \in Taken' : /\ \A i \in DOMAIN queue' : queue'[i] # Stop => m < queue'[i]
                          /\ \A i \in DOMAIN mbox : m < mbox[i]
    BY <1>2, <1>3 DEF OrderInv, TakenInOrder
  <1>9. TakenInOrder'
    BY <1>1, <1>6, <1>7, <1>8 DEF OrderInv, TakenInOrder
  <1> QED
    BY <1>4, <1>5, <1>9 DEF OrderInv

\* The other steps of a worker: what it handles was taken when it was received.
LEMMA WorkInv ==
    ASSUME OrderInv, SyncTypeOK', NEW w \in Worker,
           \/ WorkerStarted(w) \/ RecvErr(w) \/ Handle(w) \/ Restart(w) \/ Panic(w)
    PROVE  OrderInv'
  <1>t. /\ outcome \in [Msg -> {"open", "handled", "skipped", "lost"}]
        /\ wpc \in [Worker -> {"start", "recv", "handle", "after", "ended", "dead"}]
    BY OrderTypes
  <1>1. UNCHANGED <<mbox, queue, sent, cur>>
    BY DEF WorkerStarted, RecvErr, Handle, Restart, Panic, clientVars
  <1>2. \A v \in Worker : wpc'[v] = "handle" => wpc[v] = "handle"
    BY <1>t DEF WorkerStarted, RecvErr, Handle, Restart, Panic
  <1>3. \A m \in Msg : outcome'[m] \in {outcome[m], "lost"} \/ (m = cur[w] /\ wpc[w] = "handle")
    BY <1>t DEF WorkerStarted, RecvErr, Handle, Restart, Panic
  <1>4. Taken' \subseteq Taken
    BY <1>1, <1>2, <1>3 DEF Taken
  <1> QED
    BY <1>1, <1>2, <1>4, SameQueues DEF OrderInv

\* Steps that leave the messages alone.
LEMMA OtherInv ==
    ASSUME OrderInv, SyncTypeOK',
           \/ CloneAddr \/ DropAddr \/ StartPoll \/ Drained \/ UNCHANGED syncVars
           \/ \E m \in Msg : Cancel(m)
    PROVE  OrderInv'
  <1>1. UNCHANGED <<mbox, queue, sent, outcome, wpc, cur>>
    BY DEF CloneAddr, DropAddr, StartPoll, Drained, syncVars, Cancel, clientVars, workerVars
  <1>2. Taken' = Taken
    BY <1>1 DEF Taken
  <1> QED
    BY <1>1, <1>2, SameQueues DEF OrderInv

LEMMA OrderInit == SyncInit => OrderInv
  <1> SUFFICES ASSUME SyncInit PROVE OrderInv
    OBVIOUS
  <1>1. DOMAIN mbox = {} /\ DOMAIN queue = {}
    BY DEF SyncInit
  <1>2. Taken = {} /\ \A w \in Worker : wpc[w] = "start"
    BY DEF SyncInit, Taken
  <1> QED
    BY <1>1, <1>2, SyncTypeInit DEF OrderInv, SentOnly, TakenInOrder

LEMMA OrderStep == OrderInv /\ [SyncNext]_syncVars => OrderInv'
  <1> SUFFICES ASSUME OrderInv, [SyncNext]_syncVars PROVE OrderInv'
    OBVIOUS
  <1>1. SyncTypeOK'
    BY SyncTypeStep DEF OrderInv
  <1> QED
    BY <1>1, SendInv, ForwardInv, CloseInv, RecvInv, WorkInv, OtherInv DEF SyncNext, Poll, Work

\* sync.rs:134-157, 193-236: with any number of workers that take from one queue,
\* messages are taken in the order they were sent, and each by one worker once.
THEOREM MessagesTakenInOrder == SyncSpec => []TakenInOrder
  BY OrderInit, OrderStep, PTL DEF SyncSpec, OrderInv

=============================================================================
