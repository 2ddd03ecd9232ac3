---------------------------- MODULE SignalsProofs ----------------------------
(***************************************************************************)
(* Proofs about ServiceRegistry and Signals for any number of threads, of   *)
(* instances and of signals: the addresses of the registry are live, and    *)
(* the subscribers of a signal service are served.                          *)
(***************************************************************************)
EXTENDS Signals, FiniteSetTheorems, TLAPS

-----------------------------------------------------------------------------
(* The registry *)

\* Types of the registry's state.
RegistryTypeOK ==
    /\ cpc \in [Client -> {"idle", "start", "insert", "done"}]
    /\ got \in [Client -> 0..MaxInst] /\ reg \in 0..MaxInst
    /\ inst \in [Inst -> {"none", "queued", "running", "ended"}]
    /\ sysbox \in Seq(Inst) /\ sysUp \in BOOLEAN

RegistryInv == RegistryTypeOK /\ AddressesLive

LEMMA RegistryInit == Init => RegistryInv
  BY BoundAssumption DEF Init, RegistryInv, RegistryTypeOK, AddressesLive, Held, Inst

\* One step per action; only what get() returns and what ends an instance
\* touches the addresses.
LEMMA RegistryStep == RegistryInv /\ [Next]_vars => RegistryInv'
  <1> SUFFICES ASSUME RegistryInv, [Next]_vars PROVE RegistryInv'
    OBVIOUS
  <1> USE DEF RegistryInv, RegistryTypeOK, AddressesLive, Held
  <1>a. Inst \subseteq 0..MaxInst /\ 0 \in 0..MaxInst /\ 0 \notin Inst
    BY BoundAssumption DEF Inst
  <1>1. ASSUME NEW c \in Client, Lookup(c) PROVE RegistryInv'
    BY <1>1 DEF Lookup
  <1>2. ASSUME NEW c \in Client, StartIn(c) PROVE RegistryInv'
    <2>1. PICK i \in Inst : /\ inst[i] = "none"
                            /\ inst' = [inst EXCEPT ![i] = IF sysUp THEN "queued" ELSE "ended"]
                            /\ sysbox' = IF sysUp THEN Append(sysbox, i) ELSE sysbox
                            /\ got' = [got EXCEPT ![c] = i]
      BY <1>2 DEF StartIn
    <2>2. RegistryTypeOK'
      <3>1. sysbox' \in Seq(Inst)
        BY <2>1
      <3> QED
        BY <1>a, <1>2, <2>1, <3>1 DEF StartIn
    <2>3. AddressesLive'
      BY <1>2, <2>1 DEF StartIn
    <2> QED
      BY <2>2, <2>3
  <1>3. ASSUME NEW c \in Client, Insert(c) PROVE RegistryInv'
    BY <1>3 DEF Insert
  <1>4. ASSUME NEW c \in Client, Release(c) PROVE RegistryInv'
    BY <1>a, <1>4 DEF Release
  <1>5. ASSUME NEW i \in Inst, End(i) PROVE RegistryInv'
    BY <1>5 DEF End
  <1>6. ASSUME Execute PROVE RegistryInv'
    <2>1. Head(sysbox) \in Inst /\ Tail(sysbox) \in Seq(Inst)
      BY <1>6 DEF Execute
    <2>2. RegistryTypeOK'
      BY <1>6, <2>1 DEF Execute
    <2>3. AddressesLive'
      BY <1>6, <2>1 DEF Execute
    <2> QED
      BY <2>2, <2>3
  <1>7. ASSUME SystemDown PROVE RegistryInv'
    <2>1. sysUp' = FALSE /\ sysbox' \in Seq(Inst) /\ UNCHANGED <<cpc, got, reg>>
      BY <1>7 DEF SystemDown
    <2>2. inst' \in [Inst -> {"none", "queued", "running", "ended"}]
      BY <1>7 DEF SystemDown
    <2> QED
      BY <2>1, <2>2
  <1>8. ASSUME UNCHANGED vars PROVE RegistryInv'
    BY <1>8 DEF vars
  <1> QED
    BY <1>1, <1>2, <1>3, <1>4, <1>5, <1>6, <1>7, <1>8 DEF Next

\* registry.rs:159-189: while the system runs, an address that get() handed out
\* or keeps leads to an instance that runs or will be started, for any number
\* of threads that race between the two critical sections.
THEOREM AddressesAreLive == Spec => []AddressesLive
  <1> QED
    BY RegistryInit, RegistryStep, PTL DEF Spec, RegistryInv

-----------------------------------------------------------------------------
(* Signals over the registry *)

\* A step of the composition is one of the registry, or leaves it alone.
LEMMA RegistryOfSignals == [SigNext]_allVars => [Next]_vars
  <1> SUFFICES ASSUME [SigNext]_allVars PROVE [Next]_vars
    OBVIOUS
  <1> USE DEF Next
  <1>1. ASSUME NEW h \in Handler, HandlerStep(h) PROVE [Next]_vars
    BY <1>1 DEF HandlerStep, Get, SendSubscribe, PollRequest, Handle, Handler
  <1>2. ASSUME SystemStep \/ Exit PROVE [Next]_vars
    BY <1>2 DEF SystemStep, StartService, HandleSubscribe, HandleSignal, Exit
  <1>3. ASSUME NEW i \in Inst, EndService(i) PROVE [Next]_vars
    BY <1>3 DEF EndService
  <1>4. ASSUME NEW i \in Inst, NEW t \in SignalType, OpenStream(i, t) \/ Raise(t) PROVE [Next]_vars
    BY <1>4 DEF OpenStream, Raise
  <1>5. ASSUME NEW h \in Handler, DropHandle(h) \/ HandlerEnds(h) \/ ArbiterEnds(h)
        PROVE  [Next]_vars
    BY <1>5 DEF DropHandle, HandlerEnds, ArbiterEnds
  <1>6. ASSUME UNCHANGED allVars PROVE [Next]_vars
    BY <1>6 DEF allVars
  <1>7. ASSUME NEW t \in SignalType, Raise(t) PROVE [Next]_vars
    BY <1>7 DEF Raise
  <1> QED
    BY <1>1, <1>2, <1>3, <1>4, <1>5, <1>6, <1>7 DEF SigNext

\* The composition implements the registry, so what holds of the registry holds
\* when its service is ProcessSignals and its threads are signal handlers.
THEOREM SignalsUseRegistry == SigSpec => Spec /\ []AddressesLive
  <1>1. SigInit => Init
    BY DEF SigInit
  <1>2. SigSpec => Spec
    BY <1>1, RegistryOfSignals, PTL DEF SigSpec, Spec
  <1> QED
    BY <1>2, AddressesAreLive, PTL

-----------------------------------------------------------------------------
(* The inductive invariant of the composition *)

\* Types of the variables the subscriptions depend on.
SigTypeOK ==
    /\ hst \in [Handler -> {"new", "waiting", "running", "ended"}]
    /\ req \in [Handler -> {"none", "wait", "sent", "lost"}]
    /\ gone \subseteq Handler
    /\ pbox \in [Inst -> Seq(Handler)] /\ subs \in [Inst -> Seq(Handler)]
    /\ hbox \in [Handler -> Seq(SignalType)] /\ owed \in [Handler -> Seq(SignalType)]
    /\ home \in [Handler -> 0..MaxInst]

\* An instance is started once: it is queued until then, and queued once.
StartOnce ==
    /\ \A k \in DOMAIN sysbox : inst[sysbox[k]] = "queued"
    /\ \A k, l \in DOMAIN sysbox : sysbox[k] = sysbox[l] => k = l
    /\ \A h \in Handler : cpc[h] \in {"insert", "done"} => got[h] # 0

\* A handler has one Subscribe, which is in one mailbox or on one list.
PlaceOnce ==
    /\ \A i1, i2 \in Inst : \A j1 \in DOMAIN pbox[i1], j2 \in DOMAIN pbox[i2] :
          pbox[i1][j1] = pbox[i2][j2] => i1 = i2 /\ j1 = j2
    /\ \A i1, i2 \in Inst : \A j1 \in DOMAIN subs[i1], j2 \in DOMAIN subs[i2] :
          subs[i1][j1] = subs[i2][j2] => i1 = i2 /\ j1 = j2
    /\ \A i1, i2 \in Inst : \A j1 \in DOMAIN pbox[i1], j2 \in DOMAIN subs[i2] :
          pbox[i1][j1] # subs[i2][j2]

InPbox(h) == \E i \in Inst : In(h, pbox[i])
InSubs(h) == \E i \in Inst : In(h, subs[i])

\* What the state of a handler and of its request say about each other.
HandlerOK(h) ==
    /\ h \in gone => hst[h] = "ended" /\ req[h] = "none"
    /\ req[h] = "none" => hst[h] = "new" \/ h \in gone
    /\ hst[h] = "new" => req[h] = "none" /\ ~InPbox(h) /\ ~InSubs(h)
    /\ req[h] = "wait" => hst[h] = "waiting" /\ InPbox(h)
    /\ req[h] = "lost" => ~InPbox(h) /\ ~InSubs(h)
    /\ req[h] # "sent" => home[h] = 0 /\ hbox[h] = <<>> /\ owed[h] = <<>>

\* A handler whose Subscribe was answered.
Subscribed(h) ==
    req[h] = "sent" =>
        /\ ~InPbox(h) /\ hbox[h] = owed[h]
        /\ home[h] # 0 /\ inst[home[h]] \in {"running", "ended"}
        /\ \A i \in Inst : In(h, subs[i]) => i = home[h]
        /\ inst[home[h]] = "running" => hst[h] # "ended" /\ In(h, subs[home[h]])

SignalsInv ==
    /\ SigTypeOK /\ StartOnce /\ PlaceOnce
    /\ \A h \in Handler : HandlerOK(h) /\ Subscribed(h)

-----------------------------------------------------------------------------
(* Facts used by several actions *)

\* 0 stands for no instance.
LEMMA InstFacts == 0 \notin Inst /\ Inst \subseteq 0..MaxInst /\ 0..MaxInst = Inst \union {0}
  BY BoundAssumption DEF Inst

\* What a pop does to a queue.
LEMMA TailFacts ==
    ASSUME NEW S, NEW q \in Seq(S), q # <<>>
    PROVE  /\ Tail(q) \in Seq(S) /\ Head(q) \in S /\ Head(q) = q[1] /\ 1 \in DOMAIN q
           /\ \A i \in DOMAIN Tail(q) : i + 1 \in DOMAIN q /\ Tail(q)[i] = q[i + 1] /\ i + 1 # 1
           /\ \A i \in DOMAIN q : i # 1 => i - 1 \in DOMAIN Tail(q) /\ Tail(q)[i - 1] = q[i]
  <1>1. Len(q) \in Nat /\ Len(q) # 0 /\ DOMAIN q = 1..Len(q)
    OBVIOUS
  <1>2. Len(q) > 0
    BY <1>1
  <1> QED
    BY <1>1, <1>2

\* What a push does to a queue.
LEMMA AppendFacts ==
    ASSUME NEW S, NEW q \in Seq(S), NEW x \in S
    PROVE  /\ Append(q, x) \in Seq(S)
           /\ DOMAIN Append(q, x) = DOMAIN q \union {Len(q) + 1} /\ Len(q) + 1 \notin DOMAIN q
           /\ \A i \in DOMAIN q : Append(q, x)[i] = q[i]
           /\ Append(q, x)[Len(q) + 1] = x
  OBVIOUS

\* Membership after a push and after a pop.
LEMMA InAppend ==
    ASSUME NEW S, NEW q \in Seq(S), NEW x \in S, NEW y
    PROVE  In(y, Append(q, x)) <=> In(y, q) \/ y = x
  BY AppendFacts DEF In

LEMMA InTail ==
    ASSUME NEW S, NEW q \in Seq(S), q # <<>>, NEW y
    PROVE  In(y, q) <=> y = Head(q) \/ In(y, Tail(q))
  <1>1. ASSUME In(y, q) PROVE y = Head(q) \/ In(y, Tail(q))
    <2>1. PICK j \in DOMAIN q : q[j] = y
      BY <1>1 DEF In
    <2> QED
      BY <2>1, TailFacts DEF In
  <1>2. ASSUME y = Head(q) \/ In(y, Tail(q)) PROVE In(y, q)
    BY <1>2, TailFacts DEF In
  <1> QED
    BY <1>1, <1>2

LEMMA InEmpty == \A y : ~In(y, <<>>)
  BY DEF In

\* A step that leaves mailboxes, lists and handlers alone.
LEMMA SamePlaces ==
    ASSUME SignalsInv, UNCHANGED <<pbox, subs, hst, req, gone, hbox, owed, home>>
    PROVE  /\ SigTypeOK' /\ PlaceOnce' /\ \A h \in Handler : HandlerOK(h)'
           /\ (\A h \in Handler : req[h] = "sent" => inst'[home[h]] = inst[home[h]])
                  => \A h \in Handler : Subscribed(h)'
  <1>1. SigTypeOK'
    BY DEF SignalsInv, SigTypeOK
  <1>2. PlaceOnce'
    BY DEF SignalsInv, PlaceOnce
  <1>3. ASSUME NEW h \in Handler PROVE HandlerOK(h)'
    BY DEF SignalsInv, HandlerOK, InPbox, InSubs
  <1>4. ASSUME NEW h \in Handler, req[h] = "sent" => inst'[home[h]] = inst[home[h]]
        PROVE  Subscribed(h)'
    BY <1>4 DEF SignalsInv, Subscribed, InPbox
  <1> QED
    BY <1>1, <1>2, <1>3, <1>4

LEMMA SameStarts ==
    ASSUME SignalsInv, UNCHANGED vars
    PROVE  StartOnce'
  BY DEF SignalsInv, StartOnce, vars

-----------------------------------------------------------------------------
(* One lemma per action *)

\* The critical sections of SystemRegistry::get: a new instance is nobody's home.
LEMMA GetInv ==
    ASSUME SignalsInv, RegistryInv, NEW h \in Handler, Get(h)
    PROVE  SignalsInv'
  <1> USE InstFacts DEF RegistryInv, RegistryTypeOK
  <1>1. UNCHANGED <<pbox, subs, hst, req, gone, hbox, owed, home>>
    BY DEF Get, signalVars, handlerVars, serviceVars, historyVars
  <1>2. StartOnce' /\ \A g \in Handler : req[g] = "sent" => inst'[home[g]] = inst[home[g]]
    <2>1. CASE Lookup(h)
      BY <2>1 DEF Lookup, SignalsInv, StartOnce, Handler
    <2>2. CASE Insert(h)
      BY <2>2 DEF Insert, SignalsInv, StartOnce, Handler
    <2>3. CASE StartIn(h)
      <3>1. PICK i \in Inst : /\ inst[i] = "none"
                              /\ inst' = [inst EXCEPT ![i] = IF sysUp THEN "queued" ELSE "ended"]
                              /\ sysbox' = IF sysUp THEN Append(sysbox, i) ELSE sysbox
                              /\ got' = [got EXCEPT ![h] = i]
        BY <2>3 DEF StartIn
      <3>2. \A k \in DOMAIN sysbox : sysbox[k] \in Inst /\ sysbox[k] # i
        BY <3>1 DEF SignalsInv, StartOnce
      <3>3. /\ \A k \in DOMAIN sysbox' : inst'[sysbox'[k]] = "queued"
            /\ \A k, l \in DOMAIN sysbox' : sysbox'[k] = sysbox'[l] => k = l
        <4>1. CASE sysUp
          <5>1. /\ DOMAIN sysbox' = DOMAIN sysbox \union {Len(sysbox) + 1}
                /\ \A k \in DOMAIN sysbox : sysbox'[k] = sysbox[k]
                /\ sysbox'[Len(sysbox) + 1] = i /\ Len(sysbox) + 1 \notin DOMAIN sysbox
            BY <3>1, <4>1, AppendFacts
          <5> QED
            BY <3>1, <3>2, <4>1, <5>1 DEF SignalsInv, StartOnce
        <4>2. CASE ~sysUp
          BY <3>1, <3>2, <4>2 DEF SignalsInv, StartOnce
        <4> QED
          BY <4>1, <4>2
      <3>4. \A g \in Handler : cpc'[g] \in {"insert", "done"} => got'[g] # 0
        BY <2>3, <3>1 DEF StartIn, SignalsInv, StartOnce, Handler
      <3>5. \A g \in Handler : req[g] = "sent" => inst'[home[g]] = inst[home[g]]
        <4>1. \A g \in Handler : req[g] = "sent" => inst[home[g]] # "none"
          BY DEF SignalsInv, Subscribed
        <4> QED
          BY <3>1, <4>1
      <3> QED
        BY <3>3, <3>4, <3>5 DEF StartOnce
    <2> QED
      BY <2>1, <2>2, <2>3 DEF Get
  <1> QED
    BY <1>1, <1>2, SamePlaces DEF SignalsInv

\* The instance the system arbiter starts was queued, so it is nobody's home.
LEMMA StartServiceInv ==
    ASSUME SignalsInv, RegistryInv, StartService
    PROVE  SignalsInv'
  <1> USE InstFacts DEF RegistryInv, RegistryTypeOK
  <1>1. UNCHANGED <<pbox, subs, hst, req, gone, hbox, owed, home>>
    BY DEF StartService, handlerVars, historyVars
  <1>2. /\ sysbox # <<>> /\ inst' = [inst EXCEPT ![Head(sysbox)] = "running"]
        /\ sysbox' = Tail(sysbox) /\ UNCHANGED <<cpc, got>>
    BY DEF StartService, Execute
  <1>3. /\ Head(sysbox) = sysbox[1] /\ 1 \in DOMAIN sysbox /\ Head(sysbox) \in Inst
        /\ \A k \in DOMAIN Tail(sysbox) :
              k + 1 \in DOMAIN sysbox /\ Tail(sysbox)[k] = sysbox[k + 1] /\ k + 1 # 1
    BY <1>2, TailFacts
  <1>4. \A k \in DOMAIN sysbox' : sysbox'[k] # Head(sysbox) /\ sysbox'[k] \in Inst
    BY <1>2, <1>3 DEF SignalsInv, StartOnce
  <1>5. StartOnce'
    <2>1. \A k \in DOMAIN sysbox' : inst'[sysbox'[k]] = "queued"
      BY <1>2, <1>3, <1>4 DEF SignalsInv, StartOnce
    <2>2. \A k, l \in DOMAIN sysbox' : sysbox'[k] = sysbox'[l] => k = l
      <3> SUFFICES ASSUME NEW k \in DOMAIN sysbox', NEW l \in DOMAIN sysbox', sysbox'[k] = sysbox'[l]
                   PROVE  k = l
        OBVIOUS
      <3>1. k + 1 = l + 1
        BY <1>2, <1>3 DEF SignalsInv, StartOnce
      <3>2. k \in Int /\ l \in Int
        BY <1>2, <1>3, TailFacts
      <3> QED
        BY <3>1, <3>2
    <2> QED
      BY <1>2, <2>1, <2>2 DEF SignalsInv, StartOnce
  <1>6. \A g \in Handler : req[g] = "sent" => inst'[home[g]] = inst[home[g]]
    BY <1>2, <1>3 DEF SignalsInv, StartOnce, Subscribed, SigTypeOK
  <1> QED
    BY <1>1, <1>5, <1>6, SamePlaces DEF SignalsInv

\* Steps that touch neither requests nor mailboxes nor lists.
LEMMA OtherInv ==
    ASSUME SignalsInv,
           \/ \E i \in Inst, s \in SignalType : OpenStream(i, s)
           \/ \E s \in SignalType : Raise(s)
           \/ \E h \in Handler : DropHandle(h)
           \/ UNCHANGED allVars
    PROVE  SignalsInv'
  <1>1. UNCHANGED <<pbox, subs, hst, req, gone, hbox, owed, home>> /\ UNCHANGED vars
    BY DEF OpenStream, Raise, DropHandle, allVars, signalVars, handlerVars, serviceVars, historyVars
  <1>2. inst' = inst
    BY <1>1 DEF vars
  <1> QED
    BY <1>1, <1>2, SamePlaces, SameStarts DEF SignalsInv

\* Instances end: what their mailboxes held is lost, and was held once.
LEMMA EndedInv ==
    ASSUME SignalsInv, NEW ended \in SUBSET Inst,
           req' = Lost(ended), pbox' = Cleared(pbox, ended), subs' = Cleared(subs, ended),
           \A i \in Inst : inst'[i] = inst[i] \/ inst'[i] = "ended",
           \A i \in ended : inst'[i] # "running",
           UNCHANGED <<hst, gone, hbox, owed, home>>
    PROVE  /\ SigTypeOK' /\ PlaceOnce'
           /\ \A h \in Handler : HandlerOK(h)' /\ Subscribed(h)'
  <1>1. /\ \A i \in Inst : i \in ended => pbox'[i] = <<>> /\ subs'[i] = <<>>
        /\ \A i \in Inst : i \notin ended => pbox'[i] = pbox[i] /\ subs'[i] = subs[i]
        /\ \A h \in Handler : req'[h] = IF req[h] = "wait" /\ \E i \in ended : In(h, pbox[i])
                                         THEN "lost" ELSE req[h]
    BY DEF Cleared, Lost
  <1>0. DOMAIN <<>> = {}
    OBVIOUS
  <1>a. /\ \A i \in Inst : \A j \in DOMAIN pbox'[i] : j \in DOMAIN pbox[i] /\ pbox'[i][j] = pbox[i][j]
        /\ \A i \in Inst : \A j \in DOMAIN subs'[i] : j \in DOMAIN subs[i] /\ subs'[i][j] = subs[i][j]
    BY <1>1, <1>0
  <1>2. SigTypeOK'
    <2>1. pbox' \in [Inst -> Seq(Handler)]
      BY DEF Cleared, SignalsInv, SigTypeOK
    <2>2. subs' \in [Inst -> Seq(Handler)]
      BY DEF Cleared, SignalsInv, SigTypeOK
    <2>3. req' \in [Handler -> {"none", "wait", "sent", "lost"}]
      BY DEF Lost, SignalsInv, SigTypeOK
    <2> QED
      BY <2>1, <2>2, <2>3 DEF SignalsInv, SigTypeOK
  <1>3. PlaceOnce'
    BY <1>a DEF SignalsInv, PlaceOnce
  <1>4. ASSUME NEW h \in Handler PROVE HandlerOK(h)' /\ Subscribed(h)'
    <2>1. HandlerOK(h) /\ Subscribed(h)
      BY DEF SignalsInv
    <2>2. InPbox(h)' => InPbox(h)
      BY <1>a DEF InPbox, In
    <2>3. InSubs(h)' => InSubs(h)
      BY <1>a DEF InSubs, In
    <2>4. req'[h] = "wait" => InPbox(h)'
      <3> SUFFICES ASSUME req'[h] = "wait" PROVE InPbox(h)'
        OBVIOUS
      <3>1. req[h] = "wait" /\ \A i \in ended : ~In(h, pbox[i])
        BY <1>1
      <3>2. PICK i \in Inst : In(h, pbox[i])
        BY <2>1, <3>1 DEF HandlerOK, InPbox
      <3> QED
        BY <1>1, <3>1, <3>2 DEF InPbox
    <2>5. req[h] = "wait" /\ req'[h] = "lost" => ~InPbox(h)' /\ ~InSubs(h)'
      <3> SUFFICES ASSUME req[h] = "wait", req'[h] = "lost" PROVE ~InPbox(h)' /\ ~InSubs(h)'
        OBVIOUS
      <3>1. PICK i \in ended : In(h, pbox[i])
        BY <1>1
      <3>2. PICK j \in DOMAIN pbox[i] : pbox[i][j] = h
        BY <3>1 DEF In
      <3>3. \A k \in Inst : k # i => ~In(h, pbox[k])
        BY <3>2 DEF SignalsInv, PlaceOnce, In
      <3>4. \A k \in Inst : ~In(h, subs[k])
        BY <3>2 DEF SignalsInv, PlaceOnce, In
      <3> QED
        BY <1>1, <1>a, <3>3, <3>4, InEmpty DEF InPbox, InSubs, In
    <2>6. HandlerOK(h)'
      <3>1. req'[h] = req[h] \/ (req[h] = "wait" /\ req'[h] = "lost")
        BY <1>1
      <3> QED
        BY <2>1, <2>2, <2>3, <2>4, <2>5, <3>1 DEF HandlerOK
    <2>7. Subscribed(h)'
      <3> SUFFICES ASSUME req'[h] = "sent" PROVE Subscribed(h)'
        BY DEF Subscribed
      <3>1. req[h] = "sent"
        BY <1>1
      <3>2. home[h] \in Inst
        BY <2>1, <3>1, InstFacts DEF Subscribed, SignalsInv, SigTypeOK
      <3>3. inst'[home[h]] = "running" => inst[home[h]] = "running" /\ home[h] \notin ended
        BY <3>2
      <3>4. \A i \in Inst : In(h, subs'[i]) => In(h, subs[i])
        BY <1>a DEF In
      <3> QED
        BY <1>1, <2>1, <2>2, <3>1, <3>2, <3>3, <3>4 DEF Subscribed
    <2> QED
      BY <2>6, <2>7
  <1> QED
    BY <1>2, <1>3, <1>4

LEMMA EndServiceInv ==
    ASSUME SignalsInv, RegistryInv, NEW i \in Inst, EndService(i)
    PROVE  SignalsInv'
  <1>1. /\ inst[i] = "running" /\ inst' = [inst EXCEPT ![i] = "ended"]
        /\ UNCHANGED <<cpc, got, sysbox>>
    BY DEF EndService, End
  <1>0. /\ inst \in [Inst -> {"none", "queued", "running", "ended"}]
        /\ \A k \in DOMAIN sysbox : sysbox[k] \in Inst
    BY DEF RegistryInv, RegistryTypeOK
  <1>2. StartOnce'
    BY <1>0, <1>1 DEF SignalsInv, StartOnce
  <1>3. /\ req' = Lost({i}) /\ pbox' = Cleared(pbox, {i}) /\ subs' = Cleared(subs, {i})
        /\ UNCHANGED <<hst, gone, hbox, owed, home>>
    BY DEF EndService, historyVars
  <1>4. \A k \in Inst : inst'[k] = inst[k] \/ inst'[k] = "ended"
    BY <1>0, <1>1
  <1>5. {i} \in SUBSET Inst /\ \A k \in {i} : inst'[k] # "running"
    BY <1>0, <1>1
  <1> QED
    BY <1>2, <1>3, <1>4, <1>5, EndedInv DEF SignalsInv

\* run() returns: an instance that had not been started is nobody's home.
LEMMA ExitInv ==
    ASSUME SignalsInv, RegistryInv, Exit
    PROVE  SignalsInv'
  <1>1. /\ inst' = [i \in Inst |-> IF inst[i] = "none" THEN "none" ELSE "ended"]
        /\ sysbox' = <<>> /\ UNCHANGED <<cpc, got>>
    BY DEF Exit, SystemDown
  <1>0. DOMAIN <<>> = {}
    OBVIOUS
  <1>2. StartOnce'
    BY <1>0, <1>1 DEF SignalsInv, StartOnce
  <1>3. /\ req' = Lost(Inst) /\ pbox' = Cleared(pbox, Inst) /\ subs' = Cleared(subs, Inst)
        /\ UNCHANGED <<hst, gone, hbox, owed, home>>
    BY DEF Exit, historyVars
  <1>4. \A k \in Inst : inst'[k] = inst[k] \/ inst'[k] = "ended"
    BY <1>1
  <1>5. \A k \in Inst : inst'[k] # "running"
    BY <1>1
  <1>6. SigTypeOK' /\ PlaceOnce' /\ \A h \in Handler : HandlerOK(h)' /\ Subscribed(h)'
    BY <1>3, <1>4, <1>5, EndedInv
  <1> QED
    BY <1>2, <1>6 DEF SignalsInv

\* Handler<Subscribe>: the entry of the mailbox becomes one of the list.
LEMMA HandleSubscribeInv ==
    ASSUME SignalsInv, NEW i \in Inst, HandleSubscribe(i)
    PROVE  SignalsInv'
  <1>1. /\ inst[i] = "running" /\ pbox[i] # <<>> /\ pbox' = [pbox EXCEPT ![i] = Tail(@)]
        /\ UNCHANGED <<hst, gone, hbox, owed>> /\ UNCHANGED vars
    BY DEF HandleSubscribe
  <1>a. pbox \in [Inst -> Seq(Handler)] /\ pbox[i] \in Seq(Handler)
    BY DEF SignalsInv, SigTypeOK
  <1>b. PICK h \in Handler : h = Head(pbox[i])
    BY <1>1, <1>a, TailFacts
  <1>2. pbox'[i] = Tail(pbox[i]) /\ pbox' \in [Inst -> Seq(Handler)]
    BY <1>1, <1>a, TailFacts
  <1>f. h = pbox[i][1] /\ 1 \in DOMAIN pbox[i] /\ \A k \in Inst : k # i => pbox'[k] = pbox[k]
    BY <1>1, <1>a, <1>b, TailFacts
  <1>3. \A j \in DOMAIN pbox'[i] : j + 1 \in DOMAIN pbox[i] /\ pbox'[i][j] = pbox[i][j + 1] /\ j + 1 # 1
    BY <1>1, <1>2, <1>a, TailFacts
  <1>c. \A j \in DOMAIN pbox'[i] : j \in Nat
    BY <1>2
  <1>d. \A g : In(g, pbox[i]) <=> g = h \/ In(g, pbox'[i])
    BY <1>1, <1>2, <1>a, <1>b, InTail
  <1>4. /\ \A k \in Inst : ~In(h, pbox'[k])
        /\ \A k \in Inst : ~In(h, subs[k])
    <2>1. \A j \in DOMAIN pbox[i] : pbox[i][j] = h => j = 1
      BY <1>f DEF SignalsInv, PlaceOnce
    <2>2. \A k \in Inst : k # i => \A j \in DOMAIN pbox[k] : pbox[k][j] # h
      BY <1>f DEF SignalsInv, PlaceOnce
    <2>3. \A k \in Inst : \A j \in DOMAIN subs[k] : subs[k][j] # h
      BY <1>f DEF SignalsInv, PlaceOnce
    <2> QED
      BY <1>f, <1>3, <2>1, <2>2, <2>3 DEF In
  <1>5. InPbox(h) /\ \A g \in Handler : InPbox(g)' <=> InPbox(g) /\ g # h
    BY <1>f, <1>d, <1>4 DEF InPbox
  <1>6. StartOnce'
    BY <1>1, SameStarts
  <1>7. /\ \A i1, i2 \in Inst : \A j1 \in DOMAIN pbox'[i1], j2 \in DOMAIN pbox'[i2] :
              pbox'[i1][j1] = pbox'[i2][j2] => i1 = i2 /\ j1 = j2
        /\ \A i1, i2 \in Inst : \A j1 \in DOMAIN pbox'[i1], j2 \in DOMAIN subs[i2] :
              pbox'[i1][j1] # subs[i2][j2]
    <2>1. ASSUME NEW i1 \in Inst, NEW i2 \in Inst, NEW j1 \in DOMAIN pbox'[i1], NEW j2 \in DOMAIN pbox'[i2],
                 pbox'[i1][j1] = pbox'[i2][j2]
          PROVE  i1 = i2 /\ j1 = j2
      <3>1. CASE i1 = i /\ i2 = i
        <4>1. j1 + 1 = j2 + 1
          BY <2>1, <3>1, <1>3 DEF SignalsInv, PlaceOnce
        <4> QED
          BY <4>1, <3>1, <1>c
      <3>2. CASE ~(i1 = i /\ i2 = i)
        BY <2>1, <3>2, <1>f, <1>3 DEF SignalsInv, PlaceOnce
      <3> QED
        BY <3>1, <3>2
    <2>2. ASSUME NEW i1 \in Inst, NEW i2 \in Inst, NEW j1 \in DOMAIN pbox'[i1], NEW j2 \in DOMAIN subs[i2]
          PROVE  pbox'[i1][j1] # subs[i2][j2]
      BY <1>f, <1>3 DEF SignalsInv, PlaceOnce
    <2> QED
      BY <2>1, <2>2
  <1>e. inst' = inst
    BY <1>1 DEF vars
  <1>8. CASE Canceled(h)
    <2>1. UNCHANGED <<subs, req, home>> /\ hst[h] = "ended"
      BY <1>8, <1>b DEF HandleSubscribe, Canceled
    <2>2. req[h] # "wait"
      BY <2>1 DEF SignalsInv, HandlerOK
    <2>3. SigTypeOK' /\ PlaceOnce'
      <3>1. SigTypeOK'
        BY <1>1, <1>2, <2>1 DEF SignalsInv, SigTypeOK
      <3>2. PlaceOnce'
        BY <1>7, <2>1 DEF SignalsInv, PlaceOnce
      <3> QED
        BY <3>1, <3>2
    <2>4. ASSUME NEW g \in Handler PROVE HandlerOK(g)' /\ Subscribed(g)'
      <3>1. InSubs(g)' <=> InSubs(g)
        BY <2>1 DEF InSubs
      <3>2. HandlerOK(g) /\ Subscribed(g)
        BY DEF SignalsInv
      <3>3. HandlerOK(g)'
        BY <1>1, <1>5, <2>1, <2>2, <3>1, <3>2 DEF HandlerOK
      <3>4. Subscribed(g)'
        BY <1>1, <1>5, <1>e, <2>1, <3>2 DEF Subscribed
      <3> QED
        BY <3>3, <3>4
    <2> QED
      BY <1>6, <2>3, <2>4 DEF SignalsInv
  <1>9. CASE ~Canceled(h)
    <2>1. /\ subs' = [subs EXCEPT ![i] = Append(@, h)]
          /\ req' = [req EXCEPT ![h] = "sent"] /\ home' = [home EXCEPT ![h] = i]
      BY <1>9, <1>b DEF HandleSubscribe
    <2>2. req[h] = "wait" /\ hst[h] = "waiting" /\ hbox[h] = <<>> /\ owed[h] = <<>>
      <3>1. HandlerOK(h) /\ Subscribed(h) /\ hst[h] # "ended"
        BY <1>9 DEF SignalsInv, Canceled
      <3>2. req[h] \in {"none", "wait", "sent", "lost"}
        BY DEF SignalsInv, SigTypeOK
      <3> QED
        BY <1>5, <3>1, <3>2 DEF HandlerOK, Subscribed
    <2>a. subs \in [Inst -> Seq(Handler)] /\ subs[i] \in Seq(Handler)
      BY DEF SignalsInv, SigTypeOK
    <2>3. /\ subs'[i] = Append(subs[i], h) /\ subs' \in [Inst -> Seq(Handler)]
          /\ \A k \in Inst : k # i => subs'[k] = subs[k]
      BY <2>1, <2>a, AppendFacts
    <2>b. /\ DOMAIN subs'[i] = DOMAIN subs[i] \union {Len(subs[i]) + 1}
          /\ \A j \in DOMAIN subs[i] : subs'[i][j] = subs[i][j]
          /\ subs'[i][Len(subs[i]) + 1] = h
      BY <2>3, <2>a, AppendFacts
    <2>c. \A g : In(g, subs'[i]) <=> In(g, subs[i]) \/ g = h
      BY <2>3, <2>a, InAppend
    <2>4. \A g \in Handler : InSubs(g)' <=> InSubs(g) \/ g = h
      BY <2>3, <2>c DEF InSubs
    <2>5. SigTypeOK'
      <3>1. home' \in [Handler -> 0..MaxInst] /\ req' \in [Handler -> {"none", "wait", "sent", "lost"}]
        BY <2>1, InstFacts DEF SignalsInv, SigTypeOK
      <3> QED
        BY <1>1, <1>2, <2>3, <3>1 DEF SignalsInv, SigTypeOK
    <2>6. \A k \in Inst : \A j \in DOMAIN subs'[k] :
              \/ j \in DOMAIN subs[k] /\ subs'[k][j] = subs[k][j] /\ subs[k][j] # h
              \/ k = i /\ j = Len(subs[i]) + 1 /\ subs'[k][j] = h
      BY <1>4, <2>3, <2>b DEF In
    <2>7. PlaceOnce'
      <3>1. ASSUME NEW i1 \in Inst, NEW i2 \in Inst, NEW j1 \in DOMAIN subs'[i1], NEW j2 \in DOMAIN subs'[i2],
                   subs'[i1][j1] = subs'[i2][j2]
            PROVE  i1 = i2 /\ j1 = j2
        BY <2>6, <3>1 DEF SignalsInv, PlaceOnce
      <3>2. ASSUME NEW i1 \in Inst, NEW i2 \in Inst, NEW j1 \in DOMAIN pbox'[i1], NEW j2 \in DOMAIN subs'[i2]
            PROVE  pbox'[i1][j1] # subs'[i2][j2]
        BY <1>4, <1>7, <2>6 DEF In
      <3> QED
        BY <1>7, <3>1, <3>2 DEF PlaceOnce
    <2>8. ASSUME NEW g \in Handler, g # h PROVE HandlerOK(g)' /\ Subscribed(g)'
      <3>1. HandlerOK(g) /\ Subscribed(g)
        BY DEF SignalsInv
      <3>2. req'[g] = req[g] /\ home'[g] = home[g]
        BY <2>1, <2>8 DEF SignalsInv, SigTypeOK
      <3>3. \A k \in Inst : In(g, subs[k]) <=> In(g, subs'[k])
        BY <2>3, <2>8, <2>c
      <3>4. req[g] = "sent" => home[g] \in Inst
        BY <3>1, InstFacts DEF Subscribed, SignalsInv, SigTypeOK
      <3>5. HandlerOK(g)'
        BY <1>1, <1>5, <2>4, <2>8, <3>1, <3>2 DEF HandlerOK
      <3>6. Subscribed(g)'
        BY <1>1, <1>5, <1>e, <2>8, <3>1, <3>2, <3>3, <3>4 DEF Subscribed
      <3> QED
        BY <3>5, <3>6
    <2>9. HandlerOK(h)' /\ Subscribed(h)'
      <3>1. req'[h] = "sent" /\ home'[h] = i
        BY <2>1 DEF SignalsInv, SigTypeOK
      <3>2. HandlerOK(h) /\ In(h, subs'[i]) /\ i # 0
        BY <2>c, InstFacts DEF SignalsInv
      <3>3. \A k \in Inst : In(h, subs'[k]) => k = i
        BY <1>4, <2>3
      <3> QED
        BY <1>1, <1>5, <1>e, <2>2, <3>1, <3>2, <3>3 DEF HandlerOK, Subscribed
    <2> QED
      BY <1>6, <2>5, <2>7, <2>8, <2>9 DEF SignalsInv
  <1> QED
    BY <1>8, <1>9


\* Handler<SignalType>: the list keeps those it could send to, and exactly those
\* whose Subscribe this instance answered get the signal.
LEMMA HandleSignalInv ==
    ASSUME SignalsInv, NEW i \in Inst, NEW s \in SignalType, HandleSignal(i, s)
    PROVE  SignalsInv'
  <1>1. /\ inst[i] = "running" /\ UNCHANGED <<hst, req, gone, pbox, home>> /\ UNCHANGED vars
        /\ hbox' = [h \in Handler |-> IF In(h, subs[i]) /\ DoSend(h) THEN Append(hbox[h], s) ELSE hbox[h]]
        /\ owed' = [h \in Handler |-> IF home[h] = i /\ hst[h] # "ended" THEN Append(owed[h], s) ELSE owed[h]]
    BY DEF HandleSignal, Owe
  <1>2. PICK at \in [1..Cardinality(Sent(i)) -> Sent(i)] :
          /\ \A m, n \in DOMAIN at : m < n => at[m] < at[n]
          /\ Sent(i) = {at[n] : n \in DOMAIN at}
          /\ subs' = [subs EXCEPT ![i] = [n \in DOMAIN at |-> subs[i][at[n]]]]
    BY DEF HandleSignal
  <1>3. subs \in [Inst -> Seq(Handler)] /\ subs[i] \in Seq(Handler) /\ Sent(i) \subseteq DOMAIN subs[i]
    BY DEF SignalsInv, SigTypeOK, Sent
  <1>4. Cardinality(Sent(i)) \in Nat
    <2>1. IsFiniteSet(1..Len(subs[i])) /\ DOMAIN subs[i] = 1..Len(subs[i])
      BY <1>3, FS_Interval
    <2> QED
      BY <1>3, <2>1, FS_Subset, FS_CardinalityType
  <1>5. /\ DOMAIN subs'[i] = DOMAIN at /\ DOMAIN at = 1..Cardinality(Sent(i))
        /\ \A n \in DOMAIN at : subs'[i][n] = subs[i][at[n]] /\ at[n] \in DOMAIN subs[i] /\ DoSend(subs[i][at[n]])
        /\ \A k \in Inst : k # i => subs'[k] = subs[k]
    BY <1>2, <1>3 DEF Sent
  <1>6. subs' \in [Inst -> Seq(Handler)]
    <2>1. \A n \in DOMAIN at : subs[i][at[n]] \in Handler
      BY <1>3, <1>5
    <2>2. [n \in DOMAIN at |-> subs[i][at[n]]] \in Seq(Handler)
      BY <1>4, <1>5, <2>1
    <2> QED
      BY <1>2, <1>3, <2>2
  <1>7. \A m, n \in DOMAIN at : at[m] = at[n] => m = n
    <2> SUFFICES ASSUME NEW m \in DOMAIN at, NEW n \in DOMAIN at, at[m] = at[n] PROVE m = n
      OBVIOUS
    <2>1. m \in Int /\ n \in Int
      BY <1>4, <1>5
    <2>2. at[m] \in Int /\ at[n] \in Int
      BY <1>3, <1>5
    <2>3. ~(m < n) /\ ~(n < m)
      BY <1>2, <2>2
    <2> QED
      BY <2>1, <2>3
  <1>8. \A g : In(g, subs'[i]) <=> In(g, subs[i]) /\ DoSend(g)
    <2>1. ASSUME NEW g, In(g, subs'[i]) PROVE In(g, subs[i]) /\ DoSend(g)
      BY <2>1, <1>5 DEF In
    <2>2. ASSUME NEW g, In(g, subs[i]), DoSend(g) PROVE In(g, subs'[i])
      <3>1. PICK j \in DOMAIN subs[i] : subs[i][j] = g
        BY <2>2 DEF In
      <3>2. j \in Sent(i)
        BY <2>2, <3>1 DEF Sent
      <3>3. PICK n \in DOMAIN at : at[n] = j
        BY <1>2, <3>2
      <3> QED
        BY <1>5, <3>1, <3>3 DEF In
    <2> QED
      BY <2>1, <2>2
  <1>9. PlaceOnce'
    <2>1. \A k \in Inst : \A n \in DOMAIN subs'[k] : \E j \in DOMAIN subs[k] : subs'[k][n] = subs[k][j]
      BY <1>5
    <2>2. ASSUME NEW i1 \in Inst, NEW i2 \in Inst, NEW j1 \in DOMAIN subs'[i1], NEW j2 \in DOMAIN subs'[i2],
                 subs'[i1][j1] = subs'[i2][j2]
          PROVE  i1 = i2 /\ j1 = j2
      <3>1. i1 = i2
        BY <2>1, <2>2 DEF SignalsInv, PlaceOnce
      <3>2. CASE i1 = i
        <4>1. j1 \in DOMAIN at /\ j2 \in DOMAIN at /\ subs[i][at[j1]] = subs[i][at[j2]]
          BY <1>5, <2>2, <3>1, <3>2
        <4>2. at[j1] = at[j2]
          BY <1>5, <4>1 DEF SignalsInv, PlaceOnce
        <4> QED
          BY <1>7, <3>1, <4>1, <4>2
      <3>3. CASE i1 # i
        BY <1>5, <2>2, <3>1, <3>3 DEF SignalsInv, PlaceOnce
      <3> QED
        BY <3>1, <3>2, <3>3
    <2>3. ASSUME NEW i1 \in Inst, NEW i2 \in Inst, NEW j1 \in DOMAIN pbox[i1], NEW j2 \in DOMAIN subs'[i2]
          PROVE  pbox[i1][j1] # subs'[i2][j2]
      BY <2>1 DEF SignalsInv, PlaceOnce
    <2> QED
      BY <1>1, <2>2, <2>3 DEF SignalsInv, PlaceOnce
  <1>10. SigTypeOK'
    <2>1. hbox' \in [Handler -> Seq(SignalType)]
      BY <1>1, AppendFacts DEF SignalsInv, SigTypeOK
    <2>2. owed' \in [Handler -> Seq(SignalType)]
      BY <1>1, AppendFacts DEF SignalsInv, SigTypeOK
    <2> QED
      BY <1>1, <1>6, <2>1, <2>2 DEF SignalsInv, SigTypeOK
  <1>11. ASSUME NEW g \in Handler PROVE HandlerOK(g)' /\ Subscribed(g)'
    <2>1. HandlerOK(g) /\ Subscribed(g) /\ inst' = inst /\ req[g] \in {"none", "wait", "sent", "lost"}
      BY <1>1 DEF SignalsInv, vars, SigTypeOK
    <2>2. \A k \in Inst : In(g, subs'[k]) => In(g, subs[k])
      BY <1>5, <1>8
    <2>3. (InSubs(g)' => InSubs(g)) /\ (InPbox(g)' <=> InPbox(g))
      BY <1>1, <2>2 DEF InSubs, InPbox
    <2>4. InPbox(g) => ~InSubs(g)
      BY DEF SignalsInv, PlaceOnce, InPbox, InSubs, In
    <2>5. CASE req[g] = "sent"
      <3>1. home[g] = i /\ hst[g] # "ended" <=> In(g, subs[i]) /\ DoSend(g)
        BY <1>1, <2>1, <2>5 DEF Subscribed, DoSend
      <3>2. hbox'[g] = owed'[g]
        BY <1>1, <2>1, <2>5, <3>1 DEF Subscribed
      <3>3. home[g] \in Inst
        BY <2>1, <2>5, InstFacts DEF Subscribed, SignalsInv, SigTypeOK
      <3>4. inst[home[g]] = "running" => In(g, subs'[home[g]])
        BY <1>5, <1>8, <2>1, <2>5, <3>3 DEF Subscribed, DoSend
      <3>5. Subscribed(g)'
        BY <1>1, <2>1, <2>2, <2>3, <2>5, <3>2, <3>4 DEF Subscribed
      <3>6. HandlerOK(g)'
        BY <1>1, <2>1, <2>3, <2>5 DEF HandlerOK
      <3> QED
        BY <3>5, <3>6
    <2>6. CASE req[g] # "sent"
      <3>1. ~(In(g, subs[i]) /\ DoSend(g))
        BY <2>1, <2>4, <2>6 DEF HandlerOK, DoSend, InSubs
      <3>2. hbox'[g] = hbox[g] /\ owed'[g] = owed[g]
        BY <1>1, <2>1, <2>6, <3>1, InstFacts DEF HandlerOK
      <3> QED
        BY <1>1, <2>1, <2>3, <2>6, <3>2 DEF HandlerOK, Subscribed
    <2> QED
      BY <2>5, <2>6
  <1> QED
    BY <1>1, <1>9, <1>10, <1>11, SameStarts DEF SignalsInv

\* The end of started(): a handler sends its only Subscribe.
LEMMA SendSubscribeInv ==
    ASSUME SignalsInv, RegistryInv, NEW h \in Handler, SendSubscribe(h)
    PROVE  SignalsInv'
  <1>1. /\ hst[h] = "new" /\ cpc[h] = "done" /\ hst' = [hst EXCEPT ![h] = "waiting"]
        /\ cpc' = [cpc EXCEPT ![h] = "idle"] /\ got' = [got EXCEPT ![h] = 0]
        /\ UNCHANGED <<inst, sysbox>> /\ UNCHANGED <<gone, hbox, subs, home, owed>>
    BY DEF SendSubscribe, Release, historyVars
  <1>2. /\ cpc \in [Handler -> {"idle", "start", "insert", "done"}]
        /\ got \in [Handler -> 0..MaxInst]
    BY DEF RegistryInv, RegistryTypeOK, Handler
  <1>3. PICK i \in Inst : i = got[h]
    BY <1>1, <1>2, InstFacts DEF SignalsInv, StartOnce
  <1>4. StartOnce'
    BY <1>1, <1>2 DEF SignalsInv, StartOnce
  <1>5. HandlerOK(h) /\ req[h] = "none" /\ ~InPbox(h) /\ ~InSubs(h) /\ h \notin gone
    BY <1>1 DEF SignalsInv, HandlerOK
  <1>6. \A g \in Handler : HandlerOK(g) /\ Subscribed(g)
    BY DEF SignalsInv
  <1>7. hst' \in [Handler -> {"new", "waiting", "running", "ended"}] /\ hst'[h] = "waiting"
        /\ \A g \in Handler : g # h => hst'[g] = hst[g]
    BY <1>1 DEF SignalsInv, SigTypeOK
  <1>8. CASE inst[i] = "ended"
    <2>1. req' = [req EXCEPT ![h] = "lost"] /\ UNCHANGED pbox
      BY <1>3, <1>8 DEF SendSubscribe, Send
    <2>2. /\ req' \in [Handler -> {"none", "wait", "sent", "lost"}] /\ req'[h] = "lost"
          /\ \A g \in Handler : g # h => req'[g] = req[g]
      BY <2>1 DEF SignalsInv, SigTypeOK
    <2>3. SigTypeOK'
      BY <1>1, <1>7, <2>1, <2>2 DEF SignalsInv, SigTypeOK
    <2>4. PlaceOnce'
      BY <1>1, <2>1 DEF SignalsInv, PlaceOnce
    <2>5. \A g \in Handler : (InPbox(g)' <=> InPbox(g)) /\ (InSubs(g)' <=> InSubs(g))
      BY <1>1, <2>1 DEF InPbox, InSubs
    <2>6. ASSUME NEW g \in Handler PROVE HandlerOK(g)' /\ Subscribed(g)'
      <3>1. CASE g = h
        BY <1>1, <1>5, <1>7, <2>2, <2>5, <3>1 DEF HandlerOK, Subscribed
      <3>2. CASE g # h
        <4>1. HandlerOK(g)'
          BY <1>1, <1>6, <1>7, <2>2, <2>5, <3>2 DEF HandlerOK
        <4>2. Subscribed(g)'
          BY <1>1, <1>6, <1>7, <2>2, <2>5, <3>2 DEF Subscribed
        <4> QED
          BY <4>1, <4>2
      <3> QED
        BY <3>1, <3>2
    <2> QED
      BY <1>4, <2>3, <2>4, <2>6 DEF SignalsInv
  <1>9. CASE inst[i] # "ended"
    <2>1. req' = [req EXCEPT ![h] = "wait"] /\ pbox' = [pbox EXCEPT ![i] = Append(@, h)]
      BY <1>3, <1>9 DEF SendSubscribe, Send
    <2>2. /\ req' \in [Handler -> {"none", "wait", "sent", "lost"}] /\ req'[h] = "wait"
          /\ \A g \in Handler : g # h => req'[g] = req[g]
      BY <2>1 DEF SignalsInv, SigTypeOK
    <2>a. pbox \in [Inst -> Seq(Handler)] /\ pbox[i] \in Seq(Handler)
      BY DEF SignalsInv, SigTypeOK
    <2>b. pbox'[i] = Append(pbox[i], h) /\ pbox' \in [Inst -> Seq(Handler)]
      BY <2>1, <2>a, AppendFacts
    <2>c. \A k \in Inst : k # i => pbox'[k] = pbox[k]
      BY <2>1, <2>a
    <2>d. /\ DOMAIN pbox'[i] = DOMAIN pbox[i] \union {Len(pbox[i]) + 1}
          /\ \A j \in DOMAIN pbox[i] : pbox'[i][j] = pbox[i][j]
          /\ pbox'[i][Len(pbox[i]) + 1] = h
      BY <2>a, <2>b, AppendFacts
    <2>e. \A g : In(g, pbox'[i]) <=> In(g, pbox[i]) \/ g = h
      BY <2>a, <2>b, InAppend
    <2>3. SigTypeOK'
      BY <1>1, <1>7, <2>b, <2>2 DEF SignalsInv, SigTypeOK
    <2>4. PlaceOnce'
      <3>1. \A k \in Inst : \A j \in DOMAIN pbox'[k] :
              \/ j \in DOMAIN pbox[k] /\ pbox'[k][j] = pbox[k][j] /\ pbox[k][j] # h
              \/ k = i /\ j = Len(pbox[i]) + 1 /\ pbox'[k][j] = h
        BY <1>5, <2>c, <2>d DEF InPbox, In
      <3>2. ASSUME NEW i1 \in Inst, NEW i2 \in Inst, NEW j1 \in DOMAIN pbox'[i1], NEW j2 \in DOMAIN pbox'[i2],
                   pbox'[i1][j1] = pbox'[i2][j2]
            PROVE  i1 = i2 /\ j1 = j2
        BY <3>1, <3>2 DEF SignalsInv, PlaceOnce
      <3>3. ASSUME NEW i1 \in Inst, NEW i2 \in Inst, NEW j1 \in DOMAIN pbox'[i1], NEW j2 \in DOMAIN subs[i2]
            PROVE  pbox'[i1][j1] # subs[i2][j2]
        BY <1>5, <3>1 DEF SignalsInv, PlaceOnce, InSubs, In
      <3> QED
        BY <1>1, <3>2, <3>3 DEF SignalsInv, PlaceOnce
    <2>5. \A g \in Handler : (InPbox(g)' <=> InPbox(g) \/ g = h) /\ (InSubs(g)' <=> InSubs(g))
      BY <1>1, <2>c, <2>e DEF InPbox, InSubs
    <2>6. ASSUME NEW g \in Handler PROVE HandlerOK(g)' /\ Subscribed(g)'
      <3>1. CASE g = h
        BY <1>1, <1>5, <1>7, <2>2, <2>5, <3>1 DEF HandlerOK, Subscribed
      <3>2. CASE g # h
        <4>1. HandlerOK(g)'
          BY <1>1, <1>6, <1>7, <2>2, <2>5, <3>2 DEF HandlerOK
        <4>2. Subscribed(g)'
          BY <1>1, <1>6, <1>7, <2>2, <2>5, <3>2 DEF Subscribed
        <4> QED
          BY <4>1, <4>2
      <3> QED
        BY <3>1, <3>2
    <2> QED
      BY <1>4, <2>3, <2>4, <2>6 DEF SignalsInv
  <1> QED
    BY <1>8, <1>9

\* Steps of one handler that leave the mailboxes and lists of the service alone:
\* the answer arrives, a signal is handled, the handler or its arbiter ends.
LEMMA OneHandlerInv ==
    ASSUME SignalsInv, NEW h \in Handler,
           PollRequest(h) \/ Handle(h) \/ HandlerEnds(h) \/ ArbiterEnds(h)
    PROVE  SignalsInv'
  <1>1. UNCHANGED <<pbox, subs>> /\ UNCHANGED vars
    BY DEF PollRequest, Handle, HandlerEnds, ArbiterEnds, serviceVars
  <1>2. StartOnce' /\ PlaceOnce' /\ inst' = inst
    <2>1. PlaceOnce'
      BY <1>1 DEF SignalsInv, PlaceOnce
    <2> QED
      BY <1>1, <2>1, SameStarts DEF vars
  <1>3. \A g \in Handler : (InPbox(g)' <=> InPbox(g)) /\ (InSubs(g)' <=> InSubs(g))
    BY <1>1 DEF InPbox, InSubs
  <1>4. /\ \A g \in Handler : HandlerOK(g) /\ Subscribed(g)
        /\ hst \in [Handler -> {"new", "waiting", "running", "ended"}]
        /\ req \in [Handler -> {"none", "wait", "sent", "lost"}] /\ gone \subseteq Handler
        /\ hbox \in [Handler -> Seq(SignalType)] /\ owed \in [Handler -> Seq(SignalType)]
        /\ home \in [Handler -> 0..MaxInst] /\ 0 \in 0..MaxInst
    BY InstFacts DEF SignalsInv, SigTypeOK
  <1>5. SigTypeOK'
    <2>1. CASE PollRequest(h)
      BY <1>1, <2>1 DEF PollRequest, historyVars, SignalsInv, SigTypeOK
    <2>2. CASE Handle(h)
      <3>1. hbox[h] # <<>> /\ hbox[h] = owed[h]
        BY <1>4, <2>2 DEF Handle, HandlerOK, Subscribed
      <3>2. hbox' \in [Handler -> Seq(SignalType)] /\ owed' \in [Handler -> Seq(SignalType)]
        BY <1>4, <2>2, <3>1, TailFacts DEF Handle
      <3> QED
        BY <1>1, <2>2, <3>2 DEF Handle, SignalsInv, SigTypeOK
    <2>3. CASE HandlerEnds(h)
      BY <1>1, <2>3 DEF HandlerEnds, SignalsInv, SigTypeOK
    <2>4. CASE ArbiterEnds(h)
      BY <1>1, <1>4, <2>4 DEF ArbiterEnds, SignalsInv, SigTypeOK
    <2> QED
      BY <2>1, <2>2, <2>3, <2>4
  <1>6. ASSUME NEW g \in Handler, g # h PROVE HandlerOK(g)' /\ Subscribed(g)'
    <2>1. /\ hst'[g] = hst[g] /\ req'[g] = req[g] /\ (g \in gone' <=> g \in gone)
          /\ hbox'[g] = hbox[g] /\ owed'[g] = owed[g] /\ home'[g] = home[g]
      BY <1>4, <1>6 DEF PollRequest, Handle, HandlerEnds, ArbiterEnds, historyVars
    <2> QED
      BY <1>1, <1>2, <1>3, <1>4, <2>1 DEF HandlerOK, Subscribed
  <1>7. HandlerOK(h)' /\ Subscribed(h)'
    <2>0. HandlerOK(h) /\ Subscribed(h)
      BY <1>4
    <2>1. CASE PollRequest(h)
      <3>1. /\ hst[h] = "waiting" /\ req[h] \in {"sent", "lost"} /\ hst'[h] = "running"
            /\ UNCHANGED <<req, gone, hbox, owed, home>>
        BY <1>4, <2>1 DEF PollRequest, historyVars
      <3> QED
        BY <1>1, <1>2, <1>3, <2>0, <3>1 DEF HandlerOK, Subscribed
    <2>2. CASE Handle(h)
      <3>1. /\ hbox[h] # <<>> /\ hbox'[h] = Tail(hbox[h]) /\ owed'[h] = Tail(owed[h])
            /\ UNCHANGED <<req, gone, hst, home>>
        BY <1>4, <2>2 DEF Handle
      <3>2. req[h] = "sent"
        BY <2>0, <3>1 DEF HandlerOK
      <3>3. hbox'[h] = owed'[h]
        BY <2>0, <3>1, <3>2 DEF Subscribed
      <3>4. HandlerOK(h)'
        BY <1>3, <2>0, <3>1, <3>2 DEF HandlerOK
      <3>5. Subscribed(h)'
        BY <1>1, <1>2, <1>3, <2>0, <3>1, <3>2, <3>3 DEF Subscribed
      <3> QED
        BY <3>4, <3>5
    <2>3. CASE HandlerEnds(h)
      <3>1. /\ hst[h] = "running" /\ hst'[h] = "ended" /\ hbox'[h] = <<>> /\ owed'[h] = <<>>
            /\ UNCHANGED <<req, gone, home>> /\ ~InPbox(h) /\ ~InSubs(h)
        BY <1>4, <2>3 DEF HandlerEnds, Reachable, InPbox, InSubs
      <3>2. HandlerOK(h)'
        BY <1>3, <2>0, <3>1 DEF HandlerOK
      <3>3. req[h] = "sent" => home[h] \in Inst
        BY <1>4, <2>0, InstFacts DEF Subscribed
      <3>4. Subscribed(h)'
        BY <1>1, <1>2, <1>3, <2>0, <3>1, <3>3 DEF Subscribed, InSubs
      <3> QED
        BY <3>2, <3>4
    <2>4. CASE ArbiterEnds(h)
      <3>1. /\ hst'[h] = "ended" /\ hbox'[h] = <<>> /\ owed'[h] = <<>>
            /\ req'[h] = "none" /\ h \in gone' /\ home'[h] = 0
        BY <1>4, <2>4 DEF ArbiterEnds
      <3> QED
        BY <3>1 DEF HandlerOK, Subscribed
    <2> QED
      BY <2>1, <2>2, <2>3, <2>4
  <1> QED
    BY <1>2, <1>5, <1>6, <1>7 DEF SignalsInv

-----------------------------------------------------------------------------
LEMMA SignalsInit == SigInit => SignalsInv
  <1> SUFFICES ASSUME SigInit PROVE SignalsInv
    OBVIOUS
  <1>1. DOMAIN <<>> = {}
    OBVIOUS
  <1>2. \A i \in Inst : pbox[i] = <<>> /\ subs[i] = <<>>
    BY DEF SigInit
  <1>3. SigTypeOK
    BY InstFacts DEF SigInit, SigTypeOK
  <1>4. StartOnce
    BY <1>1 DEF SigInit, Init, StartOnce, Handler
  <1>5. PlaceOnce
    BY <1>1, <1>2 DEF PlaceOnce
  <1>6. ASSUME NEW h \in Handler PROVE HandlerOK(h) /\ Subscribed(h)
    <2>1. ~InPbox(h) /\ ~InSubs(h)
      BY <1>2, InEmpty DEF InPbox, InSubs
    <2>2. hst[h] = "new" /\ req[h] = "none" /\ gone = {} /\ home[h] = 0 /\ hbox[h] = <<>> /\ owed[h] = <<>>
      BY DEF SigInit
    <2> QED
      BY <2>1, <2>2 DEF HandlerOK, Subscribed
  <1> QED
    BY <1>3, <1>4, <1>5, <1>6 DEF SignalsInv

LEMMA SignalsStep == SignalsInv /\ RegistryInv /\ [SigNext]_allVars => SignalsInv'
  <1> SUFFICES ASSUME SignalsInv, RegistryInv, [SigNext]_allVars PROVE SignalsInv'
    OBVIOUS
  <1>1. CASE SystemStep
    BY <1>1, StartServiceInv, HandleSubscribeInv, HandleSignalInv DEF SystemStep
  <1>2. CASE Exit
    BY <1>2, ExitInv
  <1>3. CASE \E i \in Inst : EndService(i)
    BY <1>3, EndServiceInv
  <1>4. CASE \E h \in Handler : HandlerStep(h)
    BY <1>4, GetInv, SendSubscribeInv, OneHandlerInv DEF HandlerStep
  <1>5. CASE \E h \in Handler : HandlerEnds(h) \/ ArbiterEnds(h)
    BY <1>5, OneHandlerInv
  <1>6. CASE \/ \E i \in Inst, s \in SignalType : OpenStream(i, s)
             \/ \E s \in SignalType : Raise(s)
             \/ \E h \in Handler : DropHandle(h)
             \/ UNCHANGED allVars
    BY <1>6, OtherInv
  <1> QED
    BY <1>1, <1>2, <1>3, <1>4, <1>5, <1>6 DEF SigNext

\* The invariant says that a subscriber is served.
LEMMA InvServes == SignalsInv => SubscribersServed
  <1> SUFFICES ASSUME SignalsInv, NEW h \in Handler, req[h] = "sent", h \notin gone, inst[home[h]] = "running"
               PROVE  /\ hst[h] # "ended"
                      /\ \E j \in DOMAIN subs[home[h]] :
                            \A i \in Inst : \A k \in DOMAIN subs[i] :
                                subs[i][k] = h <=> i = home[h] /\ k = j
                      /\ hbox[h] = owed[h]
    BY DEF SubscribersServed
  <1>1. Subscribed(h) /\ home[h] \in Inst
    BY InstFacts DEF SignalsInv, Subscribed, SigTypeOK
  <1>2. PICK j \in DOMAIN subs[home[h]] : subs[home[h]][j] = h
    BY <1>1 DEF Subscribed, In
  <1>3. \A i \in Inst : \A k \in DOMAIN subs[i] : subs[i][k] = h <=> i = home[h] /\ k = j
    BY <1>1, <1>2 DEF SignalsInv, PlaceOnce
  <1> QED
    BY <1>1, <1>2, <1>3 DEF Subscribed

\* signal.rs:161-190: a handler whose Subscribe was answered is on exactly one
\* list, once, and its mailbox holds exactly the signals it has yet to handle,
\* for any number of handlers, instances and signals.
THEOREM SubscribersAreServed == SigSpec => []SubscribersServed
  <1>1. SigInit => RegistryInv /\ SignalsInv
    BY RegistryInit, SignalsInit DEF SigInit
  <1>2. RegistryInv /\ SignalsInv /\ [SigNext]_allVars => (RegistryInv /\ SignalsInv)'
    BY RegistryOfSignals, RegistryStep, SignalsStep
  <1> QED
    BY <1>1, <1>2, InvServes, PTL DEF SigSpec

=============================================================================
