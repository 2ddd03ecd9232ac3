--------------------------- MODULE ArbiterSystem ---------------------------
(***************************************************************************)
(* The System actor (src/src/system.rs) and the arbiters it manages         *)
(* (src/src/arbiter.rs): threads with an event loop each, that register      *)
(* with the system when their loop first polls the Arbiter actor and         *)
(* unregister when it ends.  StopArbiter and SystemExit are messages; the    *)
(* registration travels the same way, so it can still be on its way when     *)
(* SystemExit is handled.                                                    *)
(***************************************************************************)
EXTENDS Naturals, Sequences, FiniteSets

CONSTANTS Arb,       \* arbiters made with Arbiter::new
          Main,      \* the arbiter of System::new, in the thread of run()
          MaxStop,   \* bound: StopArbiter messages waiting at one arbiter
          MaxExit,   \* bound: SystemExit messages ever sent
          LateNew    \* whether arbiters are still made after a SystemExit was sent

ASSUME MainAssumption == Main \notin Arb
ASSUME ArbBoundAssumption == MaxStop \in Nat /\ MaxExit \in Nat /\ LateNew \in BOOLEAN

Loop == Arb \union {Main}

VARIABLES
    apc,       \* per arbiter: "none", "boot", "running", "registered", "stopping", "ended"
    creator,   \* the arbiter whose thread waits in Arbiter::new for this one
    stops,     \* StopArbiter messages in each arbiter's mailbox
    spc,       \* the system: "init", "running", "stopping", "returned"
    sbox,      \* the System actor's mailbox
    arbiters,  \* System::arbiters
    exits      \* SystemExit messages sent

vars == <<apc, creator, stops, spc, sbox, arbiters, exits>>

Message == [kind : {"reg", "unreg", "exit"}, arb : Loop]

TypeOK ==
    /\ apc \in [Loop -> {"none", "boot", "running", "registered", "stopping", "ended"}]
    /\ creator \in [Arb -> Loop]
    /\ stops \in [Loop -> Nat]
    /\ spc \in {"init", "running", "stopping", "returned"}
    /\ sbox \in Seq(Message)
    /\ arbiters \in SUBSET Loop
    /\ exits \in 0..MaxExit

\* System::new has made the system arbiter and the System actor.
Init ==
    /\ apc = [a \in Loop |-> IF a = Main THEN "running" ELSE "none"]
    /\ creator = [a \in Arb |-> Main]
    /\ stops = [a \in Loop |-> 0]
    /\ spc = "init" /\ sbox = <<>> /\ arbiters = {} /\ exits = 0

-----------------------------------------------------------------------------
\* rx.recv() of Arbiter::new blocks the thread until the new one has booted.
Blocked(c) == \E a \in Arb : apc[a] = "boot" /\ creator[a] = c

\* The arbiter's loop turns: the one of Main inside SystemRunner::run.
Turning(c) ==
    /\ apc[c] \in {"running", "registered", "stopping"}
    /\ c = Main => spc \in {"running", "stopping"}
    /\ ~Blocked(c)

\* do_send to the System actor; its mailbox goes with the system's core.
Post(kind, a) ==
    sbox' = IF spc = "returned" THEN sbox ELSE Append(sbox, [kind |-> kind, arb |-> a])

\* The thread can run user code: a turning loop, or the main thread before run().
Active(c) == Turning(c) \/ (c = Main /\ spc = "init" /\ ~Blocked(c))

\* Arbiter::new.
New(c, a) ==
    /\ apc[a] = "none" /\ Active(c)
    /\ LateNew \/ exits = 0
    /\ apc' = [apc EXCEPT ![a] = "boot"]
    /\ creator' = [creator EXCEPT ![a] = c]
    /\ UNCHANGED <<stops, spc, sbox, arbiters, exits>>

\* The new thread makes its core and the Arbiter actor and sends the address
\* back; nothing has been polled yet.
Boot(a) ==
    /\ apc[a] = "boot"
    /\ apc' = [apc EXCEPT ![a] = "running"]
    /\ UNCHANGED <<creator, stops, spc, sbox, arbiters, exits>>

\* Arbiter::started, on the first poll of the actor.
Started(a) ==
    /\ Turning(a) /\ apc[a] = "running"
    /\ apc' = [apc EXCEPT ![a] = "registered"]
    /\ Post("reg", a)
    /\ UNCHANGED <<creator, stops, spc, arbiters, exits>>

\* Handler<StopArbiter>: STOP.take() lets only the first one count, and the
\* system arbiter only warns.
HandleStop(a) ==
    /\ Turning(a) /\ apc[a] \in {"registered", "stopping"} /\ stops[a] > 0
    /\ stops' = [stops EXCEPT ![a] = @ - 1]
    /\ apc' = [apc EXCEPT ![a] = IF a = Main THEN @ ELSE "stopping"]
    /\ UNCHANGED <<creator, spc, sbox, arbiters, exits>>

\* core.run returns, the thread unregisters and ends.
EndLoop(a) ==
    /\ Turning(a) /\ apc[a] = "stopping"
    /\ apc' = [apc EXCEPT ![a] = "ended"]
    /\ stops' = [stops EXCEPT ![a] = 0]
    /\ Post("unreg", a)
    /\ UNCHANGED <<creator, spc, arbiters, exits>>

\* SystemRunner::run.
Run ==
    /\ spc = "init" /\ ~Blocked(Main) /\ spc' = "running"
    /\ UNCHANGED <<apc, creator, stops, sbox, arbiters, exits>>

Received(kind) == Turning(Main) /\ sbox # <<>> /\ Head(sbox).kind = kind /\ sbox' = Tail(sbox)

HandleRegister ==
    /\ Received("reg")
    /\ arbiters' = arbiters \union {Head(sbox).arb}
    /\ UNCHANGED <<apc, creator, stops, spc, exits>>

\* mutant: the entry stays
MutantHandleUnregister ==
    /\ Received("unreg") /\ UNCHANGED <<apc, creator, stops, spc, arbiters, exits>>

HandleUnregister ==
    /\ Received("unreg")
    /\ arbiters' = arbiters \ {Head(sbox).arb}
    /\ UNCHANGED <<apc, creator, stops, spc, exits>>

\* mutant: only the system's own loop is stopped
MutantHandleExit ==
    /\ Received("exit") /\ spc' = "stopping"
    /\ UNCHANGED <<apc, creator, stops, arbiters, exits>>

\* Handler<SystemExit>: StopArbiter to every registered arbiter that still has
\* a mailbox, then the system's own loop.
HandleExit ==
    /\ Received("exit")
    /\ stops' = [a \in Loop |-> IF a \in arbiters /\ apc[a] # "ended" THEN stops[a] + 1 ELSE stops[a]]
    /\ spc' = "stopping"
    /\ UNCHANGED <<apc, creator, arbiters, exits>>

\* core.run(stop) returns; the core, the System actor and its mailbox are dropped.
Return ==
    /\ spc = "stopping" /\ ~Blocked(Main)
    /\ spc' = "returned"
    /\ apc' = [apc EXCEPT ![Main] = "ended"]
    /\ stops' = [stops EXCEPT ![Main] = 0]
    /\ sbox' = <<>> /\ arbiters' = {}
    /\ UNCHANGED <<creator, exits>>

-----------------------------------------------------------------------------
\* Some holder of an arbiter's address sends it StopArbiter.
SendStop(a) ==
    /\ \E c \in Loop : Active(c)
    /\ apc[a] \in {"running", "registered", "stopping"} /\ stops[a] < MaxStop
    /\ stops' = [stops EXCEPT ![a] = @ + 1]
    /\ UNCHANGED <<apc, creator, spc, sbox, arbiters, exits>>

SendExit ==
    /\ \E c \in Loop : Active(c)
    /\ exits < MaxExit /\ exits' = exits + 1
    /\ Post("exit", Main)
    /\ UNCHANGED <<apc, creator, stops, spc, arbiters>>

SystemStep == HandleRegister \/ HandleUnregister \/ HandleExit

Next ==
    \/ \E c \in Loop, a \in Arb : New(c, a)
    \/ \E a \in Arb : Boot(a) \/ SendStop(a)
    \/ \E a \in Loop : Started(a) \/ HandleStop(a)
    \/ \E a \in Arb : EndLoop(a)
    \/ Run \/ SystemStep \/ Return \/ SendExit

Spec == Init /\ [][Next]_vars

\* Threads are scheduled and a turning loop polls the tasks that were notified.
Fairness ==
    /\ \A a \in Arb : /\ WF_vars(Boot(a)) /\ WF_vars(Started(a))
                      /\ WF_vars(HandleStop(a)) /\ WF_vars(EndLoop(a))
    /\ WF_vars(Started(Main)) /\ WF_vars(HandleStop(Main))
    /\ WF_vars(SystemStep) /\ WF_vars(Return)

FairSpec == Spec /\ Fairness

-----------------------------------------------------------------------------
\* The entry the map will have for a once the mailbox has been worked off.
WillBeRegistered(a) ==
    LET mine == {i \in DOMAIN sbox : sbox[i].kind # "exit" /\ sbox[i].arb = a}
    IN  IF mine = {} THEN a \in arbiters
        ELSE sbox[CHOOSE i \in mine : \A j \in mine : j <= i].kind = "reg"

(* The map of arbiters together with the registrations on their way describes *)
(* exactly the loops that run: no entry is left behind by an arbiter that      *)
(* ended, and none is missing, however the messages of the threads interleave. *)
RegistrySettles ==
    spc # "returned" =>
        \A a \in Loop : WillBeRegistered(a) <=> apc[a] \in {"registered", "stopping"}

(* Every arbiter the map holds when the system gets to its first SystemExit    *)
(* ends its event loop.                                                        *)
ExitStopsRegistered ==
    \A a \in Arb :
        (spc = "running" /\ sbox # <<>> /\ Head(sbox).kind = "exit" /\ a \in arbiters)
            ~> (apc[a] = "ended")

(* "Stop system execution": once run() has returned, every arbiter that        *)
(* existed before SystemExit was sent ends.                                    *)
NoneLeft == (spc = "returned") ~> (\A a \in Arb : apc[a] \in {"none", "ended"})
=============================================================================
