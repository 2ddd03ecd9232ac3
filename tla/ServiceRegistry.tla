-------------------------- MODULE ServiceRegistry --------------------------
(***************************************************************************)
(* SystemRegistry::get of src/src/registry.rs for one SystemService type,   *)
(* called from several arbiter threads.  The lock is taken for the lookup    *)
(* and again for the insertion; in between the service is started with       *)
(* Supervisor::start_in, which sends a closure to the system arbiter.        *)
(* Signals puts ProcessSignals and its users on top of this module.          *)
(***************************************************************************)
EXTENDS Naturals, Sequences, FiniteSets

CONSTANTS Client,    \* threads that look the service up
          MaxInst    \* bound: instances of the service ever started

ASSUME ClientAssumption == IsFiniteSet(Client)
ASSUME BoundAssumption == MaxInst \in Nat \ {0}

Inst == 1..MaxInst

VARIABLES
    cpc,      \* where each client is in get()
    got,      \* the address it holds, by instance; 0 is none
    reg,      \* the address in the registry; 0 is none
    inst,     \* per instance: "none", "queued", "running", "ended"
    sysbox,   \* the system arbiter's mailbox: closures that start instances
    sysUp     \* the system arbiter runs

vars == <<cpc, got, reg, inst, sysbox, sysUp>>

Init ==
    /\ cpc = [c \in Client |-> "idle"] /\ got = [c \in Client |-> 0]
    /\ reg = 0 /\ inst = [i \in Inst |-> "none"] /\ sysbox = <<>> /\ sysUp = TRUE

\* The first critical section.
Lookup(c) ==
    /\ cpc[c] = "idle"
    /\ IF reg # 0
       THEN got' = [got EXCEPT ![c] = reg] /\ cpc' = [cpc EXCEPT ![c] = "done"]
       ELSE cpc' = [cpc EXCEPT ![c] = "start"] /\ UNCHANGED got
    /\ UNCHANGED <<reg, inst, sysbox, sysUp>>

\* Supervisor::start_in; do_send to a dead arbiter drops the closure and with
\* it the receiver of the new address.
StartIn(c) ==
    /\ cpc[c] = "start"
    /\ \E i \in Inst :
          /\ inst[i] = "none" /\ \A j \in Inst : j < i => inst[j] # "none"
          /\ inst' = [inst EXCEPT ![i] = IF sysUp THEN "queued" ELSE "ended"]
          /\ sysbox' = IF sysUp THEN Append(sysbox, i) ELSE sysbox
          /\ got' = [got EXCEPT ![c] = i]
    /\ cpc' = [cpc EXCEPT ![c] = "insert"]
    /\ UNCHANGED <<reg, sysUp>>

\* The second critical section replaces whatever is there.
Insert(c) ==
    /\ cpc[c] = "insert"
    /\ reg' = got[c] /\ cpc' = [cpc EXCEPT ![c] = "done"]
    /\ UNCHANGED <<got, inst, sysbox, sysUp>>

\* The client drops the address and may ask again.
Release(c) ==
    /\ cpc[c] = "done"
    /\ cpc' = [cpc EXCEPT ![c] = "idle"] /\ got' = [got EXCEPT ![c] = 0]
    /\ UNCHANGED <<reg, inst, sysbox, sysUp>>

\* The system arbiter runs a closure: service_started, then the supervisor.
Execute ==
    /\ sysUp /\ sysbox # <<>>
    /\ inst' = [inst EXCEPT ![Head(sysbox)] = "running"]
    /\ sysbox' = Tail(sysbox)
    /\ UNCHANGED <<cpc, got, reg, sysUp>>

Held(i) == reg = i \/ \E c \in Client : got[c] = i

\* mutant: ends although an address is left
MutantEnd(i) ==
    /\ sysUp /\ inst[i] = "running" /\ reg # i
    /\ inst' = [inst EXCEPT ![i] = "ended"]
    /\ UNCHANGED <<cpc, got, reg, sysbox, sysUp>>

\* A supervised actor is restarted as long as it has an address.
End(i) ==
    /\ sysUp /\ inst[i] = "running" /\ ~Held(i)
    /\ inst' = [inst EXCEPT ![i] = "ended"]
    /\ UNCHANGED <<cpc, got, reg, sysbox, sysUp>>

\* The system's event loop returns.
SystemDown ==
    /\ sysUp /\ sysUp' = FALSE /\ sysbox' = <<>>
    /\ inst' = [i \in Inst |-> IF inst[i] = "none" THEN "none" ELSE "ended"]
    /\ UNCHANGED <<cpc, got, reg>>

Next == \/ \E c \in Client : Lookup(c) \/ StartIn(c) \/ Insert(c) \/ Release(c)
        \/ \E i \in Inst : End(i)
        \/ Execute \/ SystemDown

Spec == Init /\ [][Next]_vars

-----------------------------------------------------------------------------
(* While the system runs, every address get() handed out or keeps leads to an *)
(* instance that runs or will be started.                                     *)
AddressesLive ==
    sysUp => \A i \in Inst : Held(i) => inst[i] \in {"queued", "running"}

(* "`SystemService` which is unique per system".                              *)
UniqueService == Cardinality({i \in Inst : inst[i] = "running"}) <= 1
=============================================================================
