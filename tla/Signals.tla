------------------------------ MODULE Signals ------------------------------
(***************************************************************************)
(* Process signals (src/src/actors/signal.rs) over the registry they are    *)
(* found in.  ProcessSignals is the system service of ServiceRegistry: each  *)
(* of its instances has a stream per kind of signal and a list of            *)
(* subscribers.  DefaultSignalsHandler actors, on threads of their own, look *)
(* it up when they start, send it Subscribe with their own address inside,   *)
(* wait for the answer (a Request over a Syn address), and from then on      *)
(* answer SIGINT, SIGTERM and SIGQUIT with SystemExit.                       *)
(*                                                                           *)
(* The mailboxes are abstract here, SyncChannel has their detail; with less  *)
(* than DEFAULT_CAPACITY handlers no send is ever told Full.                 *)
(***************************************************************************)
EXTENDS ServiceRegistry

CONSTANTS Kept,         \* handlers whose user keeps the address it got at the start
          Mortal,       \* handlers whose arbiter may end
          SignalType,   \* kinds of signals that are raised
          MaxRaise      \* bound: signals raised

ASSUME HandlerAssumption ==
    Cardinality(Client) < 16 /\ Kept \subseteq Client /\ Mortal \subseteq Client
ASSUME SignalAssumption ==
    SignalType \subseteq {"Hup", "Int", "Term", "Quit", "Child"} /\ MaxRaise \in Nat

\* Those who look the service up are the DefaultSignalsHandler actors.
Handler == Client

VARIABLES
    hst,      \* per handler: "new" (in started()), "waiting", "running", "ended"
    req,      \* per handler: the oneshot of its Subscribe: "none", "wait", "sent", "lost"
    held,     \* handlers whose address their user still has
    gone,     \* handlers whose arbiter ended
    hbox,     \* per handler: Signal messages in its mailbox
    pbox,     \* per instance: Subscribe messages in its mailbox, by handler
    opening,  \* per instance: signal streams that are still being made
    open,     \* per instance: signal streams that are items of its context
    pending,  \* per instance: signals its streams have ready
    subs,     \* per instance: ProcessSignals::subscribers
    exits,    \* SystemExit is in the mailbox of the system
    raised,   \* signals raised
    home,     \* history: the instance that handled a handler's Subscribe
    owed      \* history: signals that instance handled since, and the handler not yet

handlerVars == <<hst, req, held, gone, hbox>>
serviceVars == <<pbox, opening, open, pending, subs>>
historyVars == <<home, owed>>
signalVars == <<handlerVars, serviceVars, exits, raised, historyVars>>
allVars == <<vars, signalVars>>

SigInit ==
    /\ Init
    /\ hst = [h \in Handler |-> "new"] /\ req = [h \in Handler |-> "none"]
    /\ held = Kept /\ gone = {} /\ hbox = [h \in Handler |-> <<>>]
    /\ pbox = [i \in Inst |-> <<>>] /\ subs = [i \in Inst |-> <<>>]
    /\ opening = [i \in Inst |-> {}] /\ open = [i \in Inst |-> {}] /\ pending = [i \in Inst |-> {}]
    /\ exits = FALSE /\ raised = 0
    /\ home = [h \in Handler |-> 0] /\ owed = [h \in Handler |-> <<>>]

In(x, s) == \E j \in DOMAIN s : s[j] = x

-----------------------------------------------------------------------------
(* The registry.  A handler looks the service up once, in started().         *)

Get(h) ==
    /\ hst[h] = "new"
    /\ Lookup(h) \/ StartIn(h) \/ Insert(h)
    /\ UNCHANGED signalVars

\* The system arbiter starts an instance: service_started spawns the futures
\* that make the streams.
StartService ==
    /\ Execute
    /\ opening' = [opening EXCEPT ![Head(sysbox)] = SignalType]
    /\ UNCHANGED <<handlerVars, pbox, open, pending, subs, exits, raised, historyVars>>

\* A stream is made, and becomes an item of the context, or cannot be made.
OpenStream(i, t) ==
    /\ inst[i] = "running" /\ t \in opening[i]
    /\ opening' = [opening EXCEPT ![i] = @ \ {t}]
    /\ \E ok \in BOOLEAN : open' = IF ok THEN [open EXCEPT ![i] = @ \union {t}] ELSE open
    /\ UNCHANGED <<vars, handlerVars, pbox, pending, subs, exits, raised, historyVars>>

\* What was in the mailbox of an instance that ended: the requests are lost.
Lost(ended) ==
    [h \in Handler |-> IF req[h] = "wait" /\ \E i \in ended : In(h, pbox[i]) THEN "lost" ELSE req[h]]

Cleared(f, ended) == [i \in Inst |-> IF i \in ended THEN <<>> ELSE f[i]]

\* An instance without items and without addresses ends.
EndService(i) ==
    /\ End(i) /\ opening[i] = {} /\ open[i] = {}
    /\ req' = Lost({i}) /\ pbox' = Cleared(pbox, {i}) /\ subs' = Cleared(subs, {i})
    /\ UNCHANGED <<hst, held, gone, hbox, opening, open, pending, exits, raised, historyVars>>

\* The system handles SystemExit, of a handler or of somebody else, and run()
\* returns.
Exit ==
    /\ SystemDown
    /\ req' = Lost(Inst) /\ pbox' = Cleared(pbox, Inst) /\ subs' = Cleared(subs, Inst)
    /\ opening' = [i \in Inst |-> {}] /\ open' = [i \in Inst |-> {}] /\ pending' = [i \in Inst |-> {}]
    /\ exits' = FALSE
    /\ UNCHANGED <<hst, held, gone, hbox, raised, historyVars>>

-----------------------------------------------------------------------------
(* ProcessSignals *)

\* The envelope skips a message whose Request was dropped with its actor.
Canceled(h) == hst[h] = "ended"

\* Handler<Subscribe>: the recipient is added and () is the answer.
HandleSubscribe(i) ==
    /\ inst[i] = "running" /\ pbox[i] # <<>>
    /\ pbox' = [pbox EXCEPT ![i] = Tail(@)]
    /\ LET h == Head(pbox[i]) IN
       IF Canceled(h) THEN UNCHANGED <<subs, req, home>>
       ELSE /\ subs' = [subs EXCEPT ![i] = Append(@, h)]
            /\ req' = [req EXCEPT ![h] = "sent"]
            /\ home' = [home EXCEPT ![h] = i]
    /\ UNCHANGED <<vars, hst, held, gone, hbox, opening, open, pending, exits, raised, owed>>

\* The process receives a signal: every stream for it has one to give.
Raise(t) ==
    /\ raised < MaxRaise /\ \E i \in Inst : inst[i] = "running" /\ t \in open[i]
    /\ raised' = raised + 1
    /\ pending' = [i \in Inst |-> IF inst[i] = "running" /\ t \in open[i] THEN pending[i] \union {t} ELSE pending[i]]
    /\ UNCHANGED <<vars, handlerVars, pbox, opening, open, subs, exits, historyVars>>

\* do_send of a Recipient fails when the mailbox is gone.
DoSend(h) == hst[h] # "ended"

\* What the handlers added by instance i are owed once it has handled t.
Owe(i, t) ==
    owed' = [h \in Handler |-> IF home[h] = i /\ hst[h] # "ended" THEN Append(owed[h], t) ELSE owed[h]]

\* mutant: the rest of the list is lost with a subscriber that is gone
MutantHandleSignal(i, t) ==
    /\ inst[i] = "running" /\ t \in pending[i]
    /\ pending' = [pending EXCEPT ![i] = @ \ {t}]
    /\ LET ok == {j \in DOMAIN subs[i] : \A k \in 1..j : DoSend(subs[i][k])} IN
       /\ subs' = [subs EXCEPT ![i] = SubSeq(@, 1, Cardinality(ok))]
       /\ hbox' = [h \in Handler |-> IF \E j \in ok : subs[i][j] = h THEN Append(hbox[h], t) ELSE hbox[h]]
    /\ Owe(i, t)
    /\ UNCHANGED <<vars, hst, req, held, gone, pbox, opening, open, exits, raised, home>>

\* The places of the list whose subscriber can be sent to.
Sent(i) == {j \in DOMAIN subs[i] : DoSend(subs[i][j])}

\* Handler<SignalType>, called by the message stream.  The sends to different
\* subscribers commute with what their threads do in between, so the loop is
\* one step; it keeps those it could send to, in their order.
HandleSignal(i, t) ==
    /\ inst[i] = "running" /\ t \in pending[i]
    /\ pending' = [pending EXCEPT ![i] = @ \ {t}]
    /\ \E at \in [1..Cardinality(Sent(i)) -> Sent(i)] :
          /\ \A m, n \in DOMAIN at : m < n => at[m] < at[n]
          /\ Sent(i) = {at[n] : n \in DOMAIN at}
          /\ subs' = [subs EXCEPT ![i] = [n \in DOMAIN at |-> subs[i][at[n]]]]
    /\ hbox' = [h \in Handler |-> IF In(h, subs[i]) /\ DoSend(h) THEN Append(hbox[h], t) ELSE hbox[h]]
    /\ Owe(i, t)
    /\ UNCHANGED <<vars, hst, req, held, gone, pbox, opening, open, exits, raised, home>>

-----------------------------------------------------------------------------
(* DefaultSignalsHandler *)

\* Syn::send: a message to a closed mailbox is not queued.
Send(h, i) ==
    IF inst[i] = "ended"
    THEN req' = [req EXCEPT ![h] = "lost"] /\ UNCHANGED pbox
    ELSE req' = [req EXCEPT ![h] = "wait"] /\ pbox' = [pbox EXCEPT ![i] = Append(@, h)]

\* The end of started(): the request is made, a wait future, and the address
\* of the service dropped.
SendSubscribe(h) ==
    /\ hst[h] = "new" /\ Release(h)
    /\ hst' = [hst EXCEPT ![h] = "waiting"]
    /\ Send(h, got[h])
    /\ UNCHANGED <<held, gone, hbox, opening, open, pending, subs, exits, raised, historyVars>>

\* mutant: a canceled oneshot is not looked at
MutantPollRequest(h) ==
    /\ hst[h] = "waiting" /\ req[h] = "sent"
    /\ hst' = [hst EXCEPT ![h] = "running"]
    /\ UNCHANGED <<vars, req, held, gone, hbox, serviceVars, exits, raised, historyVars>>

\* Request::poll in the wait future: the answer, or Closed, ends the wait.
PollRequest(h) ==
    /\ hst[h] = "waiting" /\ req[h] \in {"sent", "lost"}
    /\ hst' = [hst EXCEPT ![h] = "running"]
    /\ UNCHANGED <<vars, req, held, gone, hbox, serviceVars, exits, raised, historyVars>>

Exiting == {"Int", "Term", "Quit"}

\* mutant: SIGINT only
MutantHandle(h) ==
    /\ hst[h] = "running" /\ hbox[h] # <<>>
    /\ hbox' = [hbox EXCEPT ![h] = Tail(@)]
    /\ exits' = (exits \/ (sysUp /\ Head(hbox[h]) = "Int"))
    /\ owed' = [owed EXCEPT ![h] = Tail(@)]
    /\ UNCHANGED <<vars, hst, req, held, gone, serviceVars, raised, home>>

\* Handler<Signal>.
Handle(h) ==
    /\ hst[h] = "running" /\ hbox[h] # <<>>
    /\ hbox' = [hbox EXCEPT ![h] = Tail(@)]
    /\ exits' = (exits \/ (sysUp /\ Head(hbox[h]) \in Exiting))
    /\ owed' = [owed EXCEPT ![h] = Tail(@)]
    /\ UNCHANGED <<vars, hst, req, held, gone, serviceVars, raised, home>>

DropHandle(h) ==
    /\ h \in held /\ held' = held \ {h}
    /\ UNCHANGED <<vars, hst, req, gone, hbox, serviceVars, exits, raised, historyVars>>

\* Addresses of the handler: its user's, in a Subscribe on its way, in a list.
Reachable(h) == h \in held \/ \E i \in Inst : In(h, pbox[i]) \/ In(h, subs[i])

\* A handler that does not wait and that nobody can reach stops.
HandlerEnds(h) ==
    /\ hst[h] = "running" /\ ~Reachable(h)
    /\ hst' = [hst EXCEPT ![h] = "ended"] /\ hbox' = [hbox EXCEPT ![h] = <<>>]
    /\ owed' = [owed EXCEPT ![h] = <<>>]
    /\ UNCHANGED <<vars, req, held, gone, serviceVars, exits, raised, home>>

\* The handler's arbiter ends, and with it the actor and its request.
ArbiterEnds(h) ==
    /\ h \in Mortal /\ hst[h] \in {"waiting", "running"}
    /\ hst' = [hst EXCEPT ![h] = "ended"] /\ hbox' = [hbox EXCEPT ![h] = <<>>]
    /\ gone' = gone \union {h} /\ req' = [req EXCEPT ![h] = "none"]
    /\ owed' = [owed EXCEPT ![h] = <<>>] /\ home' = [home EXCEPT ![h] = 0]
    /\ UNCHANGED <<vars, held, serviceVars, exits, raised>>

-----------------------------------------------------------------------------
\* What the system's event loop does with the messages and signals it has.
SystemStep ==
    \/ StartService
    \/ \E i \in Inst : HandleSubscribe(i)
    \/ \E i \in Inst, t \in SignalType : HandleSignal(i, t)

HandlerStep(h) == Get(h) \/ SendSubscribe(h) \/ PollRequest(h) \/ Handle(h)

SigNext ==
    \/ SystemStep \/ Exit
    \/ \E i \in Inst : EndService(i)
    \/ \E i \in Inst, t \in SignalType : OpenStream(i, t)
    \/ \E t \in SignalType : Raise(t)
    \/ \E h \in Handler : HandlerStep(h)
    \/ \E h \in Handler : DropHandle(h) \/ HandlerEnds(h) \/ ArbiterEnds(h)

SigSpec == SigInit /\ [][SigNext]_allVars

\* Threads run and event loops poll what was notified; the system gets to a
\* SystemExit that is in its mailbox.
SigFairSpec ==
    /\ SigSpec
    /\ WF_allVars(SystemStep \/ (exits /\ Exit))
    /\ \A h \in Handler : WF_allVars(HandlerStep(h))

-----------------------------------------------------------------------------
(* signal.rs:161-190: a handler whose Subscribe was answered is served as     *)
(* long as its arbiter and the instance that answered run: it does not end    *)
(* although nobody else may have its address, it is on exactly one list,      *)
(* once, whichever subscribers before it are gone and however many instances  *)
(* the race of SystemRegistry::get has started, and of the signals that       *)
(* instance has handled since, its mailbox holds exactly those it has not     *)
(* handled itself, in their order.                                            *)
SubscribersServed ==
    \A h \in Handler : req[h] = "sent" /\ h \notin gone /\ inst[home[h]] = "running" =>
        /\ hst[h] # "ended"
        /\ \E j \in DOMAIN subs[home[h]] :
              \A i \in Inst : \A k \in DOMAIN subs[i] : subs[i][k] = h <=> i = home[h] /\ k = j
        /\ hbox[h] = owed[h]

(* signal.rs:206-218: a handler that waits in started() for the answer to its *)
(* Subscribe goes on, also when the service or the system ends before it      *)
(* answers: until then the handler could not handle a signal.                 *)
SubscribeSettles == \A h \in Handler : hst[h] = "waiting" ~> hst[h] # "waiting"

(* "This actor sends SystemExit ... for each of SIGINT, SIGTERM, SIGQUIT": a  *)
(* signal of these that an instance has ready while a handler is on its list  *)
(* brings the system down, unless the handler's arbiter ends first.           *)
ExitSignalExits ==
    \A h \in Handler :
        (\E i \in Inst : pending[i] \intersect Exiting # {} /\ In(h, subs[i])) ~> (~sysUp \/ h \in gone)
=============================================================================
