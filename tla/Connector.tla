----------------------------- MODULE Connector -----------------------------
(* The connector actor of actors/resolver.rs.  Its handlers answer Resolve,  *)
(* Connect and ConnectAddr with an actor future: Resolver, Resolver chained  *)
(* with TcpConnector by and_then, or TcpConnector alone.  The future is an   *)
(* item of the connector's context and polled like those of ActorFutures,    *)
(* with these leaves: "src" is the DNS lookup, "limit" the timeout of        *)
(* TcpConnector and "step" the connection it is making.                      *)
(*                                                                           *)
(* Resolver::parse cannot fail, as splitn always yields a first part, so     *)
(* Resolver::error is left out.                                              *)
EXTENDS ActorFutures

CONSTANTS Asked,     \* the messages the connector is sent
          MaxAddr    \* bound: addresses of a name

ASSUME ConnectorAssumption ==
    Asked \subseteq {"resolve", "connect", "connect_addr"} /\ MaxAddr \in Nat \ {0}

VARIABLES
    dns,     \* what the name stands for: its addresses, and how they are found
    net,     \* what each address does with a connection
    conn     \* Resolver::addrs is Some, and the fields of TcpConnector

connVars == <<dns, net, conn>>

Asking == kind.cons \in Asked

IoError(a) == Err(<<92, a>>)
ResolverError == Err(<<91>>)

\* A name parses as a SocketAddr, or is looked up: that fails, or finds
\* addresses, or none.  ConnectAddr comes with its one address.
Names(c) ==
    {[how |-> "given", addrs |-> <<1>>]}
        \union (IF c = "connect_addr" THEN {}
                ELSE {[how |-> "fails", addrs |-> <<>>]}
                       \union {[how |-> "found", addrs |-> [i \in 1..k |-> i]] : k \in 0..MaxAddr})

\* TcpConnector::with_timeout.
TcpConnectorNew(addrs) == [known |-> FALSE, made |-> TRUE, addrs |-> addrs, stream |-> 0, tried |-> <<>>]

\* Resolver::new.
ResolverNew(d) == [known |-> d.how = "given", made |-> FALSE, addrs |-> <<>>, stream |-> 0, tried |-> <<>>]

NoNet == [a \in 1..MaxAddr |-> "silent"]

\* The handlers of Resolve, Connect and ConnectAddr; other futures of
\* ActorFutures have no part in the connector.
InitAll ==
    \/ Init /\ dns = [how |-> "given", addrs |-> <<>>] /\ net = NoNet /\ conn = ResolverNew(dns)
    \/ \E c \in Asked :
          /\ Fresh([lower |-> "none", upper |-> "none", cons |-> c, top |-> "none"], {<<>>})
          /\ dns \in Names(c)
          /\ net \in [1..MaxAddr -> {"accept", "refuse", "silent"}]
          /\ \A a \in 1..MaxAddr : a > Len(dns.addrs) \/ c = "resolve" => net[a] = "silent"
          /\ conn = IF c = "connect_addr" THEN TcpConnectorNew(dns.addrs) ELSE ResolverNew(dns)

-----------------------------------------------------------------------------
\* What Resolver::poll returns, and what it leaves of n; a second poll after
\* it took the addresses has no lookup to unwrap.
Resolver ==
    LET p == Poll([n EXCEPT !.again = @ \/ (dns.how = "given" /\ ~conn.known)], "src") IN
    IF conn.known THEN [r |-> Ok(dns.addrs), n |-> n]
    ELSE IF ~n.ready["src"] THEN [r |-> NotReady, n |-> p]
    ELSE [r |-> IF dns.how = "fails" \/ dns.addrs = <<>> THEN ResolverError ELSE Ok(dns.addrs),
          n |-> [p EXCEPT !.spent = @ \union {"src"}]]

\* TcpConnector::poll looks at its timeout before anything else.
TcpPoll(m) ==
    IF m.ready["limit"] THEN Return([r |-> TimedOut, n |-> m])
    ELSE n' = Poll(m, "limit") /\ pc' = "loop" /\ UNCHANGED <<waiting, result>>

\* Chain::poll of Connect: the closure makes the TcpConnector, with its
\* timeout, and it is polled at once.
ConnectFirst ==
    \E p \in {Resolver} :
        IF p.r.t = "ok"
        THEN TcpPoll([p.n EXCEPT !.chain = "second"]) /\ conn' = TcpConnectorNew(p.r.v)
        ELSE /\ Return([p EXCEPT !.n.chain = IF p.r.t = "err" THEN "done" ELSE @])
             /\ UNCHANGED conn

PollAsked ==
    /\ Asking /\ pc = "idle"
    /\ notified' = FALSE
    /\ \/ kind.cons = "resolve" /\ Return(Resolver) /\ conn' = [conn EXCEPT !.known = FALSE]
       \/ kind.cons = "connect" /\ n.chain = "first" /\ ConnectFirst
       \/ (kind.cons = "connect_addr" \/ n.chain = "second") /\ TcpPoll(n) /\ UNCHANGED conn
    /\ UNCHANGED <<kind, script, dns, net>>

\* The next address is taken, pop_front().unwrap(), and TcpStream::connect
\* called for it; the connection before it is dropped.  It may be made or
\* refused before it is first polled.
TcpConnect ==
    IF conn.addrs = <<>> THEN Return([r |-> NotReady, n |-> [n EXCEPT !.again = TRUE]]) /\ UNCHANGED conn
    ELSE LET a == Head(conn.addrs)
             o == IF net[a] = "accept" THEN Ok(<<a>>) ELSE IoError(a)
         IN  /\ conn' = [conn EXCEPT !.addrs = Tail(@), !.stream = a, !.tried = Append(@, a)]
             /\ \E ready \in {FALSE, net[a] # "silent"} :
                   n' = [Spawned(n, "step", o) EXCEPT !.ready["step"] = ready]
             /\ UNCHANGED <<pc, waiting, result>>

\* mutant: the first connection that fails ends the loop
MutantTcpConnector ==
    /\ Asking /\ pc = "loop"
    /\ IF conn.stream = 0 THEN TcpConnect
       ELSE \E p \in {FuturePoll(n, "step")} : Return(p) /\ UNCHANGED conn
    /\ UNCHANGED <<kind, script, notified, dns, net>>

\* One turn of the loop of TcpConnector::poll.
TcpConnector ==
    /\ Asking /\ pc = "loop"
    /\ IF conn.stream = 0 THEN TcpConnect
       ELSE \E p \in {FuturePoll(n, "step")} :
               IF p.r.t = "err" /\ conn.addrs # <<>> THEN TcpConnect
               ELSE Return(p) /\ UNCHANGED conn
    /\ UNCHANGED <<kind, script, notified, dns, net>>

\* The lookup ends, the second is over, an address answers.
Answer(l) ==
    /\ Asking
    /\ \/ l = "src" /\ ~conn.known /\ ~conn.made /\ dns.how # "given"
       \/ l = "limit" /\ conn.made
       \/ l = "step" /\ conn.stream # 0 /\ net[conn.stream] # "silent"
    /\ Occur(l) /\ UNCHANGED connVars

NextAll ==
    \/ ~Asking /\ Next /\ UNCHANGED connVars
    \/ PollAsked \/ TcpConnector
    \/ \E l \in Leaf : Answer(l)

allVars == <<vars, connVars>>

SpecAll == InitAll /\ [][NextAll]_allVars

(* The context polls when it is notified and poll() returns.  What is        *)
(* awaited happens: of the connector, lookups, which have a timeout of their *)
(* own, and its timer, while an address may stay silent for ever.            *)
FairAll ==
    /\ SpecAll
    /\ WF_allVars(\/ ~Asking /\ ((notified /\ PollItem) \/ Turn \/ WaitDone) /\ UNCHANGED connVars
                  \/ (notified /\ PollAsked) \/ TcpConnector)
    /\ WF_allVars(\/ ~Asking /\ (\E l \in Awaited : Happen(l)) /\ UNCHANGED connVars
                  \/ \E l \in {"src", "limit"} : Answer(l))

-----------------------------------------------------------------------------
(* resolver.rs:236-260, 284-327: the addresses of a name are tried in their  *)
(* order, the next one only after the one before it failed.  The connector   *)
(* answers with a connection to the first that accepts, with an I/O error    *)
(* only when every address has refused, with a resolver error only when      *)
(* there was no address to try, and with a timeout only when its timer has   *)
(* fired, whatever the order in which the lookup, the timer and the          *)
(* addresses answer.                                                         *)
ConnectOutcome ==
    Asking =>
        /\ Len(conn.tried) <= Len(dns.addrs)
        /\ \A i \in DOMAIN conn.tried :
              conn.tried[i] = dns.addrs[i] /\ (i < Len(conn.tried) => net[dns.addrs[i]] = "refuse")
        /\ pc = "done" =>
              \/ result = ResolverError /\ dns.addrs = <<>>
              \/ result = TimedOut /\ kind.cons # "resolve" /\ n.ready["limit"]
              \/ result = Ok(dns.addrs) /\ kind.cons = "resolve" /\ dns.addrs # <<>>
              \/ \E a \in 1..MaxAddr :
                    /\ kind.cons # "resolve" /\ conn.tried # <<>> /\ a = conn.tried[Len(conn.tried)]
                    /\ \/ result = Ok(<<a>>) /\ net[a] = "accept"
                       \/ result = IoError(a) /\ net[a] = "refuse" /\ conn.tried = dns.addrs
=============================================================================
