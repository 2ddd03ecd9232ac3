--------------------------- MODULE ConnectorProofs ---------------------------
(* Proofs about the connector of Connector.tla, for any number of addresses  *)
(* of a name and any behaviour of the network, and about the combinators and *)
(* stream items of ActorFutures.tla, for sources of any length.              *)
EXTENDS Connector, FiniteSetTheorems, TLAPS

-----------------------------------------------------------------------------
(* The state of a composed future, as far as the connector uses it.          *)

Fields == {"left", "ready", "reg", "timer", "fires", "work", "fold", "acc", "step", "chain",
           "second", "f", "started", "early", "handled", "heard", "spent", "again"}

NodeOK(m) == DOMAIN m = Fields /\ m.ready \in [Leaf -> BOOLEAN]

\* m changes nothing that tells how far the connector is.
Alike(m, o) ==
    /\ NodeOK(m) /\ m.ready = o.ready /\ m.step = o.step /\ m.fold = o.fold

Answers == {"accept", "refuse", "silent"}

\* The name and the network, which do not change.
WorldOK ==
    /\ dns.addrs \in Seq(1..MaxAddr)
    /\ dns.how \in {"given", "found", "fails"}
    /\ dns.how = "given" => dns.addrs # <<>>
    /\ dns.how = "fails" => dns.addrs = <<>>
    /\ net \in [1..MaxAddr -> Answers]

ConnOK ==
    /\ conn \in [known : BOOLEAN, made : BOOLEAN, addrs : Seq(1..MaxAddr), stream : 0..MaxAddr,
                 tried : Seq(1..MaxAddr)]
    /\ conn.known => dns.how = "given"
    /\ n.ready["src"] => dns.how # "given"

\* Which of the two futures the answer is waiting for.
StageOK ==
    /\ kind.cons \in {"resolve", "connect", "connect_addr"}
    /\ pc \in {"idle", "loop", "done"}
    /\ pc = "loop" => conn.made
    /\ conn.made => kind.cons # "resolve" /\ dns.addrs # <<>>
    /\ kind.cons = "connect_addr" => conn.made
    /\ n.chain = "second" => conn.made
    /\ n.chain # "second" /\ conn.made => kind.cons = "connect_addr"

\* What the connection that is being made is going to return.
Outcome(a) == IF net[a] = "accept" THEN Ok(<<a>>) ELSE IoError(a)

\* Of the addresses d, t are behind the connector and q ahead of it.
Split(d, t, q) ==
    /\ Len(t) + Len(q) = Len(d)
    /\ \A i \in 1..Len(t) : t[i] = d[i]
    /\ \A i \in 1..Len(q) : q[i] = d[Len(t) + i]

\* TcpConnector: addresses behind it, the one it is at, addresses ahead.
TriesOK ==
    /\ ~conn.made => conn.tried = <<>>
    /\ conn.made => Split(dns.addrs, conn.tried, conn.addrs)
    /\ \A i \in 1..Len(conn.tried) : i < Len(conn.tried) => net[dns.addrs[i]] = "refuse"
    /\ conn.tried = <<>> <=> conn.stream = 0
    /\ conn.stream # 0 => /\ conn.stream = conn.tried[Len(conn.tried)]
                          /\ n.step = Outcome(conn.stream)
                          /\ n.ready["step"] => net[conn.stream] # "silent"

\* What it answered.
DoneOK ==
    pc = "done" =>
        \/ result = ResolverError /\ dns.addrs = <<>>
        \/ result = TimedOut /\ kind.cons # "resolve" /\ n.ready["limit"]
        \/ result = Ok(dns.addrs) /\ kind.cons = "resolve" /\ dns.addrs # <<>>
        \/ \E a \in 1..MaxAddr :
              /\ kind.cons # "resolve" /\ conn.tried # <<>> /\ a = conn.tried[Len(conn.tried)]
              /\ \/ result = Ok(<<a>>) /\ net[a] = "accept"
                 \/ result = IoError(a) /\ net[a] = "refuse" /\ conn.tried = dns.addrs

\* What is still going to be polled has not ended.
FreshOK ==
    /\ n.again = FALSE /\ n.fold = "ready"
    /\ pc # "done" => n.spent \intersect {"step", "limit"} = {}
    /\ pc # "done" /\ ~conn.made => "src" \notin n.spent /\ (conn.known \/ dns.how # "given")

AskOK == NodeOK(n) /\ WorldOK /\ ConnOK /\ StageOK /\ TriesOK /\ FreshOK /\ DoneOK

ConnectInv == Asking => AskOK

-----------------------------------------------------------------------------
(* The leaves. *)

LEMMA PollFacts ==
    ASSUME NEW m, NodeOK(m), NEW l \in Leaf
    PROVE  /\ Alike(Poll(m, l), m) /\ Poll(m, l).chain = m.chain /\ Poll(m, l).spent = m.spent
           /\ m.again = FALSE /\ l \notin m.spent => Poll(m, l).again = FALSE
  BY DEF Poll, Alike, NodeOK, Fields

\* What a poll of the connection returns, and what it leaves.
LEMMA StepPollFacts ==
    ASSUME NodeOK(n), n.again = FALSE, "step" \notin n.spent
    PROVE  LET p == FuturePoll(n, "step") IN
           /\ Alike(p.n, n) /\ p.n.chain = n.chain /\ p.n.again = FALSE
           /\ n.ready["step"] => p.r = n.step
           /\ ~n.ready["step"] => p.r = NotReady /\ p.n.spent = n.spent
  <1>1. "step" \in Leaf
    BY DEF Leaf
  <1>2. Alike(Poll(n, "step"), n) /\ Poll(n, "step").chain = n.chain /\ Poll(n, "step").spent = n.spent
        /\ Poll(n, "step").again = FALSE
    BY <1>1, PollFacts
  <1>3. CASE n.ready["step"]
    BY <1>2, <1>3 DEF FuturePoll, Alike, NodeOK, Fields
  <1>4. CASE ~n.ready["step"]
    BY <1>2, <1>4 DEF FuturePoll
  <1> QED
    BY <1>3, <1>4

\* What Resolver::poll returns.
LEMMA ResolverFacts ==
    ASSUME AskOK, ~conn.made, pc = "idle"
    PROVE  /\ Alike(Resolver.n, n) /\ Resolver.n.chain = n.chain /\ Resolver.n.again = FALSE
           /\ \/ Resolver.r = Ok(dns.addrs) /\ dns.addrs # <<>>
              \/ Resolver.r = ResolverError /\ dns.addrs = <<>>
              \/ Resolver.r = NotReady /\ ~conn.known /\ "src" \notin Resolver.n.spent
           /\ Resolver.n.spent \intersect {"step", "limit"} = {}
  <1>1. NodeOK(n) /\ n.again = FALSE /\ "src" \notin n.spent /\ (conn.known \/ dns.how # "given")
        /\ n.spent \intersect {"step", "limit"} = {} /\ (conn.known => dns.addrs # <<>>) 
        /\ (dns.how = "fails" => dns.addrs = <<>>)
    BY DEF AskOK, FreshOK, WorldOK, ConnOK
  <1>2. CASE conn.known
    <2>1. Resolver = [r |-> Ok(dns.addrs), n |-> n]
      BY <1>2 DEF Resolver
    <2> QED
      BY <1>1, <1>2, <2>1 DEF Alike
  <1>3. CASE ~conn.known
    <2> DEFINE m == [n EXCEPT !.again = @ \/ (dns.how = "given" /\ ~conn.known)]
    <2>1. NodeOK(m) /\ Alike(m, n) /\ m.chain = n.chain /\ m.spent = n.spent
      BY <1>1 DEF NodeOK, Alike, Fields
    <2>2. m.again = FALSE
      BY <1>1, <1>3 DEF NodeOK, Fields
    <2>3. "src" \in Leaf
      BY DEF Leaf
    <2> HIDE DEF m
    <2>4. /\ Alike(Poll(m, "src"), n) /\ Poll(m, "src").chain = n.chain /\ Poll(m, "src").spent = n.spent
          /\ Poll(m, "src").again = FALSE
      BY <1>1, <2>1, <2>2, <2>3, PollFacts DEF Alike
    <2>5. CASE ~n.ready["src"]
      <3>1. Resolver = [r |-> NotReady, n |-> Poll(m, "src")]
        BY <1>3, <2>5 DEF Resolver, m
      <3> QED
        BY <1>1, <1>3, <2>4, <3>1
    <2>6. CASE n.ready["src"]
      <3>1. Resolver = [r |-> IF dns.how = "fails" \/ dns.addrs = <<>> THEN ResolverError ELSE Ok(dns.addrs),
                        n |-> [Poll(m, "src") EXCEPT !.spent = @ \union {"src"}]]
        BY <1>3, <2>6 DEF Resolver, m
      <3>2. Alike(Resolver.n, n) /\ Resolver.n.chain = n.chain /\ Resolver.n.again = FALSE
            /\ Resolver.n.spent = n.spent \union {"src"}
        BY <2>4, <3>1 DEF Alike, NodeOK, Fields
      <3>3. \/ Resolver.r = Ok(dns.addrs) /\ dns.addrs # <<>>
            \/ Resolver.r = ResolverError /\ dns.addrs = <<>>
        BY <1>1, <3>1
      <3> QED
        BY <1>1, <3>2, <3>3
    <2> QED
      BY <2>5, <2>6
  <1> QED
    BY <1>2, <1>3

\* TcpConnector::poll up to its loop.
LEMMA TcpPollFacts ==
    ASSUME NEW m, NodeOK(m), m.again = FALSE, "limit" \notin m.spent, TcpPoll(m)
    PROVE  /\ Alike(n', m) /\ n'.chain = m.chain /\ n'.again = FALSE /\ n'.spent = m.spent
           /\ \/ pc' = "loop" /\ result' = result
              \/ pc' = "done" /\ result' = TimedOut /\ m.ready["limit"]
  <1>1. "limit" \in Leaf
    BY DEF Leaf
  <1>2. CASE m.ready["limit"]
    BY <1>2 DEF TcpPoll, Return, TimedOut, Err, Alike
  <1>3. CASE ~m.ready["limit"]
    BY <1>1, <1>3, PollFacts DEF TcpPoll
  <1> QED
    BY <1>2, <1>3


-----------------------------------------------------------------------------
(* Each operation keeps the invariant. *)

\* Resolve is answered as soon as the name is resolved.
LEMMA ResolveStep ==
    ASSUME AskOK, pc = "idle", kind.cons = "resolve", Return(Resolver), conn' = [conn EXCEPT !.known = FALSE],
           UNCHANGED <<kind, dns, net>>
    PROVE  AskOK'
  <1>1. ~conn.made
    BY DEF AskOK, StageOK
  <1>2. /\ n' = Resolver.n /\ result' = Resolver.r
        /\ pc' = IF Resolver.r.t = "notready" THEN "idle" ELSE "done"
    BY DEF Return
  <1>3. /\ Alike(n', n) /\ n'.chain = n.chain /\ n'.again = FALSE
        /\ \/ result' = Ok(dns.addrs) /\ dns.addrs # <<>>
           \/ result' = ResolverError /\ dns.addrs = <<>>
           \/ result' = NotReady /\ ~conn.known /\ "src" \notin n'.spent
        /\ n'.spent \intersect {"step", "limit"} = {}
    BY <1>1, <1>2, ResolverFacts
  <1>4. /\ conn' \in [known : BOOLEAN, made : BOOLEAN, addrs : Seq(1..MaxAddr), stream : 0..MaxAddr,
                      tried : Seq(1..MaxAddr)]
        /\ ~conn'.known /\ conn'.made = conn.made /\ conn'.addrs = conn.addrs /\ conn'.stream = conn.stream
        /\ conn'.tried = conn.tried
    BY DEF AskOK, ConnOK
  <1>5. pc' = IF result'.t = "notready" THEN "idle" ELSE "done"
    BY <1>2
  <1>6. NodeOK(n) /\ WorldOK /\ ConnOK /\ StageOK /\ TriesOK /\ FreshOK
    BY DEF AskOK
  <1>7. NodeOK(n') /\ n'.ready = n.ready /\ n'.step = n.step /\ n'.fold = n.fold
    BY <1>3 DEF Alike
  <1>8. WorldOK' /\ ConnOK'
    BY <1>4, <1>6, <1>7 DEF WorldOK, ConnOK
  <1>9. StageOK'
    BY <1>1, <1>3, <1>4, <1>5, <1>6 DEF StageOK
  <1>10. TriesOK'
    BY <1>1, <1>4, <1>6, <1>7 DEF TriesOK
  <1>11. pc' # "done" => result' = NotReady /\ ~conn.known
    BY <1>3, <1>5 DEF Ok, ResolverError, Err
  <1>12. FreshOK'
    BY <1>1, <1>3, <1>4, <1>6, <1>7, <1>11 DEF FreshOK, Ok, ResolverError, Err, NotReady
  <1>13. DoneOK'
    BY <1>3, <1>5 DEF DoneOK, NotReady
  <1> QED
    BY <1>7, <1>8, <1>9, <1>10, <1>12, <1>13 DEF AskOK

\* A poll of a TcpConnector that exists: m is n, or what Resolver left of it.
LEMMA TcpPollStep ==
    ASSUME AskOK, pc = "idle", conn.made, TcpPoll(n), UNCHANGED <<kind, dns, net, conn>>
    PROVE  AskOK'
  <1>1. NodeOK(n) /\ WorldOK /\ ConnOK /\ StageOK /\ TriesOK /\ FreshOK
    BY DEF AskOK
  <1>2. /\ Alike(n', n) /\ n'.chain = n.chain /\ n'.again = FALSE /\ n'.spent = n.spent
        /\ \/ pc' = "loop" /\ result' = result
           \/ pc' = "done" /\ result' = TimedOut /\ n.ready["limit"]
    BY <1>1, TcpPollFacts DEF FreshOK
  <1>3. NodeOK(n') /\ n'.ready = n.ready /\ n'.step = n.step /\ n'.fold = n.fold
    BY <1>2 DEF Alike
  <1>4. WorldOK' /\ ConnOK'
    BY <1>1, <1>3 DEF WorldOK, ConnOK
  <1>5. StageOK'
    BY <1>1, <1>2 DEF StageOK
  <1>6. TriesOK'
    BY <1>1, <1>3 DEF TriesOK, Outcome
  <1>7. FreshOK'
    BY <1>1, <1>2, <1>3 DEF FreshOK
  <1>8. DoneOK'
    BY <1>1, <1>2, <1>3 DEF DoneOK, StageOK
  <1> QED
    BY <1>3, <1>4, <1>5, <1>6, <1>7, <1>8 DEF AskOK

\* Connect, until its name is resolved.
LEMMA ConnectStep ==
    ASSUME AskOK, pc = "idle", kind.cons = "connect", n.chain = "first", ConnectFirst,
           UNCHANGED <<kind, dns, net>>
    PROVE  AskOK'
  <1>1. NodeOK(n) /\ WorldOK /\ ConnOK /\ StageOK /\ TriesOK /\ FreshOK
    BY DEF AskOK
  <1>2. ~conn.made
    BY <1>1 DEF StageOK
  <1>3. /\ Alike(Resolver.n, n) /\ Resolver.n.chain = n.chain /\ Resolver.n.again = FALSE
        /\ \/ Resolver.r = Ok(dns.addrs) /\ dns.addrs # <<>>
           \/ Resolver.r = ResolverError /\ dns.addrs = <<>>
           \/ Resolver.r = NotReady /\ ~conn.known /\ "src" \notin Resolver.n.spent
        /\ Resolver.n.spent \intersect {"step", "limit"} = {}
    BY <1>2, ResolverFacts
  <1>4. CASE Resolver.r = Ok(dns.addrs) /\ dns.addrs # <<>>
    <2>1. TcpPoll([Resolver.n EXCEPT !.chain = "second"]) /\ conn' = TcpConnectorNew(dns.addrs)
      BY <1>4 DEF ConnectFirst, Ok
    <2>2. PICK m : m = [Resolver.n EXCEPT !.chain = "second"]
      OBVIOUS
    <2>3. Alike(m, n) /\ NodeOK(m) /\ m.chain = "second" /\ m.again = FALSE /\ m.spent = Resolver.n.spent
      BY <1>3, <2>2 DEF Alike, NodeOK, Fields
    <2>4. /\ Alike(n', m) /\ n'.chain = m.chain /\ n'.again = FALSE /\ n'.spent = m.spent
          /\ \/ pc' = "loop" /\ result' = result
             \/ pc' = "done" /\ result' = TimedOut /\ m.ready["limit"]
      BY <1>3, <2>1, <2>2, <2>3, TcpPollFacts
    <2>5. NodeOK(n') /\ n'.ready = n.ready /\ n'.step = n.step /\ n'.fold = n.fold /\ n'.chain = "second"
      BY <2>3, <2>4 DEF Alike
    <2>6. conn'.known = FALSE /\ conn'.made = TRUE /\ conn'.addrs = dns.addrs /\ conn'.stream = 0
          /\ conn'.tried = <<>>
      BY <2>1 DEF TcpConnectorNew
    <2>7. conn' \in [known : BOOLEAN, made : BOOLEAN, addrs : Seq(1..MaxAddr), stream : 0..MaxAddr,
                     tried : Seq(1..MaxAddr)]
      BY <1>1, <2>1, ConnectorAssumption DEF TcpConnectorNew, WorldOK
    <2>8. WorldOK' /\ ConnOK'
      BY <1>1, <2>5, <2>6, <2>7 DEF WorldOK, ConnOK
    <2>9. StageOK'
      BY <1>1, <1>4, <2>4, <2>5, <2>6 DEF StageOK
    <2>10. TriesOK'
      <3>1. Split(dns.addrs, <<>>, dns.addrs)
        BY <1>1 DEF Split, WorldOK
      <3> QED
        BY <2>6, <3>1 DEF TriesOK
    <2>11. FreshOK'
      BY <1>1, <1>3, <2>3, <2>4, <2>5, <2>6 DEF FreshOK
    <2>12. DoneOK'
      BY <2>3, <2>4, <2>5 DEF DoneOK, Alike
    <2> QED
      BY <2>5, <2>8, <2>9, <2>10, <2>11, <2>12 DEF AskOK
  <1>5. CASE Resolver.r # Ok(dns.addrs)
    <2>1. Resolver.r.t \in {"err", "notready"}
      BY <1>3, <1>5 DEF ResolverError, Err, NotReady
    <2>2. Return([Resolver EXCEPT !.n.chain = IF Resolver.r.t = "err" THEN "done" ELSE @]) /\ UNCHANGED conn
      BY <2>1 DEF ConnectFirst
    <2>3. DOMAIN Resolver = {"r", "n"}
      BY DEF Resolver
    <2>4. /\ n' = [Resolver.n EXCEPT !.chain = IF Resolver.r.t = "err" THEN "done" ELSE @]
          /\ result' = Resolver.r
          /\ pc' = IF Resolver.r.t = "notready" THEN "idle" ELSE "done"
      BY <2>2, <2>3 DEF Return
    <2>5. /\ NodeOK(n') /\ n'.ready = n.ready /\ n'.step = n.step /\ n'.fold = n.fold /\ n'.again = FALSE
          /\ n'.spent = Resolver.n.spent /\ n'.chain # "second"
      BY <1>3, <2>4 DEF Alike, NodeOK, Fields
    <2>6. WorldOK' /\ ConnOK'
      BY <1>1, <2>2, <2>5 DEF WorldOK, ConnOK
    <2>7. StageOK'
      BY <1>1, <1>2, <2>2, <2>4, <2>5 DEF StageOK
    <2>8. TriesOK'
      BY <1>1, <1>2, <2>2, <2>5 DEF TriesOK
    <2>9. pc' # "done" => Resolver.r = NotReady
      BY <1>3, <2>4, <1>5 DEF ResolverError, Err
    <2>10. FreshOK'
      <3>1. pc' # "done" => ~conn.known /\ "src" \notin n'.spent
        BY <1>3, <1>5, <2>5, <2>9 DEF ResolverError, Err, NotReady
      <3> QED
        BY <1>1, <1>2, <1>3, <2>2, <2>5, <3>1 DEF FreshOK
    <2>11. DoneOK'
      BY <1>3, <1>5, <2>4 DEF DoneOK, NotReady
    <2> QED
      BY <2>5, <2>6, <2>7, <2>8, <2>10, <2>11 DEF AskOK
  <1> QED
    BY <1>3, <1>4, <1>5 DEF Ok, ResolverError, Err, NotReady


\* One address more, a, is behind the connector.
Advanced(S, d, t, q, a) ==
    /\ a \in S /\ Append(t, a) \in Seq(S) /\ Tail(q) \in Seq(S)
    /\ Len(t) \in Nat /\ Len(Append(t, a)) = Len(t) + 1 /\ Append(t, a) # <<>>
    /\ Append(t, a)[Len(t) + 1] = a
    /\ Split(d, Append(t, a), Tail(q))

LEMMA NextTry ==
    ASSUME NEW S, NEW d \in Seq(S), NEW t \in Seq(S), NEW q \in Seq(S), q # <<>>, Split(d, t, q),
           NEW a, a = Head(q)
    PROVE  Advanced(S, d, t, q, a)
  <1>1. Len(q) \in Nat /\ Len(q) # 0 /\ Len(t) \in Nat
    OBVIOUS
  <1>2. Len(q) > 0
    BY <1>1
  <1>3. Head(q) \in S /\ Head(q) = q[1] /\ Tail(q) \in Seq(S) /\ Len(Tail(q)) = Len(q) - 1
        /\ \A i \in 1..(Len(q) - 1) : Tail(q)[i] = q[i + 1]
    BY <1>2
  <1>4. /\ Len(t) + Len(q) = Len(d) /\ \A i \in 1..Len(t) : t[i] = d[i]
        /\ \A i \in 1..Len(q) : q[i] = d[Len(t) + i]
    BY DEF Split
  <1>5. a \in S /\ a = q[1]
    BY <1>3
  <1>6. Append(t, a) \in Seq(S) /\ Len(Append(t, a)) = Len(t) + 1 /\ Append(t, a)[Len(t) + 1] = a
        /\ \A i \in 1..Len(t) : Append(t, a)[i] = t[i]
    BY <1>5
  <1>7. a = d[Len(t) + 1]
    BY <1>1, <1>2, <1>4, <1>5
  <1>8. Append(t, a) # <<>> /\ Len(Append(t, a)) + Len(Tail(q)) = Len(d)
    <2>1. Len(Append(t, a)) # 0
      BY <1>1, <1>6
    <2> QED
      BY <1>1, <1>3, <1>4, <1>6, <2>1
  <1>9. \A i \in 1..Len(Append(t, a)) : Append(t, a)[i] = d[i]
    BY <1>1, <1>4, <1>6, <1>7
  <1>10. \A i \in 1..Len(Tail(q)) : Tail(q)[i] = d[Len(Append(t, a)) + i]
    <2> SUFFICES ASSUME NEW i \in 1..(Len(q) - 1) PROVE q[i + 1] = d[(Len(t) + 1) + i]
      BY <1>3, <1>6
    <2>1. i + 1 \in 1..Len(q) /\ (Len(t) + 1) + i = Len(t) + (i + 1)
      BY <1>1
    <2> QED
      BY <1>4, <2>1
  <1>11. Split(d, Append(t, a), Tail(q))
    BY <1>8, <1>9, <1>10 DEF Split
  <1> QED
    BY <1>1, <1>3, <1>5, <1>6, <1>8, <1>11 DEF Advanced

\* The next address is tried once the one before it has refused.
LEMMA TcpConnectStep ==
    ASSUME AskOK, pc = "loop", conn.stream = 0 \/ (net[conn.stream] = "refuse" /\ conn.addrs # <<>>),
           TcpConnect, UNCHANGED <<kind, dns, net>>
    PROVE  AskOK'
  <1>1. NodeOK(n) /\ WorldOK /\ ConnOK /\ StageOK /\ TriesOK /\ FreshOK
    BY DEF AskOK
  <1>2. conn.made /\ dns.addrs # <<>>
    BY <1>1 DEF StageOK
  <1>3. conn.addrs \in Seq(1..MaxAddr) /\ conn.tried \in Seq(1..MaxAddr) /\ dns.addrs \in Seq(1..MaxAddr)
    BY <1>1 DEF ConnOK, WorldOK
  <1>4. conn.addrs # <<>>
    <2>1. conn.stream = 0 => Len(conn.tried) = 0
      BY <1>1 DEF TriesOK
    <2>2. Len(dns.addrs) # 0 /\ Len(conn.addrs) \in Nat
      BY <1>2, <1>3
    <2>3. Len(conn.tried) + Len(conn.addrs) = Len(dns.addrs)
      BY <1>1, <1>2 DEF TriesOK, Split
    <2>4. conn.stream = 0 => Len(conn.addrs) # 0
      <3> SUFFICES ASSUME conn.stream = 0, Len(conn.addrs) = 0 PROVE Len(dns.addrs) = 0
        BY <2>2
      <3>1. Len(conn.tried) = 0
        BY <2>1
      <3>2. Len(dns.addrs) = Len(conn.tried) + Len(conn.addrs)
        BY <2>3
      <3>3. Len(dns.addrs) = 0 + 0
        BY <3>1, <3>2, Zenon
      <3> QED
        BY <3>3
    <2>5. conn.stream = 0 => conn.addrs # <<>>
      BY <2>4
    <2> QED
      BY <2>5
  <1>5. PICK a : a = Head(conn.addrs)
    OBVIOUS
  <1>6. Split(dns.addrs, conn.tried, conn.addrs)
    BY <1>1, <1>2 DEF TriesOK
  <1>7. /\ a \in 1..MaxAddr /\ Append(conn.tried, a) \in Seq(1..MaxAddr) /\ Tail(conn.addrs) \in Seq(1..MaxAddr)
        /\ Len(conn.tried) \in Nat /\ Len(Append(conn.tried, a)) = Len(conn.tried) + 1
        /\ Append(conn.tried, a) # <<>> /\ Append(conn.tried, a)[Len(conn.tried) + 1] = a
        /\ Split(dns.addrs, Append(conn.tried, a), Tail(conn.addrs))
    <2>1. Advanced(1..MaxAddr, dns.addrs, conn.tried, conn.addrs, a)
      BY <1>3, <1>4, <1>5, <1>6, NextTry
    <2> QED
      BY <2>1 DEF Advanced
  <1>8. PICK ready \in {FALSE, net[a] # "silent"} :
           /\ conn' = [conn EXCEPT !.addrs = Tail(@), !.stream = a, !.tried = Append(@, a)]
           /\ n' = [Spawned(n, "step", Outcome(a)) EXCEPT !.ready["step"] = ready]
           /\ UNCHANGED <<pc, waiting, result>>
    BY <1>4, <1>5 DEF TcpConnect, Outcome
  <1>9. conn'.known = conn.known /\ conn'.made = conn.made /\ conn'.addrs = Tail(conn.addrs)
        /\ conn'.stream = a /\ conn'.tried = Append(conn.tried, a)
        /\ conn' \in [known : BOOLEAN, made : BOOLEAN, addrs : Seq(1..MaxAddr), stream : 0..MaxAddr,
                      tried : Seq(1..MaxAddr)]
    <2>1. conn \in [known : BOOLEAN, made : BOOLEAN, addrs : Seq(1..MaxAddr), stream : 0..MaxAddr,
                    tried : Seq(1..MaxAddr)]
      BY <1>1 DEF ConnOK
    <2>2. a \in 0..MaxAddr
      BY <1>7
    <2>3. PICK q : q = Tail(conn.addrs) /\ q \in Seq(1..MaxAddr)
      BY <1>7
    <2>4. PICK t : t = Append(conn.tried, a) /\ t \in Seq(1..MaxAddr)
      BY <1>7
    <2>5. conn' = [conn EXCEPT !.addrs = q, !.stream = a, !.tried = t]
      BY <1>8, <2>1, <2>3, <2>4
    <2> QED
      BY <2>1, <2>2, <2>3, <2>4, <2>5
  <1>10. ready \in BOOLEAN /\ (ready => net[a] # "silent")
    BY <1>8
  <1>11. /\ NodeOK(n') /\ n'.step = Outcome(a) /\ n'.chain = n.chain /\ n'.fold = n.fold /\ n'.again = n.again
         /\ n'.spent = n.spent \ {"step"} /\ n'.ready = [n.ready EXCEPT !["step"] = ready]
    <2>1. PICK b : b = Instant(Outcome(a).v)
      OBVIOUS
    <2>2. n' = [[n EXCEPT !["step"] = Outcome(a), !.ready["step"] = b, !.spent = @ \ {"step"}, !.reg = @ \ {"step"}]
                   EXCEPT !.ready["step"] = ready]
      BY <1>8, <2>1 DEF Spawned
    <2>3. DOMAIN n = Fields /\ n.ready \in [Leaf -> BOOLEAN]
      BY <1>1 DEF NodeOK
    <2>4. n'.ready = [[n.ready EXCEPT !["step"] = b] EXCEPT !["step"] = ready]
      BY <2>2, <2>3 DEF Fields
    <2>5. n'.ready = [n.ready EXCEPT !["step"] = ready]
      BY <2>3, <2>4
    <2>6. n'.ready \in [Leaf -> BOOLEAN]
      BY <1>10, <2>3, <2>5
    <2>7. DOMAIN n' = Fields
      BY <2>2, <2>3
    <2>8. n'.step = Outcome(a) /\ n'.chain = n.chain /\ n'.fold = n.fold /\ n'.again = n.again
          /\ n'.spent = n.spent \ {"step"}
      BY <2>2, <2>3 DEF Fields
    <2> QED
      BY <2>5, <2>6, <2>7, <2>8 DEF NodeOK
  <1>12. n'.ready["src"] = n.ready["src"] /\ n'.ready["step"] = ready
    BY <1>1, <1>11 DEF NodeOK, Leaf
  <1>13. WorldOK' /\ ConnOK'
    BY <1>1, <1>9, <1>12 DEF WorldOK, ConnOK
  <1>14. StageOK'
    BY <1>1, <1>8, <1>9, <1>11 DEF StageOK
  <1>15. FreshOK'
    BY <1>1, <1>2, <1>8, <1>9, <1>11 DEF FreshOK
  <1>16. DoneOK'
    BY <1>8 DEF DoneOK
  <1>17. TriesOK'
    <2>1. \A i \in 1..Len(conn.tried) : net[dns.addrs[i]] = "refuse"
      <3> SUFFICES ASSUME NEW i \in 1..Len(conn.tried) PROVE net[dns.addrs[i]] = "refuse"
        OBVIOUS
      <3>1. CASE i < Len(conn.tried)
        BY <1>1, <3>1 DEF TriesOK
      <3>2. CASE i = Len(conn.tried)
        <4>1. conn.tried # <<>>
          BY <1>3
        <4>2. conn.stream # 0 /\ conn.stream = conn.tried[Len(conn.tried)]
          BY <1>1, <4>1 DEF TriesOK
        <4> QED
          BY <1>6, <3>2, <4>2 DEF Split
      <3> QED
        BY <1>7, <3>1, <3>2
    <2>2. \A i \in 1..Len(conn'.tried) : i < Len(conn'.tried) => net[dns.addrs[i]] = "refuse"
      <3>1. PICK k \in Nat : k = Len(conn.tried) /\ Len(conn'.tried) = k + 1
        BY <1>7, <1>9
      <3>2. \A i \in 1..(k + 1) : i < k + 1 => i \in 1..k
        BY <3>1
      <3> QED
        BY <2>1, <3>1, <3>2
    <2>3. conn'.tried # <<>> /\ conn'.stream # 0 /\ conn'.stream = conn'.tried[Len(conn'.tried)]
      BY <1>7, <1>9
    <2>4. Outcome(conn.stream)' = Outcome(a)
      BY <1>9 DEF Outcome
    <2>5. n'.step = Outcome(conn.stream)' /\ (n'.ready["step"] => net[conn'.stream] # "silent")
      BY <1>9, <1>10, <1>11, <1>12, <2>4
    <2>6. Split(dns'.addrs, conn'.tried, conn'.addrs)
      BY <1>7, <1>9
    <2>7. conn'.made /\ net' = net /\ dns' = dns
      BY <1>2, <1>9
    <2> QED
      BY <2>2, <2>3, <2>5, <2>6, <2>7 DEF TriesOK
  <1> QED
    BY <1>11, <1>13, <1>14, <1>15, <1>16, <1>17 DEF AskOK


\* TcpConnector::poll returns what the connection returned.
LEMMA TcpReturnStep ==
    ASSUME AskOK, pc = "loop", conn.stream # 0, Return(FuturePoll(n, "step")),
           FuturePoll(n, "step").r.t # "err" \/ conn.addrs = <<>>, UNCHANGED <<kind, dns, net, conn>>
    PROVE  AskOK'
  <1>1. NodeOK(n) /\ WorldOK /\ ConnOK /\ StageOK /\ TriesOK /\ FreshOK
    BY DEF AskOK
  <1>2. conn.made /\ kind.cons # "resolve"
    BY <1>1 DEF StageOK
  <1>3. PICK p : p = FuturePoll(n, "step")
    OBVIOUS
  <1>4. /\ Alike(p.n, n) /\ p.n.chain = n.chain /\ p.n.again = FALSE
        /\ n.ready["step"] => p.r = n.step
        /\ ~n.ready["step"] => p.r = NotReady /\ p.n.spent = n.spent
    BY <1>1, <1>3, StepPollFacts DEF FreshOK
  <1>5. n' = p.n /\ result' = p.r /\ pc' = IF p.r.t = "notready" THEN "idle" ELSE "done"
    BY <1>3 DEF Return
  <1>6. NodeOK(n') /\ n'.ready = n.ready /\ n'.step = n.step /\ n'.fold = n.fold /\ n'.chain = n.chain
    BY <1>4, <1>5 DEF Alike
  <1>7. n.ready["step"] \in BOOLEAN
    BY <1>1 DEF NodeOK, Leaf
  <1>8. WorldOK' /\ ConnOK'
    BY <1>1, <1>6 DEF WorldOK, ConnOK
  <1>9. StageOK'
    BY <1>1, <1>2, <1>5, <1>6 DEF StageOK
  <1>10. TriesOK'
    BY <1>1, <1>2, <1>6 DEF TriesOK, Outcome
  <1>11. Outcome(conn.stream).t \in {"ok", "err"}
    BY DEF Outcome, Ok, IoError, Err
  <1>12. pc' # "done" => ~n.ready["step"]
    BY <1>1, <1>4, <1>5, <1>11 DEF TriesOK
  <1>13. FreshOK'
    BY <1>1, <1>2, <1>4, <1>5, <1>6, <1>12 DEF FreshOK
  <1>14. DoneOK'
    <2> SUFFICES ASSUME pc' = "done"
                 PROVE  \E a \in 1..MaxAddr :
                          /\ kind.cons # "resolve" /\ conn.tried # <<>> /\ a = conn.tried[Len(conn.tried)]
                          /\ \/ result' = Ok(<<a>>) /\ net[a] = "accept"
                             \/ result' = IoError(a) /\ net[a] = "refuse" /\ conn.tried = dns.addrs
      BY DEF DoneOK
    <2>1. n.ready["step"]
      BY <1>4, <1>5, <1>7 DEF NotReady
    <2>2. result' = Outcome(conn.stream) /\ net[conn.stream] # "silent"
      BY <1>1, <1>4, <1>5, <2>1 DEF TriesOK
    <2>3. conn.stream \in 1..MaxAddr /\ net[conn.stream] \in Answers
      BY <1>1, ConnectorAssumption DEF ConnOK, WorldOK
    <2>4. conn.tried # <<>> /\ conn.stream = conn.tried[Len(conn.tried)]
      BY <1>1 DEF TriesOK
    <2>5. CASE net[conn.stream] = "accept"
      BY <1>2, <2>2, <2>3, <2>4, <2>5 DEF Outcome
    <2>6. CASE net[conn.stream] = "refuse"
      <3>1. result' = IoError(conn.stream)
        BY <2>2, <2>6 DEF Outcome
      <3>2. conn.addrs = <<>>
        BY <1>3, <1>5, <3>1 DEF IoError, Err
      <3>3. conn.tried \in Seq(1..MaxAddr) /\ dns.addrs \in Seq(1..MaxAddr)
        BY <1>1 DEF ConnOK, WorldOK
      <3>4. Split(dns.addrs, conn.tried, conn.addrs)
        BY <1>1, <1>2 DEF TriesOK
      <3>5. Len(conn.addrs) = 0
        BY <3>2
      <3>6. Len(conn.tried) = Len(dns.addrs) /\ \A i \in 1..Len(conn.tried) : conn.tried[i] = dns.addrs[i]
        BY <3>3, <3>4, <3>5 DEF Split
      <3>7. conn.tried = dns.addrs
        BY <3>3, <3>6
      <3> QED
        BY <1>2, <2>3, <2>4, <2>6, <3>1, <3>7
    <2> QED
      BY <2>2, <2>3, <2>5, <2>6 DEF Answers
  <1> QED
    BY <1>6, <1>8, <1>9, <1>10, <1>13, <1>14 DEF AskOK

LEMMA TcpConnectorStep ==
    ASSUME AskOK, TcpConnector
    PROVE  AskOK'
  <1>1. NodeOK(n) /\ WorldOK /\ ConnOK /\ StageOK /\ TriesOK /\ FreshOK
    BY DEF AskOK
  <1>2. pc = "loop" /\ UNCHANGED <<kind, dns, net>>
    BY DEF TcpConnector
  <1>3. CASE conn.stream = 0
    BY <1>2, <1>3, TcpConnectStep DEF TcpConnector
  <1>4. CASE conn.stream # 0 /\ FuturePoll(n, "step").r.t = "err" /\ conn.addrs # <<>>
    <2>1. TcpConnect
      BY <1>4 DEF TcpConnector
    <2>2. /\ n.ready["step"] => FuturePoll(n, "step").r = n.step
          /\ ~n.ready["step"] => FuturePoll(n, "step").r = NotReady
      BY <1>1, <1>2, StepPollFacts DEF FreshOK
    <2>3. n.ready["step"] /\ FuturePoll(n, "step").r = n.step
      BY <1>4, <2>2 DEF NotReady
    <2>4. Outcome(conn.stream).t = "err" /\ net[conn.stream] # "silent"
      BY <1>1, <1>4, <2>3 DEF TriesOK
    <2>5. net[conn.stream] \in Answers
      BY <1>1, <1>4, ConnectorAssumption DEF ConnOK, WorldOK
    <2>6. net[conn.stream] = "refuse"
      BY <2>4, <2>5 DEF Outcome, Ok, Answers
    <2> QED
      BY <1>2, <1>4, <2>1, <2>6, TcpConnectStep
  <1>5. CASE conn.stream # 0 /\ (FuturePoll(n, "step").r.t # "err" \/ conn.addrs = <<>>)
    <2>1. Return(FuturePoll(n, "step")) /\ UNCHANGED conn
      BY <1>5 DEF TcpConnector
    <2> QED
      BY <1>2, <1>5, <2>1, TcpReturnStep
  <1> QED
    BY <1>3, <1>4, <1>5

\* The lookup, the timer or the address that is being tried answers.
LEMMA AnswerStep ==
    ASSUME AskOK, NEW l \in Leaf, Answer(l)
    PROVE  AskOK'
  <1>1. NodeOK(n) /\ WorldOK /\ ConnOK /\ StageOK /\ TriesOK /\ FreshOK
    BY DEF AskOK
  <1>2. /\ pc # "done" /\ UNCHANGED <<kind, pc, result, dns, net, conn>>
        /\ n' = [n EXCEPT !.ready[l] = TRUE, !.reg = @ \ {l}, !.fires = IF l = "dur" THEN @ + 1 ELSE @]
        /\ l = "src" => dns.how # "given"
        /\ l = "step" => conn.stream # 0 /\ net[conn.stream] # "silent"
    BY DEF Answer, Occur, connVars
  <1>3. /\ DOMAIN n' = Fields /\ n'.ready = [n.ready EXCEPT ![l] = TRUE] /\ n'.step = n.step /\ n'.chain = n.chain
        /\ n'.fold = n.fold /\ n'.again = n.again /\ n'.spent = n.spent
    BY <1>1, <1>2 DEF NodeOK, Fields
  <1>4. n'.ready \in [Leaf -> BOOLEAN]
    BY <1>1, <1>3 DEF NodeOK
  <1>5. /\ n'.ready["src"] => n.ready["src"] \/ l = "src"
        /\ n'.ready["step"] => n.ready["step"] \/ l = "step"
    BY <1>1, <1>3 DEF NodeOK, Leaf
  <1>6. NodeOK(n')
    BY <1>3, <1>4 DEF NodeOK
  <1>7. WorldOK' /\ ConnOK'
    BY <1>1, <1>2, <1>5 DEF WorldOK, ConnOK
  <1>8. StageOK'
    BY <1>1, <1>2, <1>3 DEF StageOK
  <1>9. TriesOK'
    BY <1>1, <1>2, <1>3, <1>5 DEF TriesOK, Outcome
  <1>10. FreshOK' /\ DoneOK'
    BY <1>1, <1>2, <1>3 DEF FreshOK, DoneOK
  <1> QED
    BY <1>6, <1>7, <1>8, <1>9, <1>10 DEF AskOK

LEMMA PollAskedStep ==
    ASSUME AskOK, PollAsked
    PROVE  AskOK'
  <1>1. pc = "idle" /\ UNCHANGED <<kind, dns, net>>
    BY DEF PollAsked
  <1>2. CASE kind.cons = "resolve" /\ Return(Resolver) /\ conn' = [conn EXCEPT !.known = FALSE]
    BY <1>1, <1>2, ResolveStep
  <1>3. CASE kind.cons = "connect" /\ n.chain = "first" /\ ConnectFirst
    BY <1>1, <1>3, ConnectStep
  <1>4. CASE (kind.cons = "connect_addr" \/ n.chain = "second") /\ TcpPoll(n) /\ UNCHANGED conn
    <2>1. conn.made
      BY <1>4 DEF AskOK, StageOK
    <2> QED
      BY <1>1, <1>4, <2>1, TcpPollStep
  <1> QED
    BY <1>2, <1>3, <1>4 DEF PollAsked


-----------------------------------------------------------------------------
(* The specification keeps it. *)

LEMMA NamesFacts ==
    ASSUME NEW c, NEW d \in Names(c)
    PROVE  /\ d.addrs \in Seq(1..MaxAddr)
           /\ d.how \in {"given", "found", "fails"}
           /\ d.how = "given" => d.addrs # <<>>
           /\ d.how = "fails" => d.addrs = <<>>
           /\ c = "connect_addr" => d.how = "given"
  <1>1. 1 \in 1..MaxAddr
    BY ConnectorAssumption
  <1>2. CASE d = [how |-> "given", addrs |-> <<1>>]
    BY <1>1, <1>2
  <1>3. CASE c # "connect_addr" /\ d = [how |-> "fails", addrs |-> <<>>]
    BY <1>3
  <1>4. CASE c # "connect_addr" /\ \E k \in 0..MaxAddr : d = [how |-> "found", addrs |-> [i \in 1..k |-> i]]
    <2>1. PICK k \in 0..MaxAddr : d = [how |-> "found", addrs |-> [i \in 1..k |-> i]]
      BY <1>4
    <2>2. k \in Nat /\ \A i \in 1..k : i \in 1..MaxAddr
      BY ConnectorAssumption
    <2>3. [i \in 1..k |-> i] \in Seq(1..MaxAddr)
      BY <2>2
    <2> QED
      BY <1>4, <2>1, <2>3
  <1> QED
    BY <1>2, <1>3, <1>4 DEF Names

LEMMA ConnectInit == InitAll => ConnectInv
  <1> SUFFICES ASSUME InitAll, Asking PROVE AskOK
    BY DEF ConnectInv
  <1>1. ~Init
    <2> SUFFICES ASSUME Init PROVE FALSE
      OBVIOUS
    <2>1. kind \in Kinds
      BY DEF Init, Fresh
    <2>2. kind.cons \in Consumers \union StreamItems \union Notices
      BY <2>1 DEF Kinds, StreamKinds, NoticeKinds, Items
    <2>3. kind.cons \in {"fold", "finish", "stream", "continue", "messages", "notify", "notify_later", "run_later"}
      BY <2>2, KindAssumption
    <2>4. kind.cons \in {"resolve", "connect", "connect_addr"}
      BY ConnectorAssumption DEF Asking
    <2> QED
      BY <2>3, <2>4
  <1>2. PICK c \in Asked :
          /\ Fresh([lower |-> "none", upper |-> "none", cons |-> c, top |-> "none"], {<<>>})
          /\ dns \in Names(c)
          /\ net \in [1..MaxAddr -> {"accept", "refuse", "silent"}]
          /\ conn = IF c = "connect_addr" THEN TcpConnectorNew(dns.addrs) ELSE ResolverNew(dns)
    BY <1>1 DEF InitAll
  <1>3. kind.cons = c /\ pc = "idle" /\ c \in {"resolve", "connect", "connect_addr"}
    BY <1>2, ConnectorAssumption DEF Fresh
  <1>4. /\ DOMAIN n = Fields /\ n.ready = [l \in Leaf |-> FALSE] /\ n.chain = "first" /\ n.again = FALSE
        /\ n.fold = "ready" /\ n.spent = {}
    BY <1>2 DEF Fresh, Fields
  <1>5. NodeOK(n)
    BY <1>4 DEF NodeOK
  <1>6. WorldOK /\ (c = "connect_addr" => dns.how = "given")
    BY <1>2, NamesFacts DEF WorldOK, Answers
  <1>7. ~n.ready["src"] /\ ~n.ready["step"]
    BY <1>4 DEF Leaf
  <1>8. 0 \in 0..MaxAddr
    BY ConnectorAssumption
  <1>9. CASE c = "connect_addr"
    <2>1. /\ conn = TcpConnectorNew(dns.addrs) /\ dns.addrs # <<>> /\ dns.addrs \in Seq(1..MaxAddr)
      BY <1>2, <1>6, <1>9 DEF WorldOK
    <2>2. /\ conn.known = FALSE /\ conn.made = TRUE /\ conn.addrs = dns.addrs /\ conn.stream = 0 /\ conn.tried = <<>>
      BY <2>1 DEF TcpConnectorNew
    <2>3. conn \in [known : BOOLEAN, made : BOOLEAN, addrs : Seq(1..MaxAddr), stream : 0..MaxAddr,
                    tried : Seq(1..MaxAddr)]
      BY <1>8, <2>1 DEF TcpConnectorNew
    <2>4. ConnOK /\ StageOK /\ FreshOK /\ DoneOK
      BY <1>3, <1>4, <1>7, <1>9, <2>1, <2>2, <2>3 DEF ConnOK, StageOK, FreshOK, DoneOK
    <2>5. Split(dns.addrs, <<>>, dns.addrs)
      BY <2>1 DEF Split
    <2>6. TriesOK
      BY <2>2, <2>5 DEF TriesOK
    <2> QED
      BY <1>5, <1>6, <2>4, <2>6 DEF AskOK
  <1>10. CASE c # "connect_addr"
    <2>1. conn = ResolverNew(dns)
      BY <1>2, <1>10
    <2>2. conn.known = (dns.how = "given") /\ conn.made = FALSE /\ conn.stream = 0 /\ conn.tried = <<>>
      BY <2>1 DEF ResolverNew
    <2>3. conn \in [known : BOOLEAN, made : BOOLEAN, addrs : Seq(1..MaxAddr), stream : 0..MaxAddr,
                    tried : Seq(1..MaxAddr)]
      BY <1>8, <2>1 DEF ResolverNew
    <2>4. ConnOK /\ StageOK /\ FreshOK /\ DoneOK
      BY <1>3, <1>4, <1>7, <1>10, <2>2, <2>3 DEF ConnOK, StageOK, FreshOK, DoneOK
    <2>5. TriesOK
      BY <2>2 DEF TriesOK
    <2> QED
      BY <1>5, <1>6, <2>4, <2>5 DEF AskOK
  <1> QED
    BY <1>9, <1>10

LEMMA KindIsKept == [NextAll]_allVars => kind' = kind
  BY DEF NextAll, allVars, vars, Next, PollItem, Turn, WaitDone, Happen, Occur, PollAsked, TcpConnector, Answer

LEMMA ConnectNext == ConnectInv /\ [NextAll]_allVars => ConnectInv'
  <1> SUFFICES ASSUME ConnectInv, [NextAll]_allVars, Asking' PROVE AskOK'
    BY DEF ConnectInv
  <1>1. Asking /\ AskOK
    BY KindIsKept DEF Asking, ConnectInv
  <1>2. CASE UNCHANGED allVars
    BY <1>1, <1>2 DEF allVars, vars, connVars, AskOK, NodeOK, WorldOK, ConnOK, StageOK, TriesOK, FreshOK, DoneOK, Outcome
  <1>3. CASE PollAsked
    BY <1>1, <1>3, PollAskedStep
  <1>4. CASE TcpConnector
    BY <1>1, <1>4, TcpConnectorStep
  <1>5. CASE \E l \in Leaf : Answer(l)
    BY <1>1, <1>5, AnswerStep
  <1> QED
    BY <1>1, <1>2, <1>3, <1>4, <1>5 DEF NextAll

\* actors/resolver.rs: whatever the order in which the lookup, the timer and
\* the addresses answer, and however many addresses there are, the connector
\* tries them in order and answers with the first that accepts, an I/O error
\* when all refused, a resolver error when there are none, or a timeout.
THEOREM ConnectorAnswers == SpecAll => []ConnectOutcome
  <1>1. ConnectInv => ConnectOutcome
    <2> SUFFICES ASSUME ConnectInv, Asking PROVE ConnectOutcome
      BY DEF ConnectOutcome
    <2>1. WorldOK /\ ConnOK /\ TriesOK /\ DoneOK
      BY DEF ConnectInv, AskOK
    <2>2. conn.tried \in Seq(1..MaxAddr) /\ dns.addrs \in Seq(1..MaxAddr)
      BY <2>1 DEF ConnOK, WorldOK
    <2>3. DOMAIN conn.tried = 1..Len(conn.tried)
      BY <2>2
    <2>4. CASE conn.made
      <3>1. conn.addrs \in Seq(1..MaxAddr)
        BY <2>1 DEF ConnOK
      <3>2. Len(conn.tried) \in Nat /\ Len(conn.addrs) \in Nat /\ Len(dns.addrs) \in Nat
        BY <2>2, <3>1
      <3>3. Len(conn.tried) + Len(conn.addrs) = Len(dns.addrs)
            /\ \A i \in 1..Len(conn.tried) : conn.tried[i] = dns.addrs[i]
        BY <2>1, <2>4 DEF TriesOK, Split
      <3>4. Len(conn.tried) <= Len(dns.addrs)
        <4>1. \A i, j, k \in Nat : i + j = k => i <= k
          OBVIOUS
        <4> QED
          BY <3>2, <3>3, <4>1
      <3> QED
        <4>1. \A i \in DOMAIN conn.tried :
                conn.tried[i] = dns.addrs[i] /\ (i < Len(conn.tried) => net[dns.addrs[i]] = "refuse")
          BY <2>1, <2>3, <3>3 DEF TriesOK
        <4> QED
          BY <2>1, <3>4, <4>1 DEF ConnectOutcome, DoneOK
    <2>5. CASE ~conn.made
      <3>1. conn.tried = <<>>
        BY <2>1, <2>5 DEF TriesOK
      <3>2. Len(conn.tried) = 0 /\ Len(dns.addrs) \in Nat
        BY <2>2, <3>1
      <3>3. DOMAIN conn.tried = {}
        BY <2>3, <3>2
      <3> QED
        BY <2>1, <3>2, <3>3 DEF ConnectOutcome, DoneOK
    <2> QED
      BY <2>4, <2>5
  <1> QED
    BY <1>1, ConnectInit, ConnectNext, PTL DEF SpecAll


-----------------------------------------------------------------------------
(* No future is polled after its end.  The combinators of fut/ mark what     *)
(* has ended ("spent"): the invariant says that what is still going to be    *)
(* polled is not marked.                                                     *)

\* An outcome that ends a future.
Ended(r) == DOMAIN r = {"t", "v"} /\ r.t \in {"ok", "err"}

\* The stream below the consumer can be polled, but for its source.
FutOK(m) ==
    /\ NodeOK(m) /\ m.again = FALSE /\ m.left \in Seq(Elements)
    /\ "dur" \notin m.spent /\ "limit" \notin m.spent
    /\ m.work # NoFut => Ended(m.work) /\ "work" \notin m.spent

\* A poll of the stream leaves the futures above it alone.
Above(m, o) ==
    /\ m.fold = o.fold /\ m.step = o.step /\ m.second = o.second /\ m.chain = o.chain /\ m.f = o.f
Kept(m, o) ==
    /\ Above(m, o)
    /\ \A l \in {"step", "second"} : l \in m.spent <=> l \in o.spent

\* What a poll of a stream in state m returns: only its end uses up the source.
StreamPoll(p, m) ==
    /\ DOMAIN p = {"r", "n"} /\ DOMAIN p.r = {"t", "v"}
    /\ p.r.t \in {"ok", "err", "end", "notready"}
    /\ FutOK(p.n) /\ Kept(p.n, m)
    /\ p.r.t # "end" => "src" \notin p.n.spent

\* The consumer has not ended.
Running(m) ==
    /\ FutOK(m) /\ m.f = TRUE /\ m.chain = "first" /\ "src" \notin m.spent
    /\ m.fold \in {"ready", "processing"}
    /\ m.fold = "processing" => Ended(m.step) /\ "step" \notin m.spent
    /\ kind.cons \in Notices => m.left # <<>>

\* It has, and the second future of a chain has not.
InSecond(m) ==
    /\ FutOK(m) /\ m.chain = "second" /\ Ended(m.second) /\ "second" \notin m.spent
    /\ kind.cons \in Consumers /\ kind.top \in {"and_then", "then"}

FutureOK ==
    /\ kind \in Kinds
    /\ pc \in {"idle", "loop", "done"} /\ n.again = FALSE
    /\ pc = "loop" => Running(n)
    /\ pc = "idle" => Running(n) \/ InSecond(n)

FutureInv == ~Asking => FutureOK

LEMMA PollLeaf ==
    ASSUME NEW m, FutOK(m), NEW l \in Leaf, l \notin m.spent
    PROVE  /\ FutOK(Poll(m, l)) /\ Kept(Poll(m, l), m) /\ Poll(m, l).spent = m.spent /\ Poll(m, l).ready = m.ready
           /\ Poll(m, l).left = m.left /\ Poll(m, l).work = m.work
  BY DEF Poll, FutOK, Kept, Above, NodeOK, Fields

LEMMA HeadTail ==
    ASSUME NEW S, NEW q \in Seq(S), q # <<>>
    PROVE  Head(q) \in S /\ Tail(q) \in Seq(S)
  <1>1. Len(q) \in Nat /\ Len(q) # 0
    OBVIOUS
  <1>2. Len(q) > 0
    BY <1>1
  <1> QED
    BY <1>2

LEMMA SourceFacts ==
    ASSUME NEW m, FutOK(m), "src" \notin m.spent
    PROVE  StreamPoll(Source(m), m) /\ Source(m).n.work = m.work
  <1>1. "src" \in Leaf
    BY DEF Leaf
  <1>2. PICK p : p = Poll(m, "src")
    OBVIOUS
  <1>3. /\ FutOK(p) /\ Kept(p, m) /\ p.spent = m.spent /\ p.ready = m.ready /\ p.left = m.left /\ p.work = m.work
    BY <1>1, <1>2, PollLeaf
  <1>4. CASE ~m.ready["src"]
    <2>1. Source(m) = [r |-> NotReady, n |-> p]
      BY <1>2, <1>4 DEF Source
    <2> QED
      BY <1>3, <2>1 DEF StreamPoll, NotReady
  <1>5. CASE m.ready["src"] /\ m.left = <<>>
    <2>0. PICK q : q = [p EXCEPT !.spent = @ \union {"src"}]
      OBVIOUS
    <2>1. Source(m) = [r |-> End, n |-> q]
      BY <1>2, <1>5, <2>0 DEF Source
    <2>2. FutOK(q) /\ Kept(q, m) /\ q.work = m.work
      BY <1>3, <2>0 DEF FutOK, Kept, Above, NodeOK, Fields
    <2> QED
      BY <2>1, <2>2 DEF StreamPoll, End
  <1>6. CASE m.ready["src"] /\ m.left # <<>>
    <2>1. PICK q : q = [p EXCEPT !.left = Tail(@), !.ready["src"] = FALSE, !.heard = Append(@, Head(m.left))]
      OBVIOUS
    <2>2. Source(m) = [r |-> Head(m.left), n |-> q]
      BY <1>2, <1>6, <2>1 DEF Source
    <2>3. m.left \in Seq(Elements)
      BY DEF FutOK
    <2>4. Head(m.left) \in Elements /\ Tail(m.left) \in Seq(Elements)
      <3>1. PICK left : left = m.left
        OBVIOUS
      <3>2. left \in Seq(Elements) /\ left # <<>>
        BY <1>6, <2>3, <3>1
      <3>3. Head(left) \in Elements /\ Tail(left) \in Seq(Elements)
        BY <3>2, HeadTail
      <3> QED
        BY <3>1, <3>3, Zenon
    <2>5. DOMAIN p = Fields /\ p.ready \in [Leaf -> BOOLEAN]
      BY <1>3 DEF FutOK, NodeOK
    <2>6. /\ DOMAIN q = Fields /\ q.left = Tail(m.left) /\ q.ready = [p.ready EXCEPT !["src"] = FALSE]
          /\ q.spent = m.spent /\ q.again = p.again /\ q.work = p.work
          /\ q.fold = p.fold /\ q.step = p.step /\ q.second = p.second /\ q.chain = p.chain /\ q.f = p.f
      BY <1>3, <2>1, <2>5 DEF Fields
    <2>7. q.ready \in [Leaf -> BOOLEAN]
      BY <2>5, <2>6
    <2>8. FutOK(q) /\ Kept(q, m) /\ q.work = m.work
      BY <1>3, <2>4, <2>6, <2>7 DEF FutOK, Kept, Above, NodeOK
    <2>9. DOMAIN Head(m.left) = {"t", "v"} /\ Head(m.left).t \in {"ok", "err"}
      BY <2>4 DEF Elements, Ok, Err
    <2> QED
      BY <2>2, <2>6, <2>8, <2>9 DEF StreamPoll
  <1> QED
    BY <1>4, <1>5, <1>6

LEMMA NoTimerFacts ==
    ASSUME NEW m, FutOK(m)
    PROVE  FutOK(NoTimer(m)) /\ Kept(NoTimer(m), m) /\ NoTimer(m).work = m.work /\ NoTimer(m).spent = m.spent
  <1>1. DOMAIN m = Fields /\ m.ready \in [Leaf -> BOOLEAN]
    BY DEF FutOK, NodeOK
  <1>2. PICK q : q = NoTimer(m)
    OBVIOUS
  <1>3. /\ DOMAIN q = Fields /\ q.left = m.left /\ q.ready = [m.ready EXCEPT !["dur"] = FALSE]
        /\ q.spent = m.spent /\ q.again = m.again /\ q.work = m.work
        /\ q.fold = m.fold /\ q.step = m.step /\ q.second = m.second /\ q.chain = m.chain /\ q.f = m.f
    BY <1>1, <1>2 DEF NoTimer, Fields
  <1>4. q.ready \in [Leaf -> BOOLEAN]
    BY <1>1, <1>3
  <1> QED
    BY <1>2, <1>3, <1>4 DEF FutOK, Kept, Above, NodeOK


LEMMA LowerFacts ==
    ASSUME NEW m, FutOK(m), "src" \notin m.spent, kind \in Kinds
    PROVE  StreamPoll(Lower(m), m) /\ Lower(m).n.work = m.work
  <1>1. kind.lower \in {"none", "map", "map_err", "timeout"}
    BY KindAssumption DEF Kinds, StreamKinds, NoticeKinds, Items
  <1>2. PICK p : p = Source(m)
    OBVIOUS
  <1>3. StreamPoll(p, m) /\ p.n.work = m.work
    BY <1>2, SourceFacts
  <1>4. CASE kind.lower = "none"
    BY <1>2, <1>3, <1>4 DEF Lower
  <1>5. CASE kind.lower \in {"map", "map_err"}
    <2>1. Lower(m) = p \/ Lower(m) = [p EXCEPT !.r = Mapped(@)]
      BY <1>2, <1>5 DEF Lower, StreamMap, StreamMapErr
    <2>2. DOMAIN Mapped(p.r) = {"t", "v"} /\ Mapped(p.r).t = p.r.t
      BY <1>3 DEF Mapped, StreamPoll
    <2> QED
      BY <1>3, <2>1, <2>2 DEF StreamPoll
  <1>6. CASE kind.lower = "timeout"
    <2>1. Lower(m) = StreamTimeout(m)
      BY <1>6 DEF Lower
    <2>2. PICK q : q = IF p.n.timer THEN p.n ELSE [p.n EXCEPT !.timer = TRUE]
      OBVIOUS
    <2>3. FutOK(q) /\ Kept(q, m) /\ q.work = m.work /\ q.spent = p.n.spent
      BY <1>3, <2>2 DEF StreamPoll, FutOK, Kept, Above, NodeOK, Fields
    <2>4. CASE p.r.t \in {"ok", "end"}
      <3>1. Lower(m) = [p EXCEPT !.n = NoTimer(@)]
        BY <1>2, <2>1, <2>4 DEF StreamTimeout
      <3>2. DOMAIN p = {"r", "n"} /\ FutOK(p.n) /\ Kept(p.n, m)
        BY <1>3 DEF StreamPoll
      <3>3. Lower(m).n = NoTimer(p.n) /\ Lower(m).r = p.r /\ DOMAIN Lower(m) = {"r", "n"}
        BY <3>1, <3>2
      <3>4. FutOK(NoTimer(p.n)) /\ Kept(NoTimer(p.n), p.n) /\ NoTimer(p.n).work = m.work /\ NoTimer(p.n).spent = p.n.spent
        BY <1>3, <3>2, NoTimerFacts
      <3>5. Kept(NoTimer(p.n), m)
        BY <3>2, <3>4 DEF Kept, Above
      <3> QED
        BY <1>3, <3>3, <3>4, <3>5 DEF StreamPoll
    <2>5. CASE p.r.t = "err"
      BY <1>2, <1>3, <2>1, <2>5 DEF StreamTimeout
    <2>6. CASE p.r.t = "notready" /\ q.ready["dur"]
      <3>1. Lower(m) = [r |-> TimedOut, n |-> [NoTimer(q) EXCEPT !.heard = Append(@, TimedOut)]]
        BY <1>2, <2>1, <2>2, <2>6 DEF StreamTimeout
      <3>2. FutOK(NoTimer(q)) /\ Kept(NoTimer(q), q) /\ NoTimer(q).work = m.work /\ NoTimer(q).spent = p.n.spent
        BY <2>3, NoTimerFacts
      <3>3. PICK h : h = [NoTimer(q) EXCEPT !.heard = Append(@, TimedOut)]
        OBVIOUS
      <3>4. FutOK(h) /\ Kept(h, m) /\ h.work = m.work /\ h.spent = p.n.spent
        BY <2>3, <3>2, <3>3 DEF FutOK, Kept, Above, NodeOK, Fields
      <3>5. Lower(m).r = TimedOut /\ Lower(m).n = h /\ DOMAIN Lower(m) = {"r", "n"}
        BY <3>1, <3>3
      <3>6. "src" \notin h.spent
        BY <1>3, <2>6, <3>4 DEF StreamPoll
      <3>7. DOMAIN TimedOut = {"t", "v"} /\ TimedOut.t = "err"
        BY DEF TimedOut, Err
      <3> QED
        BY <3>4, <3>5, <3>6, <3>7 DEF StreamPoll
    <2>7. CASE p.r.t = "notready" /\ ~q.ready["dur"]
      <3>1. Lower(m) = [r |-> NotReady, n |-> Poll(q, "dur")]
        BY <1>2, <2>1, <2>2, <2>7 DEF StreamTimeout
      <3>2. "dur" \in Leaf /\ "dur" \notin q.spent
        BY <2>3 DEF FutOK, Leaf
      <3>3. FutOK(Poll(q, "dur")) /\ Kept(Poll(q, "dur"), q) /\ Poll(q, "dur").spent = q.spent
            /\ Poll(q, "dur").work = q.work
        BY <2>3, <3>2, PollLeaf
      <3>4. Kept(Poll(q, "dur"), m)
        BY <2>3, <3>3 DEF Kept, Above
      <3> QED
        BY <1>3, <2>3, <2>7, <3>1, <3>3, <3>4 DEF StreamPoll, NotReady
    <2> QED
      BY <1>3, <2>4, <2>5, <2>6, <2>7 DEF StreamPoll
  <1> QED
    BY <1>1, <1>4, <1>5, <1>6

\* The future of a combinator is polled: it ends, or stays what it is.
LEMMA FutureFacts ==
    ASSUME NEW m, FutOK(m), NEW l \in {"work", "step", "second"}, l \notin m.spent, Ended(m[l])
    PROVE  LET p == FuturePoll(m, l) IN
           /\ DOMAIN p = {"r", "n"} /\ NodeOK(p.n) /\ p.n.again = FALSE /\ p.n.left = m.left /\ Above(p.n, m)
           /\ p.n.work = m.work
           /\ \/ p.r = m[l] /\ p.n.spent = m.spent \union {l}
              \/ p.r = NotReady /\ p.n.spent = m.spent
  <1>1. l \in Leaf
    BY DEF Leaf
  <1>2. PICK q : q = Poll(m, l)
    OBVIOUS
  <1>3. FutOK(q) /\ Kept(q, m) /\ q.spent = m.spent /\ q.left = m.left /\ q.work = m.work
    BY <1>1, <1>2, PollLeaf
  <1>4. CASE m.ready[l]
    <2>1. FuturePoll(m, l) = [r |-> m[l], n |-> [q EXCEPT !.spent = @ \union {l}]]
      BY <1>2, <1>4 DEF FuturePoll
    <2> QED
      BY <1>3, <2>1 DEF FutOK, Kept, Above, NodeOK, Fields
  <1>5. CASE ~m.ready[l]
    <2>1. FuturePoll(m, l) = [r |-> NotReady, n |-> q]
      BY <1>2, <1>5 DEF FuturePoll
    <2> QED
      BY <1>3, <2>1 DEF FutOK, Kept, Above, NodeOK, Fields
  <1> QED
    BY <1>4, <1>5


\* A closure has returned a new future.
LEMMA SpawnedFacts ==
    ASSUME NEW m, FutOK(m), NEW l \in {"work", "step", "second"}, NEW o, Ended(o)
    PROVE  LET q == Spawned(m, l, o) IN
           /\ FutOK(q) /\ q[l] = o /\ q.spent = m.spent \ {l} /\ q.left = m.left
           /\ \A k \in {"work", "step", "second", "fold", "chain", "f"} : k # l => q[k] = m[k]
  <1>1. DOMAIN m = Fields /\ m.ready \in [Leaf -> BOOLEAN] /\ l \in Leaf /\ l \in Fields
    BY DEF FutOK, NodeOK, Leaf, Fields
  <1>2. PICK b : b = Instant(o.v)
    OBVIOUS
  <1>3. b \in BOOLEAN
    BY <1>2 DEF Instant
  <1>4. PICK q : q = [m EXCEPT ![l] = o, !.ready[l] = b, !.spent = @ \ {l}, !.reg = @ \ {l}]
    OBVIOUS
  <1>5. Spawned(m, l, o) = q
    BY <1>2, <1>4 DEF Spawned
  <1>6. /\ DOMAIN q = Fields /\ q.left = m.left /\ q.ready = [m.ready EXCEPT ![l] = b]
        /\ q.spent = m.spent \ {l} /\ q.again = m.again /\ q[l] = o
        /\ \A k \in {"work", "step", "second", "fold", "chain", "f"} : k # l => q[k] = m[k]
    BY <1>1, <1>4 DEF Fields
  <1>7. q.ready \in [Leaf -> BOOLEAN]
    BY <1>1, <1>3, <1>6
  <1>8. q.work # NoFut => Ended(q.work) /\ "work" \notin q.spent
    <2>1. CASE l = "work"
      BY <1>6, <2>1
    <2>2. CASE l # "work"
      BY <1>6, <2>2 DEF FutOK
    <2> QED
      BY <2>1, <2>2
  <1>9. FutOK(q)
    BY <1>6, <1>7, <1>8 DEF FutOK, NodeOK
  <1> QED
    BY <1>5, <1>6, <1>9

LEMMA PollWorkFacts ==
    ASSUME NEW m, FutOK(m), "src" \notin m.spent, m.work # NoFut
    PROVE  StreamPoll(PollWork(m), m)
  <1>1. Ended(m.work) /\ "work" \notin m.spent
    BY DEF FutOK
  <1>2. PICK p : p = FuturePoll(m, "work")
    OBVIOUS
  <1>3. /\ DOMAIN p = {"r", "n"} /\ NodeOK(p.n) /\ p.n.again = FALSE /\ p.n.left = m.left /\ Above(p.n, m)
        /\ p.n.work = m.work
        /\ \/ p.r = m.work /\ p.n.spent = m.spent \union {"work"}
           \/ p.r = NotReady /\ p.n.spent = m.spent
    BY <1>1, <1>2, FutureFacts
  <1>4. CASE p.r = NotReady /\ p.n.spent = m.spent
    <2>1. PollWork(m) = p
      BY <1>2, <1>4 DEF PollWork, NotReady
    <2>2. FutOK(p.n) /\ Kept(p.n, m)
      BY <1>3, <1>4 DEF FutOK, Kept
    <2> QED
      BY <1>3, <1>4, <2>1, <2>2 DEF StreamPoll, NotReady
  <1>5. CASE p.r = m.work /\ p.n.spent = m.spent \union {"work"}
    <2>1. p.r.t # "notready"
      BY <1>1, <1>5 DEF Ended
    <2>2. PollWork(m) = [p EXCEPT !.n.work = NoFut]
      BY <1>2, <2>1 DEF PollWork
    <2>3. PICK q : q = [p.n EXCEPT !.work = NoFut]
      OBVIOUS
    <2>4. PollWork(m).n = q /\ PollWork(m).r = m.work /\ DOMAIN PollWork(m) = {"r", "n"}
      BY <1>3, <1>5, <2>2, <2>3
    <2>5. FutOK(q) /\ Kept(q, m) /\ "src" \notin q.spent
      BY <1>3, <1>5, <2>3 DEF FutOK, Kept, Above, NodeOK, Fields
    <2> QED
      BY <1>1, <2>4, <2>5 DEF StreamPoll, Ended
  <1> QED
    BY <1>3, <1>4, <1>5

LEMMA StreamFacts ==
    ASSUME NEW m, FutOK(m), "src" \notin m.spent, kind \in Kinds
    PROVE  StreamPoll(Stream(m), m)
  <1>1. kind.upper \in {"none", "and_then", "then"}
    BY KindAssumption DEF Kinds, StreamKinds, NoticeKinds, Items
  <1>2. PICK p : p = Lower(m)
    OBVIOUS
  <1>3. StreamPoll(p, m) /\ p.n.work = m.work
    BY <1>2, LowerFacts
  <1>4. CASE kind.upper = "none"
    BY <1>2, <1>3, <1>4 DEF Stream
  <1>5. CASE kind.upper \in {"and_then", "then"}
    <2>1. Ended(Worked(p.r))
      BY DEF Worked, Ended, Ok, Err
    <2>2. PICK q : q = Spawned(p.n, "work", Worked(p.r))
      OBVIOUS
    <2>3. \/ m.work # NoFut /\ Stream(m) = PollWork(m)
          \/ Stream(m) = p
          \/ Stream(m) = PollWork(q) /\ p.r.t \in {"ok", "err"}
      BY <1>2, <1>3, <1>5, <2>2 DEF Stream, StreamAndThen, StreamThen, StreamPoll
    <2>4. CASE m.work # NoFut /\ Stream(m) = PollWork(m)
      BY <2>4, PollWorkFacts
    <2>5. CASE Stream(m) = PollWork(q) /\ p.r.t \in {"ok", "err"}
      <3>1. FutOK(p.n) /\ Kept(p.n, m) /\ "src" \notin p.n.spent
        BY <1>3, <2>5 DEF StreamPoll
      <3>2. /\ FutOK(q) /\ q.work = Worked(p.r) /\ q.spent = p.n.spent \ {"work"}
            /\ \A k \in {"work", "step", "second", "fold", "chain", "f"} : k # "work" => q[k] = p.n[k]
        BY <2>1, <2>2, <3>1, SpawnedFacts
      <3>3. Kept(q, m) /\ "src" \notin q.spent
        BY <3>1, <3>2 DEF Kept, Above
      <3>4. q.work # NoFut
        BY <2>1, <3>2 DEF Ended, NoFut
      <3>5. StreamPoll(PollWork(q), q)
        BY <3>2, <3>3, <3>4, PollWorkFacts
      <3>6. Kept(PollWork(q).n, m)
        BY <3>3, <3>5 DEF StreamPoll, Kept, Above
      <3> QED
        BY <2>5, <3>5, <3>6 DEF StreamPoll
    <2> QED
      BY <1>3, <2>3, <2>4, <2>5
  <1> QED
    BY <1>1, <1>4, <1>5


\* What a combinator makes of the outcome of the consumer: an outcome, or the
\* second future of a chain is still running.
TopResult(q) == q.n.again = FALSE /\ (q.r.t # "notready" \/ InSecond(q.n))

LEMMA SecondFacts ==
    ASSUME NEW d, FutOK(d), NEW o, Ended(o)
    PROVE  /\ FutOK(Spawned(d, "second", o)) /\ Spawned(d, "second", o).second = o
           /\ Spawned(d, "second", o).spent = d.spent \ {"second"}
  <1>1. PICK m : m = Spawned(d, "second", o)
    OBVIOUS
  <1>2. /\ FutOK(m) /\ m.second = o /\ m.spent = d.spent \ {"second"}
        /\ \A k \in {"work", "step", "second", "fold", "chain", "f"} : k # "second" => m[k] = d[k]
    BY <1>1, SpawnedFacts
  <1> QED
    BY <1>1, <1>2

LEMMA ChainFacts ==
    ASSUME NEW p, DOMAIN p = {"r", "n"}, Ended(p.r), FutOK(p.n), NEW o, o = NoFut \/ Ended(o),
           kind.cons \in Consumers, kind.top \in {"and_then", "then"}
    PROVE  TopResult(Chain(p, o))
  <1>1. PICK d : d = [p.n EXCEPT !.chain = "done"]
    OBVIOUS
  <1>2. FutOK(d)
    BY <1>1 DEF FutOK, NodeOK, Fields
  <1>3. CASE o = NoFut
    <2>1. Chain(p, o) = [p EXCEPT !.n = d]
      BY <1>1, <1>3 DEF Chain
    <2>2. Chain(p, o).n = d /\ Chain(p, o).r = p.r
      BY <2>1
    <2> QED
      BY <1>2, <2>2 DEF TopResult, FutOK, Ended
  <1>4. CASE o # NoFut
    <2>1. PICK m : m = Spawned(d, "second", o)
      OBVIOUS
    <2>2. FutOK(m) /\ m.second = o /\ m.spent = d.spent \ {"second"}
      <3>1. Ended(o)
        BY <1>4
      <3> QED
        BY <1>2, <2>1, <3>1, SecondFacts
    <2>3. PICK f : f = FuturePoll(m, "second")
      OBVIOUS
    <2>4. /\ DOMAIN f = {"r", "n"} /\ NodeOK(f.n) /\ f.n.again = FALSE /\ f.n.left = m.left /\ Above(f.n, m)
          /\ f.n.work = m.work
          /\ \/ f.r = o /\ f.n.spent = m.spent \union {"second"}
             \/ f.r = NotReady /\ f.n.spent = m.spent
      BY <1>4, <2>2, <2>3, FutureFacts
    <2>5. Chain(p, o) = [f EXCEPT !.n.chain = "second"]
      BY <1>1, <1>4, <2>1, <2>3 DEF Chain
    <2>6. PICK g : g = [f.n EXCEPT !.chain = "second"]
      OBVIOUS
    <2>7. Chain(p, o).n = g /\ Chain(p, o).r = f.r
      BY <2>4, <2>5, <2>6
    <2>8. /\ NodeOK(g) /\ g.again = FALSE /\ g.left = m.left /\ g.work = m.work /\ g.spent = f.n.spent
          /\ g.second = m.second /\ g.chain = "second"
      BY <2>4, <2>6 DEF NodeOK, Fields, Above
    <2>9. CASE f.r = o
      BY <1>4, <2>7, <2>8, <2>9 DEF TopResult, Ended
    <2>10. CASE f.r = NotReady /\ f.n.spent = m.spent
      <3>1. InSecond(g)
        BY <1>4, <2>2, <2>8, <2>10 DEF InSecond, FutOK
      <3> QED
        BY <2>7, <2>8, <3>1 DEF TopResult
    <2> QED
      BY <2>4, <2>9, <2>10
  <1> QED
    BY <1>3, <1>4

LEMMA TopFacts ==
    ASSUME NEW p, DOMAIN p = {"r", "n"}, Ended(p.r), FutOK(p.n), p.n.f = TRUE, kind \in Kinds,
           kind.cons \in Consumers
    PROVE  TopResult(Top(p))
  <1>1. kind.top \in {"none", "map", "map_err", "from_err", "drop_err", "and_then", "then", "timeout"}
    BY KindAssumption DEF Kinds, StreamKinds, NoticeKinds, Items
  <1>2. p.n.again = FALSE /\ p.r.t \in {"ok", "err"} /\ DOMAIN p.r = {"t", "v"} /\ DOMAIN p.n = Fields
    BY DEF FutOK, Ended, NodeOK
  <1>3. CASE kind.top \in {"none", "timeout"}
    BY <1>2, <1>3 DEF Top, TopResult
  <1>4. CASE kind.top \in {"map", "map_err"}
    <2>1. \A k : Add(p.r, k).t = p.r.t
      BY <1>2 DEF Add
    <2>2. PICK m : m = [p.n EXCEPT !.f = FALSE, !.again = @ \/ ~p.n.f]
      OBVIOUS
    <2>3. m.again = FALSE
      BY <1>2, <2>2 DEF Fields
    <2>4. Top(p) = p \/ \E k : Top(p) = [r |-> Add(p.r, k), n |-> m]
      BY <1>2, <1>4, <2>2 DEF Top, Map, MapErr
    <2> QED
      BY <1>2, <2>1, <2>3, <2>4 DEF TopResult
  <1>5. CASE kind.top = "from_err"
    <2>1. Add(p.r, 62).t = p.r.t
      BY <1>2 DEF Add
    <2> QED
      BY <1>2, <1>5, <2>1 DEF Top, FromErr, TopResult
  <1>6. CASE kind.top = "drop_err"
    BY <1>2, <1>6 DEF Top, DropErr, TopResult, Err
  <1>7. CASE kind.top \in {"and_then", "then"}
    <2>1. Ended(Chained(p.r))
      BY DEF Chained, Ended, Ok, Err
    <2>2. \E o : (o = NoFut \/ Ended(o)) /\ Top(p) = Chain(p, o)
      <3>1. CASE kind.top = "then"
        BY <2>1, <3>1 DEF Top, Then
      <3>2. CASE kind.top = "and_then" /\ p.r.t = "err"
        BY <3>2 DEF Top, AndThen
      <3>3. CASE kind.top = "and_then" /\ p.r.t # "err"
        BY <2>1, <3>3 DEF Top, AndThen
      <3> QED
        BY <1>7, <3>1, <3>2, <3>3
    <2> QED
      BY <1>7, <2>2, ChainFacts
  <1> QED
    BY <1>1, <1>3, <1>4, <1>5, <1>6, <1>7

\* The consumer returns, or goes on with its loop.
LEMMA ConsumedStep ==
    ASSUME FutureOK, UNCHANGED kind, kind.cons \in Consumers, NEW p, DOMAIN p = {"r", "n"}, Consumed(p),
           \/ Ended(p.r) /\ FutOK(p.n) /\ p.n.f = TRUE
           \/ p.r.t = "notready" /\ Running(p.n)
    PROVE  FutureOK'
  <1>1. kind \in Kinds
    BY DEF FutureOK
  <1>2. CASE Ended(p.r) /\ FutOK(p.n) /\ p.n.f = TRUE
    <2>1. p.r.t # "notready"
      BY <1>2 DEF Ended
    <2>2. PICK q : q = Top(p)
      OBVIOUS
    <2>3. Return(q) /\ TopResult(q)
      BY <1>1, <1>2, <2>1, <2>2, TopFacts DEF Consumed
    <2>4. n' = q.n /\ pc' = (IF q.r.t = "notready" THEN "idle" ELSE "done")
      BY <2>3 DEF Return
    <2>5. pc' = "idle" => InSecond(n)'
      BY <2>3, <2>4 DEF TopResult, InSecond
    <2> QED
      BY <1>1, <2>3, <2>4, <2>5 DEF FutureOK, TopResult
  <1>3. CASE p.r.t = "notready" /\ Running(p.n)
    <2>1. n' = p.n /\ pc' = "idle"
      BY <1>3 DEF Consumed, Return
    <2>2. Running(n)' /\ n'.again = FALSE
      BY <1>3, <2>1 DEF Running, FutOK
    <2> QED
      BY <1>1, <2>1, <2>2 DEF FutureOK
  <1> QED
    BY <1>2, <1>3

LEMMA RunningStep ==
    ASSUME FutureOK, UNCHANGED kind, NEW m, Running(m), n' = m, pc' \in {"idle", "loop"}
    PROVE  FutureOK'
  <1>1. Running(n)' /\ n'.again = FALSE
    BY DEF Running, FutOK
  <1> QED
    BY <1>1 DEF FutureOK

\* A poll of the stream that is not its end leaves a consumer running.
LEMMA StillRunning ==
    ASSUME Running(n), kind.cons \notin Notices, NEW s, StreamPoll(s, n), s.r.t # "end"
    PROVE  Running(s.n)
  BY DEF Running, StreamPoll, Kept, Above


LEMMA FoldReadyStep ==
    ASSUME FutureOK, UNCHANGED kind, pc = "loop", kind.cons = "fold", kind.cons \in Consumers, FoldReady
    PROVE  FutureOK'
  <1>1. Running(n) /\ kind \in Kinds /\ kind.cons \notin Notices
    BY KindAssumption DEF FutureOK
  <1>2. PICK m : m = [n EXCEPT !.fold = "empty"]
    OBVIOUS
  <1>3. /\ FutOK(m) /\ "src" \notin m.spent /\ m.f = TRUE /\ m.chain = "first"
        /\ m.step = n.step /\ m.spent = n.spent
    BY <1>1, <1>2 DEF Running, FutOK, NodeOK, Fields
  <1>4. PICK s : s = Stream(m)
    OBVIOUS
  <1>5. StreamPoll(s, m)
    BY <1>1, <1>3, <1>4, StreamFacts
  <1>6. DOMAIN s = {"r", "n"} /\ FutOK(s.n) /\ s.n.f = TRUE /\ s.n.chain = "first"
    BY <1>3, <1>5 DEF StreamPoll, Kept, Above
  <1>7. CASE s.r.t = "ok"
    <2>1. PICK o : o = Folded(n.acc, s.r.v)
      OBVIOUS
    <2>2. Ended(o)
      BY <2>1 DEF Folded, Ended, Ok, Err
    <2>3. PICK q : q = Spawned(s.n, "step", o)
      OBVIOUS
    <2>4. /\ FutOK(q) /\ q.step = o /\ q.spent = s.n.spent \ {"step"}
          /\ \A k \in {"work", "step", "second", "fold", "chain", "f"} : k # "step" => q[k] = s.n[k]
      BY <1>6, <2>2, <2>3, SpawnedFacts
    <2>5. Continue([q EXCEPT !.fold = "processing"])
      BY <1>2, <1>4, <1>7, <2>1, <2>3 DEF FoldReady
    <2>6. PICK g : g = [q EXCEPT !.fold = "processing"]
      OBVIOUS
    <2>7. "src" \notin s.n.spent
      BY <1>5, <1>7 DEF StreamPoll
    <2>8. /\ FutOK(g) /\ g.step = o /\ g.spent = s.n.spent \ {"step"} /\ g.fold = "processing" /\ g.f = TRUE
          /\ g.chain = "first"
      BY <1>6, <2>4, <2>6 DEF FutOK, NodeOK, Fields
    <2>9. Running(g)
      BY <1>1, <2>2, <2>7, <2>8 DEF Running
    <2> QED
      BY <2>5, <2>6, <2>9, RunningStep DEF Continue
  <1>8. CASE s.r.t = "err"
    <2>1. Consumed(s) /\ Ended(s.r)
      BY <1>2, <1>4, <1>5, <1>8 DEF FoldReady, StreamPoll, Ended
    <2> QED
      BY <1>6, <2>1, ConsumedStep
  <1>9. CASE s.r.t = "end"
    <2>1. PICK p : p = [s EXCEPT !.r = Ok(n.acc)]
      OBVIOUS
    <2>2. Consumed(p)
      BY <1>2, <1>4, <1>9, <2>1 DEF FoldReady
    <2>3. p.n = s.n /\ Ended(p.r) /\ DOMAIN p = {"r", "n"}
      BY <1>6, <2>1 DEF Ok, Ended
    <2> QED
      BY <1>6, <2>2, <2>3, ConsumedStep
  <1>10. CASE s.r.t = "notready"
    <2>1. PICK p : p = [s EXCEPT !.n.fold = "ready"]
      OBVIOUS
    <2>2. Consumed(p)
      BY <1>2, <1>4, <1>10, <2>1 DEF FoldReady
    <2>3. p.n = [s.n EXCEPT !.fold = "ready"] /\ p.r = s.r /\ DOMAIN p = {"r", "n"}
      BY <1>6, <2>1
    <2>4. "src" \notin s.n.spent
      BY <1>5, <1>10 DEF StreamPoll
    <2>5. Running(p.n)
      BY <1>1, <1>6, <2>3, <2>4 DEF Running, FutOK, NodeOK, Fields
    <2> QED
      BY <1>10, <2>2, <2>3, <2>5, ConsumedStep
  <1> QED
    BY <1>5, <1>7, <1>8, <1>9, <1>10 DEF StreamPoll

LEMMA FoldProcessingStep ==
    ASSUME FutureOK, UNCHANGED kind, pc = "loop", kind.cons = "fold", kind.cons \in Consumers,
           n.fold = "processing", FoldProcessing
    PROVE  FutureOK'
  <1>1. Running(n) /\ kind.cons \notin Notices
    BY KindAssumption DEF FutureOK
  <1>2. PICK m : m = [n EXCEPT !.fold = "empty"]
    OBVIOUS
  <1>3. /\ FutOK(m) /\ "src" \notin m.spent /\ m.f = TRUE /\ m.chain = "first"
        /\ Ended(m.step) /\ "step" \notin m.spent
    BY <1>1, <1>2 DEF Running, FutOK, NodeOK, Fields
  <1>4. PICK p : p = FuturePoll(m, "step")
    OBVIOUS
  <1>5. /\ DOMAIN p = {"r", "n"} /\ NodeOK(p.n) /\ p.n.again = FALSE /\ p.n.left = m.left /\ Above(p.n, m)
        /\ p.n.work = m.work
        /\ \/ p.r = m.step /\ p.n.spent = m.spent \union {"step"}
           \/ p.r = NotReady /\ p.n.spent = m.spent
    BY <1>3, <1>4, FutureFacts
  <1>6. FutOK(p.n) /\ "src" \notin p.n.spent /\ p.n.f = TRUE /\ p.n.chain = "first" /\ p.n.step = m.step
    BY <1>3, <1>5 DEF FutOK, Above
  <1>7. CASE p.r = NotReady /\ p.n.spent = m.spent
    <2>0. p.r.t = "notready"
      BY <1>7 DEF NotReady
    <2>1. PICK q : q = [p EXCEPT !.n.fold = "processing"]
      OBVIOUS
    <2>2. Consumed(q)
      BY <1>2, <1>4, <2>0, <2>1 DEF FoldProcessing
    <2>3. q.n = [p.n EXCEPT !.fold = "processing"] /\ q.r = NotReady /\ DOMAIN q = {"r", "n"}
      BY <1>5, <1>7, <2>1
    <2>4. Running(q.n)
      BY <1>1, <1>3, <1>6, <1>7, <2>3 DEF Running, FutOK, NodeOK, Fields
    <2>5. q.r.t = "notready"
      BY <2>3 DEF NotReady
    <2> QED
      BY <2>2, <2>3, <2>4, <2>5, ConsumedStep
  <1>8. CASE p.r = m.step /\ m.step.t = "err"
    <2>1. Consumed(p)
      BY <1>2, <1>4, <1>8 DEF FoldProcessing
    <2> QED
      BY <1>3, <1>5, <1>6, <1>8, <2>1, ConsumedStep
  <1>9. CASE p.r = m.step /\ m.step.t = "ok"
    <2>1. PICK q : q = [p.n EXCEPT !.fold = "ready", !.acc = p.r.v]
      OBVIOUS
    <2>2. Continue(q)
      BY <1>2, <1>4, <1>9, <2>1 DEF FoldProcessing
    <2>3. Running(q)
      BY <1>1, <1>6, <2>1 DEF Running, FutOK, NodeOK, Fields
    <2> QED
      BY <2>2, <2>3, RunningStep DEF Continue
  <1> QED
    BY <1>3, <1>5, <1>7, <1>8, <1>9 DEF Ended

LEMMA FinishStep ==
    ASSUME FutureOK, UNCHANGED kind, StreamFinish, kind.cons \in Consumers
    PROVE  FutureOK'
  <1>1. Running(n) /\ kind \in Kinds /\ kind.cons \notin Notices /\ pc = "loop"
    BY KindAssumption DEF FutureOK, StreamFinish
  <1>2. PICK s : s = Stream(n)
    OBVIOUS
  <1>3. StreamPoll(s, n)
    BY <1>1, <1>2, StreamFacts DEF Running
  <1>4. DOMAIN s = {"r", "n"} /\ FutOK(s.n) /\ s.n.f = TRUE
    BY <1>1, <1>3 DEF StreamPoll, Kept, Above, Running
  <1>5. s.r.t # "end" => Running(s.n)
    BY <1>1, <1>3, StillRunning
  <1>6. CASE s.r.t = "ok"
    BY <1>1, <1>2, <1>5, <1>6, RunningStep DEF StreamFinish, Continue
  <1>7. CASE s.r.t = "end"
    <2>1. PICK p : p = [s EXCEPT !.r = Ok(<<>>)]
      OBVIOUS
    <2>2. Consumed(p)
      <3>1. s.r.t # "ok" /\ s.r.t \notin {"err", "notready"}
        BY <1>7
      <3> QED
        BY <1>2, <1>7, <2>1, <3>1 DEF StreamFinish
    <2>3. p.n = s.n /\ Ended(p.r) /\ DOMAIN p = {"r", "n"}
      BY <1>4, <2>1 DEF Ok, Ended
    <2> QED
      BY <1>4, <2>2, <2>3, ConsumedStep
  <1>8. CASE s.r.t \in {"err", "notready"}
    <2>1. Consumed(s)
      <3>1. s.r.t # "ok" /\ s.r.t # "end"
        BY <1>8
      <3> QED
        BY <1>2, <1>8, <3>1 DEF StreamFinish
    <2>2. s.r.t = "err" => Ended(s.r)
      BY <1>3 DEF StreamPoll, Ended
    <2> QED
      BY <1>4, <1>5, <1>8, <2>1, <2>2, ConsumedStep
  <1> QED
    BY <1>3, <1>6, <1>7, <1>8 DEF StreamPoll


\* The handler of the actor is given what the stream returned.
LEMMA HandledStep ==
    ASSUME FutureOK, UNCHANGED kind, kind.cons \notin Notices, NEW s, Running(s.n), Handled(s)
    PROVE  FutureOK'
  <1>1. PICK v : v = s.n.handled \o s.r.v
    OBVIOUS
  <1>2. n' = [s.n EXCEPT !.handled = v] /\ pc' \in {"idle", "loop"}
    BY <1>1 DEF Handled
  <1>3. PICK m : m = [s.n EXCEPT !.handled = v]
    OBVIOUS
  <1>4. Running(m)
    BY <1>3 DEF Running, FutOK, NodeOK, Fields
  <1> QED
    BY <1>2, <1>3, <1>4, RunningStep

\* The item of a stream ends, whatever it returns.
LEMMA DoneStep ==
    ASSUME FutureOK, UNCHANGED kind, NEW p, Return(p), p.r.t # "notready", p.n.again = FALSE
    PROVE  FutureOK'
  BY DEF FutureOK, Return

LEMMA ActorStreamStep ==
    ASSUME FutureOK, UNCHANGED kind, ActorStream \/ ActorMessageStreamItem
    PROVE  FutureOK'
  <1>1. Running(n) /\ kind.cons \notin Notices /\ pc = "loop"
    BY KindAssumption DEF FutureOK, ActorStream, ActorMessageStreamItem
  <1>2. PICK s : s = Source(n)
    OBVIOUS
  <1>3. StreamPoll(s, n)
    BY <1>1, <1>2, SourceFacts DEF Running
  <1>4. DOMAIN s = {"r", "n"} /\ s.n.again = FALSE /\ s.r.t \in {"ok", "err", "end", "notready"}
    BY <1>3 DEF StreamPoll, FutOK
  <1>5. s.r.t # "end" => Running(s.n)
    BY <1>1, <1>3, StillRunning
  <1>6. PICK p : p = [s EXCEPT !.r = Ok(n.handled)]
    OBVIOUS
  <1>7. p.n = s.n /\ p.r.t # "notready"
    BY <1>4, <1>6 DEF Ok
  <1>8. CASE s.r.t = "ok"
    <2>1. Handled(s)
      BY <1>2, <1>8 DEF ActorStream, ActorMessageStreamItem
    <2> QED
      BY <1>1, <1>5, <1>8, <2>1, HandledStep
  <1>9. CASE s.r.t = "notready"
    <2>1. Return(s)
      BY <1>2, <1>9 DEF ActorStream, ActorMessageStreamItem
    <2>2. n' = s.n /\ pc' = "idle"
      BY <1>9, <2>1 DEF Return
    <2> QED
      BY <1>5, <1>9, <2>2, RunningStep
  <1>10. CASE s.r.t = "end"
    <2>1. Return(p)
      BY <1>2, <1>6, <1>10 DEF ActorStream, ActorMessageStreamItem
    <2> QED
      BY <1>4, <1>7, <2>1, DoneStep
  <1>11. CASE s.r.t = "err"
    <2>1. \/ Return(p)
          \/ n' = s.n /\ pc' = pc
          \/ n' = [s.n EXCEPT !.early = waiting'] /\ pc' = pc
      BY <1>2, <1>6, <1>11 DEF ActorStream, ActorMessageStreamItem, Continue
    <2>2. CASE Return(p)
      BY <1>4, <1>7, <2>2, DoneStep
    <2>3. CASE n' = s.n /\ pc' = pc
      BY <1>1, <1>5, <1>11, <2>3, RunningStep
    <2>4. CASE n' = [s.n EXCEPT !.early = waiting'] /\ pc' = pc
      <3>1. Running(n')
        BY <1>1, <1>5, <1>11, <2>4 DEF Running, FutOK, NodeOK, Fields
      <3> QED
        BY <1>1, <2>4, <3>1, RunningStep
    <2> QED
      BY <2>1, <2>2, <2>3, <2>4
  <1> QED
    BY <1>4, <1>8, <1>9, <1>10, <1>11

\* notify, notify_later and run_later.
LEMMA NoticeStep ==
    ASSUME FutureOK, UNCHANGED kind, kind.cons \in Notices,
           ActorMessageItem \/ ActorDelayedMessageItem \/ TimerFunc
    PROVE  FutureOK'
  <1>1. Running(n) /\ n.left # <<>>
    BY DEF FutureOK, ActorMessageItem, ActorDelayedMessageItem, TimerFunc, Running
  <1>2. Deliver(n) \/ Return([r |-> NotReady, n |-> Poll(n, "limit")])
    BY DEF ActorMessageItem, ActorDelayedMessageItem, TimerFunc
  <1>3. CASE Deliver(n)
    <2>1. PICK v : v = n.handled \o n.left[1].v
      OBVIOUS
    <2>2. n' = [n EXCEPT !.left = <<>>, !.handled = v, !.heard = n.left] /\ pc' = "done"
      BY <1>1, <1>3, <2>1 DEF Deliver, Return, Ok
    <2>3. n'.again = FALSE
      BY <1>1, <2>2 DEF Running, FutOK, NodeOK, Fields
    <2> QED
      BY <2>2, <2>3 DEF FutureOK
  <1>4. CASE Return([r |-> NotReady, n |-> Poll(n, "limit")])
    <2>1. n' = Poll(n, "limit") /\ pc' = "idle"
      BY <1>4 DEF Return, NotReady
    <2>2. "limit" \in Leaf
      BY DEF Leaf
    <2>3. FutOK(n) /\ "limit" \notin n.spent
      BY <1>1 DEF Running, FutOK
    <2>4. FutOK(n') /\ Kept(n', n) /\ n'.spent = n.spent /\ n'.left = n.left
      BY <2>1, <2>2, <2>3, PollLeaf
    <2>5. Running(n')
      BY <1>1, <2>4 DEF Running, Kept, Above
    <2> QED
      BY <2>1, <2>5, RunningStep
  <1> QED
    BY <1>2, <1>3, <1>4

LEMMA TurnStep ==
    ASSUME FutureOK, Turn
    PROVE  FutureOK'
  <1>1. UNCHANGED kind /\ pc = "loop" /\ kind \in Kinds
    BY DEF Turn, StreamFold, StreamFinish, ActorStream, ActorMessageStreamItem, ActorMessageItem,
           ActorDelayedMessageItem, TimerFunc, FutureOK
  <1>2. kind.cons \in Consumers \union StreamItems \union Notices
    BY <1>1 DEF Kinds, StreamKinds, NoticeKinds, Items
  <1>3. kind.cons \in {"fold", "finish"} => kind.cons \in Consumers
    BY <1>2, KindAssumption
  <1>4. kind.cons \in {"notify", "notify_later", "run_later"} => kind.cons \in Notices
    BY <1>2, KindAssumption
  <1>5. CASE StreamFold
    BY <1>1, <1>3, <1>5, FoldReadyStep, FoldProcessingStep DEF StreamFold
  <1>6. CASE StreamFinish
    BY <1>1, <1>3, <1>6, FinishStep DEF StreamFinish
  <1>7. CASE ActorStream \/ ActorMessageStreamItem
    BY <1>1, <1>7, ActorStreamStep
  <1>8. CASE ActorMessageItem \/ ActorDelayedMessageItem \/ TimerFunc
    <2>1. kind.cons \in Notices
      BY <1>4, <1>8 DEF ActorMessageItem, ActorDelayedMessageItem, TimerFunc
    <2> QED
      BY <1>1, <1>8, <2>1, NoticeStep
  <1> QED
    BY <1>5, <1>6, <1>7, <1>8 DEF Turn


LEMMA PollItemStep ==
    ASSUME FutureOK, PollItem
    PROVE  FutureOK'
  <1>1. UNCHANGED kind /\ pc = "idle" /\ kind \in Kinds /\ (Running(n) \/ InSecond(n))
    BY DEF PollItem, FutureOK
  <1>2. "limit" \in Leaf
    BY DEF Leaf
  <1>3. CASE kind.cons \in StreamItems
    <2>1. Running(n)
      BY <1>1, <1>3, KindAssumption DEF InSecond
    <2>2. n' = [n EXCEPT !.started = TRUE, !.early = waiting'] /\ pc' = "loop"
      BY <1>3 DEF PollItem, Started
    <2>3. Running(n')
      BY <2>1, <2>2 DEF Running, FutOK, NodeOK, Fields
    <2> QED
      BY <1>1, <2>2, <2>3, RunningStep
  <1>4. CASE kind.cons \notin StreamItems /\ kind.top = "timeout"
    <2>1. Running(n) /\ TimeoutPoll
      BY <1>1, <1>4 DEF InSecond, PollItem
    <2>2. CASE n.ready["limit"]
      <3>1. Return([r |-> TimedOut, n |-> n])
        BY <2>1, <2>2 DEF TimeoutPoll
      <3>2. n' = n /\ pc' = "done"
        BY <3>1 DEF Return, TimedOut, Err
      <3> QED
        BY <1>1, <2>1, <3>2 DEF FutureOK
    <2>3. CASE ~n.ready["limit"]
      <3>1. n' = Poll(n, "limit") /\ pc' = "loop"
        BY <2>1, <2>3 DEF TimeoutPoll
      <3>2. FutOK(n) /\ "limit" \notin n.spent
        BY <2>1 DEF Running, FutOK
      <3>3. FutOK(n') /\ Kept(n', n) /\ n'.spent = n.spent /\ n'.left = n.left
        BY <1>2, <3>1, <3>2, PollLeaf
      <3>4. Running(n')
        BY <2>1, <3>3 DEF Running, Kept, Above
      <3> QED
        BY <1>1, <3>1, <3>4, RunningStep
    <2> QED
      BY <2>2, <2>3
  <1>5. CASE kind.cons \notin StreamItems /\ kind.top # "timeout" /\ n.chain # "first"
    <2>1. InSecond(n) /\ ChainPoll
      BY <1>1, <1>5 DEF Running, PollItem
    <2>2. PICK m : m = [n EXCEPT !.again = @ \/ n.chain = "done"]
      OBVIOUS
    <2>3. FutOK(m) /\ m.second = n.second /\ m.spent = n.spent /\ m.chain = n.chain
      BY <2>1, <2>2 DEF InSecond, FutOK, NodeOK, Fields
    <2>4. PICK p : p = FuturePoll(m, "second")
      OBVIOUS
    <2>5. Ended(m.second) /\ "second" \notin m.spent
      BY <2>1, <2>3 DEF InSecond
    <2>6. /\ DOMAIN p = {"r", "n"} /\ NodeOK(p.n) /\ p.n.again = FALSE /\ p.n.left = m.left /\ Above(p.n, m)
          /\ p.n.work = m.work
          /\ \/ p.r = m.second /\ p.n.spent = m.spent \union {"second"}
             \/ p.r = NotReady /\ p.n.spent = m.spent
      BY <2>3, <2>4, <2>5, FutureFacts
    <2>7. Return(p)
      BY <2>1, <2>2, <2>4 DEF ChainPoll
    <2>8. CASE p.r = m.second
      <3>1. p.r.t # "notready"
        BY <2>5, <2>8 DEF Ended
      <3> QED
        BY <1>1, <2>6, <2>7, <3>1, DoneStep
    <2>9. CASE p.r = NotReady /\ p.n.spent = m.spent
      <3>1. n' = p.n /\ pc' = "idle"
        BY <2>7, <2>9 DEF Return, NotReady
      <3>2. FutOK(p.n)
        BY <2>3, <2>6, <2>9 DEF FutOK
      <3>3. InSecond(n)'
        BY <1>1, <2>1, <2>3, <2>5, <2>6, <2>9, <3>1, <3>2 DEF InSecond, Above
      <3> QED
        BY <1>1, <2>6, <3>1, <3>3 DEF FutureOK
    <2> QED
      BY <2>6, <2>8, <2>9
  <1>6. CASE kind.cons \notin StreamItems /\ kind.top # "timeout" /\ n.chain = "first"
    <2>1. Running(n)
      BY <1>1, <1>6 DEF InSecond
    <2>2. n' = n /\ pc' = "loop"
      BY <1>6 DEF PollItem
    <2> QED
      BY <1>1, <2>1, <2>2, RunningStep
  <1> QED
    BY <1>3, <1>4, <1>5, <1>6

\* A leaf becomes ready; the wait of the context is over.
LEMMA OccurStep ==
    ASSUME FutureOK, NEW l \in Leaf, Occur(l)
    PROVE  FutureOK'
  <1>1. /\ UNCHANGED kind /\ pc' = pc
        /\ n' = [n EXCEPT !.ready[l] = TRUE, !.reg = @ \ {l}, !.fires = IF l = "dur" THEN @ + 1 ELSE @]
    BY DEF Occur
  <1>2. pc \in {"idle", "loop"} /\ kind \in Kinds /\ (pc = "loop" => Running(n)) /\ (pc = "idle" => Running(n) \/ InSecond(n))
    BY DEF Occur, FutureOK
  <1>3. FutOK(n)
    BY <1>2 DEF Running, InSecond
  <1>4. DOMAIN n = Fields /\ n.ready \in [Leaf -> BOOLEAN]
    BY <1>3 DEF FutOK, NodeOK
  <1>5. /\ DOMAIN n' = Fields /\ n'.ready = [n.ready EXCEPT ![l] = TRUE] /\ n'.left = n.left /\ n'.again = n.again
        /\ n'.spent = n.spent /\ n'.work = n.work /\ Above(n', n)
    BY <1>1, <1>4 DEF Fields, Above
  <1>6. n'.ready \in [Leaf -> BOOLEAN]
    BY <1>4, <1>5
  <1>7. FutOK(n')
    BY <1>3, <1>5, <1>6 DEF FutOK, NodeOK
  <1>8. CASE Running(n)
    <2>1. Running(n')
      BY <1>5, <1>7, <1>8 DEF Running, Above
    <2> QED
      BY <1>1, <1>2, <2>1, RunningStep
  <1>9. CASE InSecond(n) /\ pc = "idle"
    <2>1. InSecond(n)'
      BY <1>1, <1>5, <1>7, <1>9 DEF InSecond, Above
    <2> QED
      BY <1>1, <1>2, <1>7, <1>9, <2>1 DEF FutureOK, FutOK
  <1> QED
    BY <1>2, <1>8, <1>9

LEMMA FutureInit == InitAll => FutureInv
  <1> SUFFICES ASSUME InitAll, ~Asking PROVE FutureOK
    BY DEF FutureInv
  <1>1. Init
    BY DEF InitAll, Fresh, Asking
  <1>2. PICK k \in Kinds : Fresh(k, Scripts(k))
    BY <1>1 DEF Init
  <1>3. /\ kind = k /\ pc = "idle" /\ n.ready = [l \in Leaf |-> FALSE] /\ n.chain = "first" /\ n.again = FALSE
        /\ n.fold = "ready" /\ n.spent = {} /\ n.work = NoFut /\ n.f = TRUE /\ n.left = script /\ script \in Scripts(k)
    BY <1>2 DEF Fresh
  <1>4. DOMAIN n = Fields
    BY <1>2 DEF Fresh, Fields
  <1>5. script \in Seq(Elements) /\ (kind.cons \in Notices => script # <<>>)
    <2>1. CASE k.cons \in Notices
      <3>1. script = <<Ok(<<1>>)>> /\ Ok(<<1>>) \in Elements
        BY <1>3, <2>1 DEF Scripts, Elements
      <3> QED
        BY <3>1
    <2>2. CASE k.cons \notin Notices
      <3>1. PICK m \in 0..MaxLen : script \in [1..m -> Elements]
        BY <1>3, <2>2 DEF Scripts
      <3>2. m \in Nat
        BY FutureBoundAssumption
      <3> QED
        BY <1>3, <2>2, <3>1, <3>2
    <2> QED
      BY <2>1, <2>2
  <1>6. FutOK(n)
    BY <1>3, <1>4, <1>5 DEF FutOK, NodeOK
  <1>7. Running(n)
    BY <1>3, <1>5, <1>6 DEF Running
  <1> QED
    BY <1>2, <1>3, <1>7 DEF FutureOK

LEMMA FutureNext == FutureInv /\ [NextAll]_allVars => FutureInv'
  <1> SUFFICES ASSUME FutureInv, [NextAll]_allVars, ~Asking' PROVE FutureOK'
    BY DEF FutureInv
  <1>1. ~Asking /\ FutureOK
    BY KindIsKept DEF Asking, FutureInv
  <1>2. CASE UNCHANGED vars
    BY <1>1, <1>2 DEF vars, FutureOK, Running, InSecond
  <1>3. CASE Next
    <2>1. CASE PollItem
      BY <1>1, <2>1, PollItemStep
    <2>2. CASE Turn
      BY <1>1, <2>2, TurnStep
    <2>3. CASE WaitDone
      BY <1>1, <2>3 DEF WaitDone, FutureOK, Running, InSecond
    <2>4. CASE \E l \in Leaf : Happen(l)
      BY <1>1, <2>4, OccurStep DEF Happen
    <2> QED
      BY <1>3, <2>1, <2>2, <2>3, <2>4 DEF Next
  <1>4. CASE UNCHANGED allVars
    BY <1>2, <1>4 DEF allVars
  <1> QED
    BY <1>1, <1>3, <1>4 DEF NextAll, PollAsked, TcpConnector, Answer

\* fut/*.rs, stream.rs, contextitems.rs, utils.rs, actors/resolver.rs: no
\* composition of the combinators polls a future after it ended, a chain or a
\* fold after it is used up, or takes a message, an address or a lookup that
\* is not there, whatever the order of the events: none of their panics.
THEOREM NothingPolledTwice == SpecAll => []PolledOnce
  <1>1. ConnectInv /\ FutureInv => PolledOnce
    <2>1. Asking /\ AskOK => PolledOnce
      BY DEF AskOK, FreshOK, PolledOnce
    <2>2. FutureOK => PolledOnce
      BY DEF FutureOK, Running, PolledOnce
    <2> QED
      BY <2>1, <2>2 DEF ConnectInv, FutureInv
  <1> QED
    BY <1>1, ConnectInit, ConnectNext, FutureInit, FutureNext, PTL DEF SpecAll


-----------------------------------------------------------------------------
(* What the handlers of stream items and notices are given.                  *)

IsItem == kind.cons \in StreamItems \union Notices

\* What the handler got is behind the item, what is left is ahead of it.
ItemOK ==
    /\ script \in Seq(Elements) /\ n.heard \in Seq(Elements) /\ n.handled \in Seq(Int)
    /\ Split(script, n.heard, n.left)
    /\ kind.cons \in Notices => script = <<Ok(<<1>>)>>
    /\ HandledInOrder

ItemInv == IsItem => ItemOK

\* The elements that are no errors are finitely many.
LEMMA OkUpToFinite ==
    ASSUME NEW h, NEW i \in Nat
    PROVE  IsFiniteSet(OkUpTo(h, i)) /\ Cardinality(OkUpTo(h, i)) \in Nat
  <1>1. IsFiniteSet(1..i)
    BY FS_Interval
  <1>2. OkUpTo(h, i) \subseteq 1..i
    BY DEF OkUpTo
  <1> QED
    BY <1>1, <1>2, FS_Subset, FS_CardinalityType

\* The count of an element is a position of what was delivered.
LEMMA OkUpToCount ==
    ASSUME NEW h, NEW k \in Nat, NEW i \in OkUpTo(h, k)
    PROVE  Cardinality(OkUpTo(h, i)) \in 1..Cardinality(OkUpTo(h, k))
  <1>1. i \in Nat /\ i <= k /\ i >= 1
    BY DEF OkUpTo
  <1>2. i \in OkUpTo(h, i) /\ OkUpTo(h, i) \subseteq OkUpTo(h, k)
    BY <1>1 DEF OkUpTo
  <1>3. /\ IsFiniteSet(OkUpTo(h, i)) /\ Cardinality(OkUpTo(h, i)) \in Nat
        /\ IsFiniteSet(OkUpTo(h, k)) /\ Cardinality(OkUpTo(h, k)) \in Nat
    BY <1>1, OkUpToFinite
  <1>4. Cardinality(OkUpTo(h, i)) <= Cardinality(OkUpTo(h, k))
    BY <1>2, <1>3, FS_Subset
  <1>5. Cardinality(OkUpTo(h, i)) # 0
    BY <1>2, <1>3, FS_EmptySet
  <1> QED
    BY <1>3, <1>4, <1>5

\* An element more is heard.
LEMMA OkUpToAppend ==
    ASSUME NEW S, NEW h \in Seq(S), NEW e \in S
    PROVE  LET q == Append(h, e) IN
           /\ Len(h) \in Nat /\ Len(q) = Len(h) + 1 /\ q[Len(h) + 1] = e
           /\ \A i \in 1..Len(h) : q[i] = h[i] /\ OkUpTo(q, i) = OkUpTo(h, i)
           /\ e.t = "ok" => /\ OkUpTo(q, Len(h) + 1) = OkUpTo(h, Len(h)) \union {Len(h) + 1}
                            /\ Cardinality(OkUpTo(q, Len(h) + 1)) = Cardinality(OkUpTo(h, Len(h))) + 1
           /\ e.t # "ok" => OkUpTo(q, Len(h) + 1) = OkUpTo(h, Len(h))
  <1>1. PICK q : q = Append(h, e)
    OBVIOUS
  <1>2. /\ Len(h) \in Nat /\ Len(q) = Len(h) + 1 /\ q[Len(h) + 1] = e
        /\ \A i \in 1..Len(h) : q[i] = h[i]
    BY <1>1
  <1>3. \A i \in 1..Len(h) : OkUpTo(q, i) = OkUpTo(h, i)
    BY <1>2 DEF OkUpTo
  <1>4. e.t = "ok" => OkUpTo(q, Len(h) + 1) = OkUpTo(h, Len(h)) \union {Len(h) + 1}
    BY <1>2 DEF OkUpTo
  <1>5. e.t # "ok" => OkUpTo(q, Len(h) + 1) = OkUpTo(h, Len(h))
    BY <1>2 DEF OkUpTo
  <1>6. Cardinality(OkUpTo(h, Len(h)) \union {Len(h) + 1}) = Cardinality(OkUpTo(h, Len(h))) + 1
    <2>1. Len(h) + 1 \notin OkUpTo(h, Len(h))
      BY <1>2 DEF OkUpTo
    <2> QED
      BY <1>2, <2>1, OkUpToFinite, FS_AddElement
  <1> QED
    BY <1>1, <1>2, <1>3, <1>4, <1>5, <1>6, Zenon

\* An element is heard and given to the handler.
LEMMA DeliverOk ==
    ASSUME NEW h \in Seq(Elements), NEW g \in Seq(Int), Delivered(h, g),
           NEW e \in Elements, e.t = "ok"
    PROVE  g \o e.v \in Seq(Int) /\ Delivered(Append(h, e), g \o e.v)
  <1>1. PICK x \in Int : e.v = <<x>>
    BY DEF Elements, Ok, Err
  <1>2. PICK q : q = Append(h, e)
    OBVIOUS
  <1>3. /\ Len(h) \in Nat /\ Len(q) = Len(h) + 1 /\ q[Len(h) + 1] = e
        /\ \A i \in 1..Len(h) : q[i] = h[i] /\ OkUpTo(q, i) = OkUpTo(h, i)
        /\ OkUpTo(q, Len(h) + 1) = OkUpTo(h, Len(h)) \union {Len(h) + 1}
        /\ Cardinality(OkUpTo(q, Len(h) + 1)) = Cardinality(OkUpTo(h, Len(h))) + 1
    BY <1>2, OkUpToAppend
  <1>4. PICK f : f = g \o e.v
    OBVIOUS
  <1>5. /\ f \in Seq(Int) /\ Len(g) \in Nat /\ Len(f) = Len(g) + 1 /\ f[Len(g) + 1] = x
        /\ \A i \in 1..Len(g) : f[i] = g[i]
    BY <1>1, <1>4
  <1>6. /\ Len(g) = Cardinality(OkUpTo(h, Len(h)))
        /\ \A i \in OkUpTo(h, Len(h)) : g[Cardinality(OkUpTo(h, i))] = h[i].v[1]
    BY DEF Delivered
  <1>7. Len(f) = Cardinality(OkUpTo(q, Len(q)))
    BY <1>3, <1>5, <1>6
  <1>8. ASSUME NEW i \in OkUpTo(q, Len(q)) PROVE f[Cardinality(OkUpTo(q, i))] = q[i].v[1]
    <2>1. CASE i = Len(h) + 1
      <3>1. Cardinality(OkUpTo(q, i)) = Len(g) + 1 /\ q[i] = e
        BY <1>3, <1>6, <2>1
      <3>2. e.v[1] = x
        BY <1>1
      <3> QED
        BY <1>5, <3>1, <3>2
    <2>2. CASE i \in OkUpTo(h, Len(h))
      <3>1. i \in 1..Len(h)
        BY <2>2 DEF OkUpTo
      <3>2. q[i] = h[i] /\ OkUpTo(q, i) = OkUpTo(h, i)
        BY <1>3, <3>1
      <3>3. Cardinality(OkUpTo(h, i)) \in 1..Len(g)
        BY <1>3, <1>6, <2>2, OkUpToCount
      <3> QED
        BY <1>5, <1>6, <2>2, <3>2, <3>3
    <2> QED
      BY <1>3, <2>1, <2>2
  <1>9. Delivered(q, f)
    BY <1>7, <1>8 DEF Delivered
  <1> QED
    BY <1>2, <1>4, <1>5, <1>9

\* An error is heard.
LEMMA DeliverErr ==
    ASSUME NEW h \in Seq(Elements), NEW g \in Seq(Int), Delivered(h, g),
           NEW e \in Elements, e.t # "ok"
    PROVE  Delivered(Append(h, e), g)
  <1>1. PICK q : q = Append(h, e)
    OBVIOUS
  <1>2. /\ Len(h) \in Nat /\ Len(q) = Len(h) + 1
        /\ \A i \in 1..Len(h) : q[i] = h[i] /\ OkUpTo(q, i) = OkUpTo(h, i)
        /\ OkUpTo(q, Len(h) + 1) = OkUpTo(h, Len(h))
    BY <1>1, OkUpToAppend
  <1>3. /\ Len(g) = Cardinality(OkUpTo(h, Len(h)))
        /\ \A i \in OkUpTo(h, Len(h)) : g[Cardinality(OkUpTo(h, i))] = h[i].v[1]
    BY DEF Delivered
  <1>4. \A i \in OkUpTo(h, Len(h)) : i \in 1..Len(h)
    BY DEF OkUpTo
  <1>5. Delivered(q, g)
    BY <1>2, <1>3, <1>4 DEF Delivered
  <1> QED
    BY <1>1, <1>5


\* What an item polls of its source.
LEMMA SourceHeard ==
    ASSUME NEW m, FutOK(m)
    PROVE  LET s == Source(m) IN
           /\ DOMAIN s = {"r", "n"} /\ DOMAIN s.n = Fields
           /\ s.n.handled = m.handled /\ s.n.early = m.early /\ s.n.acc = m.acc
           /\ \/ s.r = NotReady /\ s.n.left = m.left /\ s.n.heard = m.heard
              \/ s.r = End /\ m.left = <<>> /\ s.n.left = m.left /\ s.n.heard = m.heard
              \/ /\ m.left # <<>> /\ s.r = Head(m.left)
                 /\ s.n.left = Tail(m.left) /\ s.n.heard = Append(m.heard, Head(m.left))
  <1>1. DOMAIN m = Fields /\ m.ready \in [Leaf -> BOOLEAN]
    BY DEF FutOK, NodeOK
  <1>2. PICK p : p = Poll(m, "src")
    OBVIOUS
  <1>3. /\ DOMAIN p = Fields /\ p.handled = m.handled /\ p.early = m.early /\ p.acc = m.acc
        /\ p.left = m.left /\ p.heard = m.heard
    BY <1>1, <1>2 DEF Poll, Fields
  <1>4. CASE ~m.ready["src"]
    <2>1. Source(m) = [r |-> NotReady, n |-> p]
      BY <1>2, <1>4 DEF Source
    <2> QED
      BY <1>3, <2>1
  <1>5. CASE m.ready["src"] /\ m.left = <<>>
    <2>0. PICK q : q = [p EXCEPT !.spent = @ \union {"src"}]
      OBVIOUS
    <2>1. Source(m) = [r |-> End, n |-> q]
      BY <1>2, <1>5, <2>0 DEF Source
    <2>2. /\ DOMAIN q = Fields /\ q.handled = m.handled /\ q.early = m.early /\ q.acc = m.acc
          /\ q.left = m.left /\ q.heard = m.heard
      BY <1>3, <2>0 DEF Fields
    <2> QED
      BY <1>5, <2>1, <2>2
  <1>6. CASE m.ready["src"] /\ m.left # <<>>
    <2>1. PICK q : q = [p EXCEPT !.left = Tail(@), !.ready["src"] = FALSE, !.heard = Append(@, Head(m.left))]
      OBVIOUS
    <2>2. Source(m) = [r |-> Head(m.left), n |-> q]
      BY <1>2, <1>6, <2>1 DEF Source
    <2>3. /\ DOMAIN q = Fields /\ q.handled = m.handled /\ q.early = m.early /\ q.acc = m.acc
          /\ q.left = Tail(m.left) /\ q.heard = Append(m.heard, Head(m.left))
      BY <1>3, <2>1 DEF Fields
    <2> QED
      BY <1>6, <2>2, <2>3
  <1> QED
    BY <1>4, <1>5, <1>6

\* Nothing is heard, nothing is handled.
LEMMA ItemUnmoved ==
    ASSUME ItemOK, IsItem, UNCHANGED <<kind, script>>, pc # "done", pc' \in {"idle", "loop"},
           n'.heard = n.heard, n'.left = n.left, n'.handled = n.handled,
           pc' = "loop" /\ waiting' => n'.early,
           kind.cons \in {"notify_later", "run_later"} /\ n.ready["limit"] => n'.ready["limit"]
    PROVE  ItemOK'
  <1>1. /\ script \in Seq(Elements) /\ n.heard \in Seq(Elements) /\ n.handled \in Seq(Int)
        /\ Split(script, n.heard, n.left)
        /\ kind.cons \in Notices => script = <<Ok(<<1>>)>>
        /\ Delivered(n.heard, n.handled)
        /\ kind.cons = "stream" => \A i \in DOMAIN n.heard : n.heard[i].t = "err" => pc = "done" /\ i = Len(n.heard)
        /\ kind.cons \in {"notify_later", "run_later"} /\ n.handled # <<>> => n.ready["limit"]
    BY DEF ItemOK, HandledInOrder, IsItem
  <1>2. HandledInOrder'
    BY <1>1 DEF HandledInOrder
  <1> QED
    BY <1>1, <1>2 DEF ItemOK

\* The item ends when the source has.
LEMMA ItemEnds ==
    ASSUME ItemOK, IsItem, UNCHANGED <<kind, script>>, kind.cons \in StreamItems, pc # "done", pc' = "done",
           n'.heard = n.heard, n'.left = n.left, n'.handled = n.handled, n.left = <<>>
    PROVE  ItemOK'
  <1>1. /\ script \in Seq(Elements) /\ n.heard \in Seq(Elements) /\ n.handled \in Seq(Int)
        /\ Split(script, n.heard, n.left)
        /\ Delivered(n.heard, n.handled)
        /\ kind.cons = "stream" => \A i \in DOMAIN n.heard : n.heard[i].t = "err" => pc = "done" /\ i = Len(n.heard)
    BY DEF ItemOK, HandledInOrder, IsItem
  <1>2. kind.cons \notin Notices /\ kind.cons \notin {"notify_later", "run_later"}
    BY KindAssumption
  <1>3. n.heard = script
    <2>1. PICK h : h = n.heard
      OBVIOUS
    <2>2. h \in Seq(Elements) /\ Split(script, h, <<>>)
      BY <1>1, <2>1
    <2>3. Len(h) \in Nat /\ Len(script) = Len(h) /\ \A i \in 1..Len(h) : h[i] = script[i]
      BY <1>1, <2>2 DEF Split
    <2>4. h = script
      BY <1>1, <2>2, <2>3
    <2> QED
      BY <2>1, <2>4
  <1>4. HandledInOrder'
    BY <1>1, <1>2, <1>3 DEF HandledInOrder
  <1> QED
    BY <1>1, <1>2, <1>4 DEF ItemOK


\* An element is heard: it is handled, or it is an error and ends a "stream".
LEMMA ItemHears ==
    ASSUME ItemOK, IsItem, UNCHANGED <<kind, script>>, kind.cons \in StreamItems, pc = "loop",
           n.left \in Seq(Elements), n.left # <<>>,
           n'.heard = Append(n.heard, Head(n.left)), n'.left = Tail(n.left),
           \/ Head(n.left).t = "ok" /\ n'.handled = n.handled \o Head(n.left).v /\ pc' \in {"idle", "loop"}
           \/ /\ Head(n.left).t = "err" /\ n'.handled = n.handled
              /\ pc' = IF kind.cons = "stream" THEN "done" ELSE "loop",
           pc' = "loop" /\ waiting' => n'.early
    PROVE  ItemOK'
  <1>1. /\ script \in Seq(Elements) /\ n.heard \in Seq(Elements) /\ n.handled \in Seq(Int)
        /\ Split(script, n.heard, n.left)
        /\ Delivered(n.heard, n.handled)
        /\ kind.cons = "stream" => \A i \in DOMAIN n.heard : n.heard[i].t # "err"
    BY DEF ItemOK, HandledInOrder, IsItem
  <1>2. kind.cons \notin Notices /\ kind.cons \notin {"notify_later", "run_later"}
    BY KindAssumption
  <1>3. PICK h, left, g, e : h = n.heard /\ left = n.left /\ g = n.handled /\ e = Head(n.left)
    OBVIOUS
  <1>4. h \in Seq(Elements) /\ left \in Seq(Elements) /\ left # <<>> /\ g \in Seq(Int) /\ e = Head(left)
        /\ Split(script, h, left) /\ Delivered(h, g)
    BY <1>1, <1>3
  <1>5. Advanced(Elements, script, h, left, e)
    BY <1>1, <1>4, NextTry
  <1>6. PICK q : q = Append(h, e)
    OBVIOUS
  <1>7. /\ e \in Elements /\ q \in Seq(Elements) /\ Tail(left) \in Seq(Elements)
        /\ Len(h) \in Nat /\ Len(q) = Len(h) + 1 /\ q[Len(h) + 1] = e
        /\ Split(script, q, Tail(left))
    BY <1>5, <1>6 DEF Advanced
  <1>8. \A i \in 1..Len(h) : q[i] = h[i]
    BY <1>4, <1>6, <1>7
  <1>9. n'.heard = q /\ n'.left = Tail(left)
    BY <1>3, <1>6
  <1>10. e.t # "ok" => e.t = "err"
    BY <1>7 DEF Elements, Ok, Err
  <1>11. n'.handled \in Seq(Int) /\ Delivered(q, n'.handled)
    <2>1. CASE e.t = "ok"
      <3>1. g \o e.v \in Seq(Int) /\ Delivered(q, g \o e.v)
        BY <1>4, <1>6, <1>7, <2>1, DeliverOk
      <3>2. n'.handled = g \o e.v
        BY <1>3, <2>1
      <3> QED
        BY <3>1, <3>2
    <2>2. CASE e.t # "ok"
      <3>1. Delivered(q, g)
        BY <1>4, <1>6, <1>7, <2>2, DeliverErr
      <3>2. n'.handled = g
        BY <1>3, <2>2
      <3> QED
        BY <1>4, <3>1, <3>2
    <2> QED
      BY <2>1, <2>2
  <1>12. DOMAIN h = 1..Len(h) /\ DOMAIN q = 1..(Len(h) + 1)
    BY <1>4, <1>7
  <1>13. kind.cons = "stream" => \A i \in DOMAIN q : q[i].t = "err" => pc' = "done" /\ i = Len(q)
    <2> SUFFICES ASSUME kind.cons = "stream", NEW i \in DOMAIN q, q[i].t = "err"
                 PROVE  pc' = "done" /\ i = Len(q)
      OBVIOUS
    <2>1. i \notin 1..Len(h)
      BY <1>1, <1>3, <1>8, <1>12
    <2>2. i = Len(h) + 1
      BY <1>7, <1>12, <2>1
    <2>3. e.t = "err"
      BY <1>7, <2>2
    <2> QED
      BY <1>3, <1>7, <2>2, <2>3
  <1>14. pc' = "done" => kind.cons = "stream" /\ q[Len(q)].t = "err"
    BY <1>3, <1>7
  <1>15. HandledInOrder'
    BY <1>2, <1>9, <1>11, <1>13, <1>14 DEF HandledInOrder
  <1> QED
    BY <1>1, <1>2, <1>7, <1>9, <1>11, <1>15 DEF ItemOK

LEMMA ItemTurn ==
    ASSUME ItemOK, IsItem, FutureOK, UNCHANGED <<kind, script>>, ActorStream \/ ActorMessageStreamItem
    PROVE  ItemOK'
  <1>1. Running(n) /\ kind.cons \in StreamItems /\ pc = "loop" /\ (kind.cons = "stream" \/ kind.cons = "continue" \/ kind.cons = "messages")
    BY KindAssumption DEF FutureOK, ActorStream, ActorMessageStreamItem, IsItem
  <1>2. FutOK(n) /\ n.left \in Seq(Elements)
    BY <1>1 DEF Running, FutOK
  <1>3. PICK s : s = Source(n)
    OBVIOUS
  <1>4. /\ DOMAIN s = {"r", "n"} /\ DOMAIN s.n = Fields
        /\ s.n.handled = n.handled /\ s.n.early = n.early
        /\ \/ s.r = NotReady /\ s.n.left = n.left /\ s.n.heard = n.heard
           \/ s.r = End /\ n.left = <<>> /\ s.n.left = n.left /\ s.n.heard = n.heard
           \/ /\ n.left # <<>> /\ s.r = Head(n.left)
              /\ s.n.left = Tail(n.left) /\ s.n.heard = Append(n.heard, Head(n.left))
    BY <1>2, <1>3, SourceHeard
  <1>5. waiting => n.early
    BY <1>1 DEF ItemOK, HandledInOrder, IsItem
  <1>6. kind.cons \notin {"notify_later", "run_later"}
    BY <1>1
  <1>7. CASE s.r = NotReady
    <2>1. n' = s.n /\ pc' = "idle"
      <3>1. s.r.t = "notready"
        BY <1>7 DEF NotReady
      <3>2. Return(s)
        BY <1>3, <3>1 DEF ActorStream, ActorMessageStreamItem
      <3> QED
        BY <3>1, <3>2 DEF Return
    <2>2. n'.heard = n.heard /\ n'.left = n.left /\ n'.handled = n.handled
      BY <1>4, <1>7, <2>1, <1>2, HeadTail DEF NotReady, End, Elements, Ok, Err
    <2> QED
      BY <1>1, <1>6, <2>1, <2>2, ItemUnmoved
  <1>8. CASE s.r = End
    <2>1. n' = s.n /\ pc' = "done"
      <3>1. s.r.t = "end"
        BY <1>8 DEF End
      <3>2. Return([s EXCEPT !.r = Ok(n.handled)])
        BY <1>3, <3>1 DEF ActorStream, ActorMessageStreamItem
      <3> QED
        BY <1>4, <3>2 DEF Return, Ok
    <2>2. n.left = <<>> /\ n'.heard = n.heard /\ n'.left = n.left /\ n'.handled = n.handled
      BY <1>4, <1>8, <2>1, <1>2, HeadTail DEF NotReady, End, Elements, Ok, Err
    <2> QED
      BY <1>1, <2>1, <2>2, ItemEnds
  <1>9. CASE s.r # NotReady /\ s.r # End
    <2>1. /\ n.left # <<>> /\ s.r = Head(n.left)
          /\ s.n.left = Tail(n.left) /\ s.n.heard = Append(n.heard, Head(n.left))
      BY <1>4, <1>9
    <2>2. s.r \in Elements
      BY <1>2, <2>1, HeadTail
    <2>3. CASE s.r.t = "ok"
      <3>1. Handled(s)
        BY <1>3, <2>3 DEF ActorStream, ActorMessageStreamItem
      <3>2. PICK v : v = s.n.handled \o s.r.v
        OBVIOUS
      <3>3. n' = [s.n EXCEPT !.handled = v] /\ pc' \in {"idle", "loop"} /\ (pc' = "loop" => waiting' = FALSE)
        BY <3>1, <3>2 DEF Handled
      <3>4. /\ n'.heard = s.n.heard /\ n'.left = s.n.left /\ n'.handled = v
        BY <1>4, <3>3 DEF Fields
      <3>5. v = n.handled \o Head(n.left).v
        BY <1>4, <2>1, <3>2
      <3> QED
        BY <1>1, <1>2, <2>1, <2>3, <3>3, <3>4, <3>5, ItemHears
    <2>4. CASE s.r.t = "err"
      <3>1. CASE kind.cons = "stream"
        <4>1. n' = s.n /\ pc' = "done"
          BY <1>3, <1>4, <2>4, <3>1 DEF ActorStream, ActorMessageStreamItem, Return, Ok
        <4> QED
          BY <1>1, <1>2, <1>4, <2>1, <2>4, <3>1, <4>1, ItemHears
      <3>2. CASE kind.cons = "continue"
        <4>1. n' = [s.n EXCEPT !.early = waiting'] /\ pc' = "loop"
          BY <1>1, <1>3, <2>4, <3>2 DEF ActorStream, ActorMessageStreamItem
        <4>2. /\ n'.heard = s.n.heard /\ n'.left = s.n.left /\ n'.handled = s.n.handled /\ n'.early = waiting'
          BY <1>4, <4>1 DEF Fields
        <4> QED
          BY <1>1, <1>2, <1>4, <2>1, <2>4, <3>2, <4>1, <4>2, ItemHears
      <3>3. CASE kind.cons = "messages"
        <4>1. n' = s.n /\ pc' = "loop" /\ waiting' = waiting
          BY <1>1, <1>3, <2>4, <3>3 DEF ActorStream, ActorMessageStreamItem, Continue
        <4>2. waiting' => n'.early
          BY <1>4, <1>5, <4>1
        <4> QED
          BY <1>1, <1>2, <1>4, <2>1, <2>4, <3>3, <4>1, <4>2, ItemHears
      <3> QED
        BY <1>1, <3>1, <3>2, <3>3
    <2> QED
      BY <2>2, <2>3, <2>4 DEF Elements, Ok, Err
  <1> QED
    BY <1>7, <1>8, <1>9


\* A notice gives its message, once its timer has fired if it has one.
LEMMA NoticeTurn ==
    ASSUME ItemOK, IsItem, FutureOK, UNCHANGED <<kind, script>>, kind.cons \in Notices,
           ActorMessageItem \/ ActorDelayedMessageItem \/ TimerFunc
    PROVE  ItemOK'
  <1>1. pc = "loop" /\ Running(n) /\ n.left # <<>> /\ kind.cons \notin StreamItems /\ kind.cons # "stream"
    BY KindAssumption DEF FutureOK, ActorMessageItem, ActorDelayedMessageItem, TimerFunc, Running
  <1>2. DOMAIN n = Fields /\ n.ready \in [Leaf -> BOOLEAN] /\ n.left \in Seq(Elements)
    BY <1>1 DEF Running, FutOK, NodeOK
  <1>3. /\ script = <<Ok(<<1>>)>> /\ n.heard \in Seq(Elements) /\ n.handled \in Seq(Int)
        /\ Split(script, n.heard, n.left) /\ Delivered(n.heard, n.handled)
        /\ script \in Seq(Elements)
    BY DEF ItemOK, HandledInOrder, IsItem
  <1>4. CASE Return([r |-> NotReady, n |-> Poll(n, "limit")])
    <2>1. n' = Poll(n, "limit") /\ pc' = "idle"
      BY <1>4 DEF Return, NotReady
    <2>2. n'.heard = n.heard /\ n'.left = n.left /\ n'.handled = n.handled /\ n'.ready = n.ready
      BY <1>2, <2>1 DEF Poll, Fields
    <2> QED
      BY <1>1, <2>1, <2>2, ItemUnmoved
  <1>5. CASE Deliver(n) /\ (kind.cons \in {"notify_later", "run_later"} => n.ready["limit"])
    <2>1. PICK h, left, g : h = n.heard /\ left = n.left /\ g = n.handled
      OBVIOUS
    <2>2. Len(h) \in Nat /\ Len(left) \in Nat /\ Len(left) # 0 /\ Len(h) + Len(left) = 1
      <3>1. Len(script) = 1
        BY <1>3
      <3>2. Len(h) + Len(left) = Len(script)
        BY <1>3, <2>1 DEF Split
      <3>3. h \in Seq(Elements) /\ left \in Seq(Elements) /\ left # <<>>
        BY <1>1, <1>2, <1>3, <2>1
      <3>4. Len(h) \in Nat /\ Len(left) \in Nat /\ Len(left) # 0
        BY <3>3
      <3> QED
        BY <3>1, <3>2, <3>4
    <2>3. Len(h) = 0 /\ Len(left) = 1
      <3>1. \A i, j \in Nat : j # 0 /\ i + j = 1 => i = 0 /\ j = 1
        OBVIOUS
      <3> QED
        BY <2>2, <3>1
    <2>4. h = <<>>
      BY <1>3, <2>1, <2>3
    <2>5. left[1] = Ok(<<1>>)
      <3>1. left[1] = script[0 + 1]
        BY <1>3, <2>1, <2>3 DEF Split
      <3> QED
        BY <1>3, <3>1
    <2>6. left = <<Ok(<<1>>)>>
      BY <1>2, <2>1, <2>3, <2>5
    <2>7. Delivered(<<Ok(<<1>>)>>, g \o <<1>>) /\ g \o <<1>> \in Seq(Int)
      <3>1. Ok(<<1>>) \in Elements /\ Ok(<<1>>).t = "ok" /\ Ok(<<1>>).v = <<1>>
        BY DEF Elements, Ok
      <3>2. PICK e : e = Ok(<<1>>)
        OBVIOUS
      <3>3. g \o e.v \in Seq(Int) /\ Delivered(Append(h, e), g \o e.v)
        BY <1>3, <2>1, <3>1, <3>2, DeliverOk
      <3>4. Append(h, e) = <<e>>
        BY <2>4
      <3> QED
        BY <3>1, <3>2, <3>3, <3>4
    <2>8. PICK v : v = g \o <<1>>
      OBVIOUS
    <2>9. n' = [n EXCEPT !.left = <<>>, !.handled = v, !.heard = left] /\ pc' = "done"
      <3>1. n.left[1].v = <<1>>
        BY <2>1, <2>5 DEF Ok
      <3> QED
        BY <1>1, <1>5, <2>1, <2>8, <3>1 DEF Deliver, Return, Ok
    <2>10. n'.heard = script /\ n'.left = <<>> /\ n'.handled = v /\ n'.ready = n.ready
      BY <1>2, <1>3, <2>6, <2>9 DEF Fields
    <2>11. Split(script, script, <<>>)
      BY <1>3 DEF Split
    <2>12. Delivered(script, v) /\ v \in Seq(Int)
      BY <1>3, <2>7, <2>8
    <2>13. HandledInOrder'
      BY <1>1, <1>5, <2>9, <2>10, <2>12 DEF HandledInOrder
    <2> QED
      BY <1>3, <2>10, <2>11, <2>12, <2>13 DEF ItemOK
  <1> QED
    BY <1>4, <1>5 DEF ActorMessageItem, ActorDelayedMessageItem, TimerFunc

LEMMA ItemPolled ==
    ASSUME ItemOK, IsItem, FutureOK, PollItem
    PROVE  ItemOK'
  <1>1. UNCHANGED <<kind, script>> /\ pc = "idle" /\ waiting # TRUE
    BY DEF PollItem
  <1>2. kind.top = "none" /\ kind.cons \notin Consumers
    BY KindAssumption DEF IsItem, FutureOK, Kinds, StreamKinds, NoticeKinds, Items
  <1>3. Running(n)
    BY <1>1, <1>2 DEF FutureOK, InSecond
  <1>4. DOMAIN n = Fields /\ n.chain = "first"
    BY <1>3 DEF Running, FutOK, NodeOK
  <1>5. CASE kind.cons \in StreamItems
    <2>1. n' = [n EXCEPT !.started = TRUE, !.early = waiting'] /\ pc' = "loop"
      BY <1>5 DEF PollItem, Started
    <2>2. n'.heard = n.heard /\ n'.left = n.left /\ n'.handled = n.handled /\ n'.early = waiting' /\ n'.ready = n.ready
      BY <1>4, <2>1 DEF Fields
    <2> QED
      BY <1>1, <2>1, <2>2, ItemUnmoved
  <1>6. CASE kind.cons \notin StreamItems
    <2>1. n' = n /\ pc' = "loop" /\ waiting' = waiting
      BY <1>2, <1>4, <1>6 DEF PollItem
    <2> QED
      BY <1>1, <2>1, ItemUnmoved
  <1> QED
    BY <1>5, <1>6

LEMMA ItemOccurs ==
    ASSUME ItemOK, IsItem, FutureOK, NEW l \in Leaf, Occur(l)
    PROVE  ItemOK'
  <1>1. /\ UNCHANGED <<kind, script, pc, waiting>> /\ pc # "done"
        /\ n' = [n EXCEPT !.ready[l] = TRUE, !.reg = @ \ {l}, !.fires = IF l = "dur" THEN @ + 1 ELSE @]
    BY DEF Occur
  <1>2. kind.cons \notin Consumers
    BY KindAssumption DEF IsItem
  <1>3. pc \in {"idle", "loop"} /\ Running(n)
    BY <1>1, <1>2 DEF FutureOK, InSecond
  <1>4. DOMAIN n = Fields /\ n.ready \in [Leaf -> BOOLEAN]
    BY <1>3 DEF Running, FutOK, NodeOK
  <1>5. /\ n'.heard = n.heard /\ n'.left = n.left /\ n'.handled = n.handled /\ n'.early = n.early
        /\ n'.ready = [n.ready EXCEPT ![l] = TRUE]
    BY <1>1, <1>4 DEF Fields
  <1>6. n.ready["limit"] => n'.ready["limit"]
    BY <1>4, <1>5
  <1>7. pc' = "loop" /\ waiting' => n'.early
    BY <1>1, <1>5 DEF ItemOK, HandledInOrder, IsItem
  <1> QED
    BY <1>1, <1>3, <1>5, <1>6, <1>7, ItemUnmoved

LEMMA ItemInit == InitAll => ItemInv
  <1> SUFFICES ASSUME InitAll, IsItem PROVE ItemOK
    BY DEF ItemInv
  <1>1. ~Asking
    BY KindAssumption, ConnectorAssumption DEF IsItem, Asking
  <1>2. FutureOK
    BY <1>1, FutureInit DEF FutureInv
  <1>3. Init
    BY <1>1 DEF InitAll, Fresh, Asking
  <1>4. PICK k \in Kinds : Fresh(k, Scripts(k))
    BY <1>3 DEF Init
  <1>5. /\ kind = k /\ pc = "idle" /\ n.left = script /\ n.heard = <<>> /\ n.handled = <<>> /\ script \in Scripts(k)
    BY <1>4 DEF Fresh
  <1>6. script \in Seq(Elements)
    BY <1>2, <1>5 DEF FutureOK, Running, InSecond, FutOK
  <1>7. kind.cons \in Notices => script = <<Ok(<<1>>)>>
    BY <1>5 DEF Scripts
  <1>8. Split(script, <<>>, script)
    BY <1>6 DEF Split
  <1>9. Delivered(<<>>, <<>>)
    <2>1. OkUpTo(<<>>, Len(<<>>)) = {}
      BY DEF OkUpTo
    <2> QED
      BY <2>1, FS_EmptySet DEF Delivered
  <1>10. HandledInOrder
    BY <1>5, <1>9 DEF HandledInOrder
  <1> QED
    BY <1>5, <1>6, <1>7, <1>8, <1>10 DEF ItemOK

LEMMA ItemNext == ItemInv /\ FutureInv /\ [NextAll]_allVars => ItemInv'
  <1> SUFFICES ASSUME ItemInv, FutureInv, [NextAll]_allVars, IsItem' PROVE ItemOK'
    BY DEF ItemInv
  <1>1. IsItem /\ ItemOK
    BY KindIsKept DEF IsItem, ItemInv
  <1>2. ~Asking
    BY <1>1, KindAssumption, ConnectorAssumption DEF IsItem, Asking
  <1>3. FutureOK
    BY <1>2 DEF FutureInv
  <1>4. CASE UNCHANGED allVars
    BY <1>1, <1>4 DEF allVars, vars, ItemOK, HandledInOrder
  <1>5. CASE PollItem
    BY <1>1, <1>3, <1>5, ItemPolled
  <1>6. CASE Turn
    <2>1. UNCHANGED <<kind, script>> /\ kind.cons \notin Consumers /\ kind.cons \in StreamItems \union Notices
      BY <1>1, <1>6, KindAssumption DEF Turn, IsItem
    <2>2. ~StreamFold /\ ~StreamFinish
      BY <2>1, KindAssumption DEF StreamFold, StreamFinish
    <2>3. CASE ActorStream \/ ActorMessageStreamItem
      BY <1>1, <1>3, <2>1, <2>3, ItemTurn
    <2>4. CASE ActorMessageItem \/ ActorDelayedMessageItem \/ TimerFunc
      <3>1. kind.cons \in Notices
        BY <2>1, <2>4, KindAssumption DEF ActorMessageItem, ActorDelayedMessageItem, TimerFunc
      <3> QED
        BY <1>1, <1>3, <2>1, <2>4, <3>1, NoticeTurn
    <2> QED
      BY <1>6, <2>2, <2>3, <2>4 DEF Turn
  <1>7. CASE WaitDone
    <2>1. UNCHANGED <<kind, script, n, pc>> /\ pc = "idle"
      BY <1>7 DEF WaitDone
    <2> QED
      BY <1>1, <2>1, ItemUnmoved
  <1>8. CASE \E l \in Leaf : Happen(l)
    BY <1>1, <1>3, <1>8, ItemOccurs DEF Happen
  <1> QED
    BY <1>2, <1>4, <1>5, <1>6, <1>7, <1>8 DEF NextAll, Next, PollAsked, TcpConnector, Answer

\* stream.rs:118-139, contextitems.rs, utils.rs: the handler of a stream item
\* is given every element in order and once, however often the item is
\* suspended; the item ends with its source or at the error it stops for; a
\* notice gives its message once, and not before its timer has fired.
THEOREM ItemsHandleInOrder == SpecAll => []HandledInOrder
  <1>1. ItemInv => HandledInOrder
    BY DEF ItemInv, ItemOK, HandledInOrder, IsItem
  <1> QED
    BY <1>1, FutureInit, FutureNext, ItemInit, ItemNext, PTL DEF SpecAll

-----------------------------------------------------------------------------
(* What a composed future returns.                                           *)

\* What a stream is made of: elements of the source, and timeouts.
Heard == Elements \union {TimedOut}

Through(e) == ThroughUpper(ThroughLower(e))

\* An element that ends the consumer with an error.
Bad(e) == Through(e).t = "err" \/ (kind.cons = "fold" /\ Digit(Through(e).v) = 3)

\* What was heard of the source is the front of s, and l the rest.
Traced(s, h, l) ==
    /\ Cardinality(SourceUpTo(h, Len(h))) + Len(l) = Len(s)
    /\ \A i \in SourceUpTo(h, Len(h)) : s[Cardinality(SourceUpTo(h, i))] = h[i]
    /\ \A j \in 1..Len(l) : l[j] = s[Cardinality(SourceUpTo(h, Len(h))) + j]

\* The consumer is through with the first c elements.
Gathered(m, c) ==
    /\ \A i \in 1..c : ~Bad(m.heard[i])
    /\ kind.cons = "fold" =>
          m.acc \in Seq(Int) /\ Len(m.acc) = c /\ \A i \in 1..c : m.acc[i] = Through(m.heard[i]).v[1]

\* The stream has given c elements; its future works on one more.
StreamAt(m, c) ==
    \/ m.work = NoFut /\ Len(m.heard) = c
    \/ /\ m.work # NoFut /\ kind.upper # "none"
       /\ Len(m.heard) = c + 1 /\ m.work = Through(m.heard[c + 1])

\* StreamFold's future works on one more.
FoldAt(m, c) ==
    /\ m.work = NoFut /\ Len(m.heard) = c + 1
    /\ Through(m.heard[c + 1]).t = "ok" /\ m.step = Folded(m.acc, Through(m.heard[c + 1]).v)

Working(m) ==
    \E c \in Nat :
        /\ Gathered(m, c)
        /\ IF kind.cons = "fold" /\ m.fold = "processing" THEN FoldAt(m, c) ELSE StreamAt(m, c)

Settled(h) == Failing(h) \subseteq {Len(h)} /\ (Failing(h) = {} => Exhausts(h, script))

HeardOK(m) == m.heard \in Seq(Heard) /\ Traced(script, m.heard, m.left)

ResultOK ==
    /\ script \in Seq(Elements) /\ HeardOK(n)
    /\ pc # "done" /\ n.chain = "first" => Working(n)
    /\ pc # "done" /\ n.chain = "second" => Settled(n.heard) /\ n.second = Composition(n.heard)
    /\ ResultCorrect

ResultInv == kind.cons \in Consumers => ResultOK


LEMMA SourceUpToFinite ==
    ASSUME NEW h, NEW i \in Nat
    PROVE  IsFiniteSet(SourceUpTo(h, i)) /\ Cardinality(SourceUpTo(h, i)) \in Nat
  <1>1. IsFiniteSet(1..i)
    BY FS_Interval
  <1>2. SourceUpTo(h, i) \subseteq 1..i
    BY DEF SourceUpTo
  <1> QED
    BY <1>1, <1>2, FS_Subset, FS_CardinalityType

LEMMA SourceUpToAppend ==
    ASSUME NEW h \in Seq(Heard), NEW e \in Heard
    PROVE  LET q == Append(h, e) IN
           /\ q \in Seq(Heard) /\ Len(h) \in Nat /\ Len(q) = Len(h) + 1 /\ q[Len(h) + 1] = e
           /\ \A i \in 1..Len(h) : q[i] = h[i] /\ SourceUpTo(q, i) = SourceUpTo(h, i)
           /\ Cardinality(SourceUpTo(h, Len(h))) \in Nat
           /\ e # TimedOut => /\ SourceUpTo(q, Len(h) + 1) = SourceUpTo(h, Len(h)) \union {Len(h) + 1}
                              /\ Cardinality(SourceUpTo(q, Len(h) + 1)) = Cardinality(SourceUpTo(h, Len(h))) + 1
           /\ e = TimedOut => SourceUpTo(q, Len(h) + 1) = SourceUpTo(h, Len(h))
  <1>1. PICK q : q = Append(h, e)
    OBVIOUS
  <1>2. /\ q \in Seq(Heard) /\ Len(h) \in Nat /\ Len(q) = Len(h) + 1 /\ q[Len(h) + 1] = e
        /\ \A i \in 1..Len(h) : q[i] = h[i]
    BY <1>1
  <1>3. \A i \in 1..Len(h) : SourceUpTo(q, i) = SourceUpTo(h, i)
    BY <1>2 DEF SourceUpTo
  <1>4. e # TimedOut => SourceUpTo(q, Len(h) + 1) = SourceUpTo(h, Len(h)) \union {Len(h) + 1}
    BY <1>2 DEF SourceUpTo
  <1>5. e = TimedOut => SourceUpTo(q, Len(h) + 1) = SourceUpTo(h, Len(h))
    BY <1>2 DEF SourceUpTo
  <1>6. /\ Cardinality(SourceUpTo(h, Len(h))) \in Nat
        /\ Cardinality(SourceUpTo(h, Len(h)) \union {Len(h) + 1}) = Cardinality(SourceUpTo(h, Len(h))) + 1
    <2>1. Len(h) + 1 \notin SourceUpTo(h, Len(h))
      BY <1>2 DEF SourceUpTo
    <2> QED
      BY <1>2, <2>1, SourceUpToFinite, FS_AddElement
  <1> QED
    BY <1>1, <1>2, <1>3, <1>4, <1>5, <1>6, Zenon

\* The timer of StreamTimeout is heard.
LEMMA TracedTimeout ==
    ASSUME NEW h \in Seq(Heard), NEW s, NEW l, Traced(s, h, l)
    PROVE  Append(h, TimedOut) \in Seq(Heard) /\ Traced(s, Append(h, TimedOut), l)
  <1>1. PICK q : q = Append(h, TimedOut)
    OBVIOUS
  <1>2. TimedOut \in Heard
    BY DEF Heard
  <1>3. /\ q \in Seq(Heard) /\ Len(h) \in Nat /\ Len(q) = Len(h) + 1
        /\ \A i \in 1..Len(h) : q[i] = h[i] /\ SourceUpTo(q, i) = SourceUpTo(h, i)
        /\ SourceUpTo(q, Len(h) + 1) = SourceUpTo(h, Len(h))
    BY <1>1, <1>2, SourceUpToAppend
  <1>4. \A i \in SourceUpTo(h, Len(h)) : i \in 1..Len(h)
    BY DEF SourceUpTo
  <1>5. Traced(s, q, l)
    BY <1>3, <1>4 DEF Traced
  <1> QED
    BY <1>1, <1>3, <1>5

\* An element of the source is heard.
LEMMA TracedElement ==
    ASSUME NEW h \in Seq(Heard), NEW s \in Seq(Elements), NEW l \in Seq(Elements), l # <<>>, Traced(s, h, l)
    PROVE  Append(h, Head(l)) \in Seq(Heard) /\ Traced(s, Append(h, Head(l)), Tail(l)) /\ Head(l) \in Heard
  <1>1. PICK e, r : e = Head(l) /\ r = Tail(l)
    OBVIOUS
  <1>2. /\ e \in Elements /\ r \in Seq(Elements) /\ Len(l) \in Nat /\ Len(r) \in Nat /\ Len(l) = Len(r) + 1
        /\ e = l[1] /\ \A j \in 1..Len(r) : r[j] = l[j + 1]
    <2>1. Len(l) \in Nat /\ Len(l) # 0
      OBVIOUS
    <2>2. Len(l) > 0
      BY <2>1
    <2> QED
      BY <1>1, <2>1, <2>2
  <1>3. e \in Heard /\ e # TimedOut
    BY <1>2 DEF Heard, Elements, TimedOut, Ok, Err
  <1>4. PICK q : q = Append(h, e)
    OBVIOUS
  <1>5. /\ q \in Seq(Heard) /\ Len(h) \in Nat /\ Len(q) = Len(h) + 1 /\ q[Len(h) + 1] = e
        /\ \A i \in 1..Len(h) : q[i] = h[i] /\ SourceUpTo(q, i) = SourceUpTo(h, i)
        /\ Cardinality(SourceUpTo(h, Len(h))) \in Nat
        /\ SourceUpTo(q, Len(h) + 1) = SourceUpTo(h, Len(h)) \union {Len(h) + 1}
        /\ Cardinality(SourceUpTo(q, Len(h) + 1)) = Cardinality(SourceUpTo(h, Len(h))) + 1
    BY <1>3, <1>4, SourceUpToAppend
  <1>6. PICK k \in Nat : k = Cardinality(SourceUpTo(h, Len(h)))
    BY <1>5
  <1>7. /\ k + Len(l) = Len(s)
        /\ \A i \in SourceUpTo(h, Len(h)) : s[Cardinality(SourceUpTo(h, i))] = h[i]
        /\ \A j \in 1..Len(l) : l[j] = s[k + j]
    BY <1>6 DEF Traced
  <1>8. Cardinality(SourceUpTo(q, Len(q))) = k + 1
    BY <1>5, <1>6
  <1>9. k + 1 + Len(r) = Len(s) /\ \A j \in 1..Len(r) : r[j] = s[(k + 1) + j]
    BY <1>2, <1>7
  <1>10. ASSUME NEW i \in SourceUpTo(q, Len(q)) PROVE s[Cardinality(SourceUpTo(q, i))] = q[i]
    <2>1. CASE i = Len(h) + 1
      <3>1. l[1] = s[k + 1]
        BY <1>2, <1>7
      <3> QED
        BY <1>2, <1>5, <1>8, <2>1, <3>1
    <2>2. CASE i \in SourceUpTo(h, Len(h))
      <3>1. i \in 1..Len(h)
        BY <2>2 DEF SourceUpTo
      <3> QED
        BY <1>5, <1>7, <2>2, <3>1
    <2> QED
      BY <1>5, <2>1, <2>2
  <1>11. Traced(s, q, r)
    BY <1>8, <1>9, <1>10 DEF Traced
  <1> QED
    BY <1>1, <1>3, <1>4, <1>5, <1>11

LEMMA TracedStart == ASSUME NEW s \in Seq(Elements) PROVE <<>> \in Seq(Heard) /\ Traced(s, <<>>, s)
  <1>1. SourceUpTo(<<>>, Len(<<>>)) = {}
    BY DEF SourceUpTo
  <1>2. Cardinality({}) = 0
    BY FS_EmptySet
  <1>3. Cardinality(SourceUpTo(<<>>, Len(<<>>))) = 0
    BY <1>1, <1>2, Zenon
  <1>4. Len(s) \in Nat /\ \A j \in 1..Len(s) : 0 + j = j
    OBVIOUS
  <1>5. <<>> \in Seq(Heard)
    OBVIOUS
  <1>6. PICK h : h = <<>>
    OBVIOUS
  <1>7. Traced(s, h, s)
    BY <1>1, <1>3, <1>4, <1>6 DEF Traced
  <1> QED
    BY <1>5, <1>6, <1>7

LEMMA TracedToEnd ==
    ASSUME NEW h \in Seq(Heard), NEW s, Traced(s, h, <<>>)
    PROVE  Exhausts(h, s)
  <1>1. Cardinality(SourceUpTo(h, Len(h))) \in Nat
    BY SourceUpToFinite
  <1> QED
    BY <1>1 DEF Traced, Exhausts


\* An outcome with one value.
Single(r) == DOMAIN r = {"t", "v"} /\ r.t \in {"ok", "err"} /\ \E x \in Int : r.v = <<x>>

LEMMA SingleFacts ==
    ASSUME NEW r, Single(r)
    PROVE  /\ Ended(r) /\ r.v[1] \in Int /\ r.v = <<r.v[1]>>
           /\ Single(Mapped(r)) /\ Mapped(r).t = r.t /\ Single(Worked(r))
  <1>1. PICK x \in Int : r.v = <<x>>
    BY DEF Single
  <1>2. r.v[1] = x
    BY <1>1
  <1>3. Ended(r)
    BY DEF Single, Ended
  <1>4. Single(Mapped(r)) /\ Mapped(r).t = r.t
    <2>1. x + 10 \in Int
      OBVIOUS
    <2> QED
      BY <1>1, <1>2, <2>1 DEF Single, Mapped
  <1>5. Single(Worked(r))
    <2>1. x + 30 \in Int /\ x + 20 \in Int
      OBVIOUS
    <2>2. Single(Err(<<x + 30>>)) /\ Single(Ok(<<x + 20>>))
      BY <2>1 DEF Single, Ok, Err
    <2> QED
      BY <1>2, <2>2 DEF Worked
  <1> QED
    BY <1>1, <1>2, <1>3, <1>4, <1>5

LEMMA ThroughFacts ==
    ASSUME NEW e \in Heard
    PROVE  Single(e) /\ Single(ThroughLower(e)) /\ Single(Through(e))
  <1>1. Single(e)
    BY DEF Heard, Elements, TimedOut, Ok, Err, Single
  <1>2. Single(ThroughLower(e))
    BY <1>1, SingleFacts DEF ThroughLower
  <1> QED
    BY <1>1, <1>2, SingleFacts DEF Through, ThroughUpper

-----------------------------------------------------------------------------
(* What the stream hears and gives.                                          *)

\* An element more, or none.
Carries(o, m) == o.heard = m.heard /\ o.left = m.left /\ o.acc = m.acc

LEMMA LowerHears ==
    ASSUME NEW m, FutOK(m), "src" \notin m.spent, kind \in Kinds, HeardOK(m), script \in Seq(Elements)
    PROVE  LET p == Lower(m) IN
           /\ HeardOK(p.n) /\ p.n.acc = m.acc
           /\ \/ p.r.t = "notready" /\ p.n.heard = m.heard
              \/ p.r.t = "end" /\ p.n.heard = m.heard /\ p.n.left = <<>>
              \/ \E e \in Heard : p.n.heard = Append(m.heard, e) /\ p.r = ThroughLower(e)
  <1>1. kind.lower \in {"none", "map", "map_err", "timeout"}
    BY KindAssumption DEF Kinds, StreamKinds, NoticeKinds, Items
  <1>2. PICK s : s = Source(m)
    OBVIOUS
  <1>3. /\ DOMAIN s = {"r", "n"} /\ DOMAIN s.n = Fields /\ s.n.acc = m.acc
        /\ \/ s.r = NotReady /\ s.n.left = m.left /\ s.n.heard = m.heard
           \/ s.r = End /\ m.left = <<>> /\ s.n.left = m.left /\ s.n.heard = m.heard
           \/ /\ m.left # <<>> /\ s.r = Head(m.left)
              /\ s.n.left = Tail(m.left) /\ s.n.heard = Append(m.heard, Head(m.left))
    BY <1>2, SourceHeard
  <1>4. StreamPoll(s, m)
    BY <1>2, SourceFacts
  <1>5. m.left # <<>> => /\ Append(m.heard, Head(m.left)) \in Seq(Heard) /\ Head(m.left) \in Heard
                         /\ Traced(script, Append(m.heard, Head(m.left)), Tail(m.left))
    BY TracedElement DEF HeardOK, FutOK
  <1>6. HeardOK(s.n)
    BY <1>3, <1>5 DEF HeardOK
  <1>7. \/ s.r.t = "notready" /\ s.n.heard = m.heard
        \/ s.r.t = "end" /\ s.n.heard = m.heard /\ s.n.left = <<>>
        \/ /\ s.r \in Heard /\ s.n.heard = Append(m.heard, s.r) /\ s.r.t \in {"ok", "err"} /\ DOMAIN s.r = {"t", "v"}
    BY <1>3, <1>5, ThroughFacts DEF NotReady, End, Single
  <1>8. CASE kind.lower = "none"
    <2>1. Lower(m) = s /\ \A e : ThroughLower(e) = e
      BY <1>2, <1>8 DEF Lower, ThroughLower
    <2> QED
      BY <1>3, <1>6, <1>7, <2>1
  <1>9. CASE kind.lower \in {"map", "map_err"}
    <2>1. CASE s.r.t \in {"notready", "end"}
      <3>1. Lower(m) = s
        BY <1>2, <1>9, <2>1 DEF Lower, StreamMap, StreamMapErr
      <3> QED
        BY <1>3, <1>6, <1>7, <2>1, <3>1
    <2>2. CASE s.r.t \in {"ok", "err"}
      <3>1. \/ Lower(m) = s /\ ThroughLower(s.r) = s.r
            \/ Lower(m) = [s EXCEPT !.r = Mapped(@)] /\ ThroughLower(s.r) = Mapped(s.r)
        BY <1>2, <1>9, <2>2 DEF Lower, StreamMap, StreamMapErr, ThroughLower
      <3>2. Lower(m).n = s.n /\ Lower(m).r = ThroughLower(s.r)
        BY <1>3, <3>1
      <3> QED
        BY <1>3, <1>6, <1>7, <2>2, <3>2
    <2> QED
      BY <1>7, <2>1, <2>2
  <1>10. CASE kind.lower = "timeout"
    <2>1. Lower(m) = StreamTimeout(m) /\ \A e : ThroughLower(e) = e
      BY <1>10 DEF Lower, ThroughLower
    <2>2. \A o : DOMAIN o = Fields => Carries(NoTimer(o), o) /\ DOMAIN NoTimer(o) = Fields
      BY DEF NoTimer, Carries, Fields
    <2>3. PICK q : q = IF s.n.timer THEN s.n ELSE [s.n EXCEPT !.timer = TRUE]
      OBVIOUS
    <2>4. Carries(q, s.n) /\ DOMAIN q = Fields
      BY <1>3, <2>3 DEF Carries, Fields
    <2>5. CASE s.r.t \in {"ok", "end"}
      <3>1. Lower(m) = [s EXCEPT !.n = NoTimer(@)]
        BY <1>2, <2>1, <2>5 DEF StreamTimeout
      <3>2. Lower(m).r = s.r /\ Lower(m).n = NoTimer(s.n)
        BY <1>3, <3>1
      <3>3. Carries(Lower(m).n, s.n)
        BY <1>3, <2>2, <3>2
      <3> QED
        BY <1>3, <1>6, <1>7, <2>1, <2>5, <3>2, <3>3 DEF Carries, HeardOK
    <2>6. CASE s.r.t = "err"
      <3>1. Lower(m) = s
        BY <1>2, <2>1, <2>6 DEF StreamTimeout
      <3> QED
        BY <1>3, <1>6, <1>7, <2>1, <3>1
    <2>7. CASE s.r.t = "notready" /\ q.ready["dur"]
      <3>1. Lower(m) = [r |-> TimedOut, n |-> [NoTimer(q) EXCEPT !.heard = Append(@, TimedOut)]]
        BY <1>2, <2>1, <2>3, <2>7 DEF StreamTimeout
      <3>2. Carries(NoTimer(q), q) /\ DOMAIN NoTimer(q) = Fields
        BY <2>2, <2>4
      <3>3. PICK o : o = [NoTimer(q) EXCEPT !.heard = Append(@, TimedOut)]
        OBVIOUS
      <3>4. o.heard = Append(s.n.heard, TimedOut) /\ o.left = s.n.left /\ o.acc = s.n.acc
        BY <2>4, <3>2, <3>3 DEF Carries, Fields
      <3>5. Lower(m).n = o /\ Lower(m).r = TimedOut
        BY <3>1, <3>3
      <3>6. s.n.heard = m.heard
        BY <1>7, <2>7
      <3>7. HeardOK(o)
        BY <1>6, <3>4, TracedTimeout DEF HeardOK
      <3>8. TimedOut \in Heard
        BY DEF Heard
      <3> QED
        BY <1>3, <2>1, <3>4, <3>5, <3>6, <3>7, <3>8
    <2>8. CASE s.r.t = "notready" /\ ~q.ready["dur"]
      <3>1. Lower(m) = [r |-> NotReady, n |-> Poll(q, "dur")]
        BY <1>2, <2>1, <2>3, <2>8 DEF StreamTimeout
      <3>2. Carries(Poll(q, "dur"), q)
        BY <2>4 DEF Poll, Carries, Fields
      <3>3. Lower(m).n = Poll(q, "dur") /\ Lower(m).r.t = "notready"
        BY <3>1 DEF NotReady
      <3> QED
        BY <1>3, <1>6, <1>7, <2>4, <2>8, <3>2, <3>3 DEF Carries, HeardOK
    <2> QED
      BY <1>7, <2>5, <2>6, <2>7, <2>8
  <1> QED
    BY <1>1, <1>8, <1>9, <1>10


LEMMA SpawnedCarries ==
    ASSUME NEW m, DOMAIN m = Fields, NEW l \in {"work", "step", "second"}, NEW o
    PROVE  Carries(Spawned(m, l, o), m) /\ DOMAIN Spawned(m, l, o) = Fields
  BY DEF Spawned, Carries, Fields

LEMMA FutureCarries ==
    ASSUME NEW m, DOMAIN m = Fields, NEW l \in {"work", "step", "second"}
    PROVE  Carries(FuturePoll(m, l).n, m) /\ DOMAIN FuturePoll(m, l).n = Fields
  <1>1. PICK q : q = Poll(m, l)
    OBVIOUS
  <1>2. Carries(q, m) /\ DOMAIN q = Fields
    BY <1>1 DEF Poll, Carries, Fields
  <1>3. FuturePoll(m, l).n = q \/ FuturePoll(m, l).n = [q EXCEPT !.spent = @ \union {l}]
    BY <1>1 DEF FuturePoll
  <1> QED
    BY <1>2, <1>3 DEF Carries, Fields

\* The future of an element is ready, or it stays.
LEMMA PollWorkCarries ==
    ASSUME NEW m, FutOK(m), m.work # NoFut
    PROVE  LET p == PollWork(m) IN
           /\ Carries(p.n, m)
           /\ \/ p.r.t = "notready" /\ p.n.work = m.work
              \/ p.r = m.work /\ p.r.t \in {"ok", "err"} /\ p.n.work = NoFut
  <1>1. Ended(m.work) /\ "work" \notin m.spent /\ DOMAIN m = Fields
    BY DEF FutOK, NodeOK
  <1>2. PICK p : p = FuturePoll(m, "work")
    OBVIOUS
  <1>3. /\ DOMAIN p = {"r", "n"} /\ p.n.work = m.work /\ (p.r = m.work \/ p.r = NotReady)
    BY <1>1, <1>2, FutureFacts
  <1>4. Carries(p.n, m) /\ DOMAIN p.n = Fields
    BY <1>1, <1>2, FutureCarries
  <1>5. CASE p.r = NotReady
    <2>1. PollWork(m) = p /\ p.r.t = "notready"
      BY <1>2, <1>5 DEF PollWork, NotReady
    <2> QED
      BY <1>3, <1>4, <2>1
  <1>6. CASE p.r = m.work
    <2>1. p.r.t \in {"ok", "err"}
      BY <1>1, <1>6 DEF Ended
    <2>2. PollWork(m) = [p EXCEPT !.n.work = NoFut]
      BY <1>2, <2>1 DEF PollWork
    <2>3. PollWork(m).r = p.r /\ PollWork(m).n = [p.n EXCEPT !.work = NoFut]
      BY <1>3, <2>2
    <2> QED
      BY <1>4, <1>6, <2>1, <2>3 DEF Carries, Fields
  <1> QED
    BY <1>3, <1>5, <1>6

\* A poll of a stream that has given c elements gives one more, is over or has
\* to wait; with a future of its own it may have heard that element before.
StreamGives(p, m, c) ==
    /\ HeardOK(p.n) /\ p.n.acc = m.acc /\ \A i \in 1..c : p.n.heard[i] = m.heard[i]
    /\ \/ p.r.t = "notready" /\ StreamAt(p.n, c)
       \/ p.r.t = "end" /\ p.n.work = NoFut /\ Len(p.n.heard) = c /\ p.n.left = <<>>
       \/ /\ p.r.t \in {"ok", "err"} /\ p.n.work = NoFut /\ Len(p.n.heard) = c + 1
          /\ p.r = Through(p.n.heard[c + 1])

\* The future of the last element is polled.
LEMMA WorkGives ==
    ASSUME NEW m, FutOK(m), m.work # NoFut, kind.upper # "none", HeardOK(m), NEW c \in Nat,
           Len(m.heard) = c + 1, m.work = Through(m.heard[c + 1])
    PROVE  StreamGives(PollWork(m), m, c)
  <1>1. PICK p : p = PollWork(m)
    OBVIOUS
  <1>2. /\ Carries(p.n, m)
        /\ \/ p.r.t = "notready" /\ p.n.work = m.work
           \/ p.r = m.work /\ p.r.t \in {"ok", "err"} /\ p.n.work = NoFut
    BY <1>1, PollWorkCarries
  <1>3. HeardOK(p.n) /\ p.n.heard = m.heard /\ p.n.acc = m.acc
    BY <1>2 DEF Carries, HeardOK
  <1> QED
    BY <1>1, <1>2, <1>3 DEF StreamGives, StreamAt

LEMMA StreamHears ==
    ASSUME NEW m, FutOK(m), "src" \notin m.spent, kind \in Kinds, HeardOK(m), script \in Seq(Elements),
           NEW c \in Nat, StreamAt(m, c)
    PROVE  StreamGives(Stream(m), m, c)
  <1>1. kind.upper \in {"none", "and_then", "then"}
    BY KindAssumption DEF Kinds, StreamKinds, NoticeKinds, Items
  <1>2. CASE m.work # NoFut
    <2>1. Stream(m) = PollWork(m) /\ kind.upper # "none" /\ Len(m.heard) = c + 1 /\ m.work = Through(m.heard[c + 1])
      BY <1>1, <1>2 DEF StreamAt, Stream, StreamAndThen, StreamThen
    <2> QED
      BY <1>2, <2>1, WorkGives
  <1>3. CASE m.work = NoFut
    <2>1. PICK p : p = Lower(m)
      OBVIOUS
    <2>2. StreamPoll(p, m) /\ p.n.work = m.work
      BY <2>1, LowerFacts
    <2>3. /\ HeardOK(p.n) /\ p.n.acc = m.acc
          /\ \/ p.r.t = "notready" /\ p.n.heard = m.heard
             \/ p.r.t = "end" /\ p.n.heard = m.heard /\ p.n.left = <<>>
             \/ \E e \in Heard : p.n.heard = Append(m.heard, e) /\ p.r = ThroughLower(e)
      BY <2>1, LowerHears
    <2>4. Len(m.heard) = c /\ m.heard \in Seq(Heard)
      BY <1>3 DEF StreamAt, HeardOK
    <2>5. CASE p.r.t \in {"notready", "end"}
      <3>1. Stream(m) = p
        BY <1>1, <1>3, <2>1, <2>5 DEF Stream, StreamAndThen, StreamThen
      <3>2. p.n.heard = m.heard /\ (p.r.t = "end" => p.n.left = <<>>)
        <4>1. \A e \in Heard : ThroughLower(e).t \in {"ok", "err"}
          BY ThroughFacts DEF Single
        <4> QED
          BY <2>3, <2>5, <4>1
      <3> QED
        BY <1>3, <2>2, <2>3, <2>4, <2>5, <3>1, <3>2 DEF StreamGives, StreamAt
    <2>6. CASE \E e \in Heard : p.n.heard = Append(m.heard, e) /\ p.r = ThroughLower(e)
      <3>1. PICK e \in Heard : p.n.heard = Append(m.heard, e) /\ p.r = ThroughLower(e)
        BY <2>6
      <3>2. Single(p.r) /\ Single(Through(e)) /\ p.r.t \in {"ok", "err"}
        BY <3>1, ThroughFacts DEF Single
      <3>3. /\ Len(p.n.heard) = c + 1 /\ p.n.heard[c + 1] = e /\ \A i \in 1..c : p.n.heard[i] = m.heard[i]
        <4>1. PICK h : h = m.heard
          OBVIOUS
        <4>2. h \in Seq(Heard) /\ Len(h) = c
          BY <2>4, <4>1
        <4>3. Len(Append(h, e)) = c + 1 /\ Append(h, e)[c + 1] = e /\ \A i \in 1..c : Append(h, e)[i] = h[i]
          BY <4>2
        <4> QED
          BY <3>1, <4>1, <4>3
      <3>4. CASE Stream(m) = p /\ Through(e) = p.r
        BY <1>3, <2>2, <2>3, <3>2, <3>3, <3>4 DEF StreamGives
      <3>5. CASE kind.upper # "none" /\ Stream(m) = PollWork(Spawned(p.n, "work", Worked(p.r))) /\ Through(e) = Worked(p.r)
        <4>1. PICK q : q = Spawned(p.n, "work", Worked(p.r))
          OBVIOUS
        <4>2. Ended(Worked(p.r)) /\ FutOK(p.n) /\ DOMAIN p.n = Fields
          BY <2>2, <3>2, SingleFacts DEF StreamPoll, FutOK, NodeOK
        <4>3. FutOK(q) /\ q.work = Worked(p.r)
          BY <4>1, <4>2, SpawnedFacts
        <4>4. Carries(q, p.n)
          BY <4>1, <4>2, SpawnedCarries
        <4>5. q.work # NoFut
          BY <4>2, <4>3 DEF Ended, NoFut
        <4>6. HeardOK(q) /\ q.heard = p.n.heard /\ q.acc = m.acc
          BY <2>3, <4>4 DEF Carries, HeardOK
        <4>7. StreamGives(PollWork(q), q, c)
          BY <3>3, <3>5, <4>3, <4>5, <4>6, WorkGives
        <4> QED
          BY <3>3, <3>5, <4>1, <4>6, <4>7 DEF StreamGives
      <3>6. \/ Stream(m) = p /\ Through(e) = p.r
            \/ kind.upper # "none" /\ Stream(m) = PollWork(Spawned(p.n, "work", Worked(p.r))) /\ Through(e) = Worked(p.r)
        <4>1. CASE kind.upper = "none"
          BY <2>1, <3>1, <4>1 DEF Stream, Through, ThroughUpper
        <4>2. CASE kind.upper = "and_then" /\ p.r.t # "ok"
          BY <1>3, <2>1, <3>1, <4>2 DEF Stream, StreamAndThen, Through, ThroughUpper
        <4>3. CASE kind.upper = "and_then" /\ p.r.t = "ok"
          BY <1>3, <2>1, <3>1, <4>3 DEF Stream, StreamAndThen, Through, ThroughUpper
        <4>4. CASE kind.upper = "then"
          BY <1>3, <2>1, <3>1, <3>2, <4>4 DEF Stream, StreamThen, Through, ThroughUpper
        <4> QED
          BY <1>1, <4>1, <4>2, <4>3, <4>4
      <3> QED
        BY <3>4, <3>5, <3>6
    <2> QED
      BY <2>3, <2>5, <2>6
  <1> QED
    BY <1>2, <1>3


-----------------------------------------------------------------------------
(* The end of the consumer.                                                  *)

LEMMA FailingFacts ==
    ASSUME NEW h \in Seq(Heard)
    PROVE  /\ Failing(h) = {i \in 1..Len(h) : Bad(h[i])}
           /\ \A i \in 1..Len(h) : Yield(h)[i] = Through(h[i])
  <1>1. DOMAIN h = 1..Len(h)
    OBVIOUS
  <1>2. \A i \in 1..Len(h) : Yield(h)[i] = Through(h[i])
    BY <1>1 DEF Yield, Through
  <1> QED
    BY <1>1, <1>2 DEF Failing, Bad

\* The source has ended, and no element was an error.
LEMMA SettledOk ==
    ASSUME NEW m, HeardOK(m), m.left = <<>>, Gathered(m, Len(m.heard))
    PROVE  Settled(m.heard) /\ Consumption(m.heard) = Ok(IF kind.cons = "fold" THEN m.acc ELSE <<>>)
  <1>1. PICK h : h = m.heard
    OBVIOUS
  <1>2. h \in Seq(Heard) /\ Traced(script, h, <<>>) /\ DOMAIN h = 1..Len(h)
    BY <1>1 DEF HeardOK
  <1>3. Failing(h) = {}
    BY <1>1, <1>2, FailingFacts DEF Gathered
  <1>4. Settled(h)
    BY <1>2, <1>3, TracedToEnd DEF Settled
  <1>5. CASE kind.cons = "fold"
    <2>1. PICK a : a = m.acc
      OBVIOUS
    <2>2. a \in Seq(Int) /\ Len(a) = Len(h) /\ \A i \in 1..Len(h) : a[i] = Through(h[i]).v[1]
      BY <1>1, <1>5, <2>1 DEF Gathered
    <2>3. a = [i \in 1..Len(h) |-> a[i]]
      BY <2>2
    <2>4. [i \in DOMAIN h |-> Yield(h)[i].v[1]] = [i \in 1..Len(h) |-> a[i]]
      BY <1>2, <2>2, FailingFacts
    <2> QED
      BY <1>1, <1>3, <1>4, <1>5, <2>1, <2>3, <2>4 DEF Consumption
  <1>6. CASE kind.cons # "fold"
    BY <1>1, <1>3, <1>4, <1>6 DEF Consumption
  <1> QED
    BY <1>5, <1>6

\* The last element was one.
LEMMA SettledErr ==
    ASSUME NEW h \in Seq(Heard), NEW c \in Nat, Len(h) = c + 1, \A i \in 1..c : ~Bad(h[i]), Bad(h[c + 1])
    PROVE  LET e == Through(h[c + 1]) IN
           Settled(h) /\ Consumption(h) = IF e.t = "err" THEN e ELSE Err(<<e.v[1] + 40>>)
  <1>1. c + 1 \in 1..Len(h) /\ \A i \in 1..Len(h) : i \in 1..c \/ i = c + 1
    OBVIOUS
  <1>2. Failing(h) = {c + 1}
    BY <1>1, FailingFacts
  <1>3. Settled(h)
    BY <1>2 DEF Settled
  <1>4. (CHOOSE i \in {c + 1} : \A j \in {c + 1} : i <= j) = c + 1
    <2>1. \E i \in {c + 1} : \A j \in {c + 1} : i <= j
      OBVIOUS
    <2> QED
      BY <2>1
  <1>5. Yield(h)[c + 1] = Through(h[c + 1])
    BY <1>1, FailingFacts
  <1>6. Failing(h) # {}
    BY <1>2
  <1>7. PICK e : e = Yield(h)[CHOOSE i \in Failing(h) : \A j \in Failing(h) : i <= j]
    OBVIOUS
  <1>8. e = Through(h[c + 1])
    BY <1>2, <1>4, <1>5, <1>7, Zenon
  <1>9. Consumption(h) = IF e.t = "err" THEN e ELSE Err(<<e.v[1] + 40>>)
    BY <1>6, <1>7 DEF Consumption
  <1> QED
    BY <1>3, <1>8, <1>9

\* The outcome of a combinator: what the closures make of the elements heard,
\* or the second future of a chain is going to return it.
TopGives(q, h) ==
    /\ q.n.heard = h
    /\ \/ q.r.t # "notready" /\ q.r = Composition(h)
       \/ q.r.t = "notready" /\ q.n.chain = "second" /\ q.n.second = Composition(h)

LEMMA ChainGives ==
    ASSUME NEW p, DOMAIN p = {"r", "n"}, Ended(p.r), FutOK(p.n), NEW o,
           \/ o = NoFut /\ p.r = Composition(p.n.heard)
           \/ Ended(o) /\ o = Composition(p.n.heard)
    PROVE  TopGives(Chain(p, o), p.n.heard) /\ Chain(p, o).n.left = p.n.left
  <1>1. PICK d : d = [p.n EXCEPT !.chain = "done"]
    OBVIOUS
  <1>2. FutOK(d) /\ Carries(d, p.n) /\ DOMAIN d = Fields
    BY <1>1 DEF FutOK, NodeOK, Fields, Carries
  <1>3. CASE o = NoFut /\ p.r = Composition(p.n.heard)
    <2>1. Chain(p, o) = [p EXCEPT !.n = d]
      BY <1>1, <1>3 DEF Chain
    <2>2. Chain(p, o).n = d /\ Chain(p, o).r = p.r
      BY <2>1
    <2> QED
      BY <1>2, <1>3, <2>2 DEF TopGives, Ended, Carries
  <1>4. CASE Ended(o) /\ o = Composition(p.n.heard)
    <2>1. PICK m : m = Spawned(d, "second", o)
      OBVIOUS
    <2>2. FutOK(m) /\ m.second = o /\ m.spent = d.spent \ {"second"}
      BY <1>2, <1>4, <2>1, SecondFacts
    <2>3. Carries(m, d) /\ DOMAIN m = Fields
      BY <1>2, <2>1, SpawnedCarries
    <2>4. PICK f : f = FuturePoll(m, "second")
      OBVIOUS
    <2>5. DOMAIN f = {"r", "n"} /\ Above(f.n, m) /\ (f.r = o \/ f.r = NotReady)
      BY <1>4, <2>2, <2>4, FutureFacts
    <2>6. Carries(f.n, m) /\ DOMAIN f.n = Fields
      BY <2>3, <2>4, FutureCarries
    <2>7. o # NoFut
      BY <1>4 DEF Ended, NoFut
    <2>8. Chain(p, o) = [f EXCEPT !.n.chain = "second"]
      BY <1>1, <2>1, <2>4, <2>7 DEF Chain
    <2>9. PICK g : g = [f.n EXCEPT !.chain = "second"]
      OBVIOUS
    <2>10. Chain(p, o).n = g /\ Chain(p, o).r = f.r
      BY <2>5, <2>8, <2>9
    <2>11. g.heard = p.n.heard /\ g.left = p.n.left /\ g.second = o /\ g.chain = "second"
      BY <1>2, <2>2, <2>3, <2>5, <2>6, <2>9 DEF Carries, Above, Fields
    <2> QED
      BY <1>4, <2>5, <2>10, <2>11 DEF TopGives, Ended, NotReady
  <1> QED
    BY <1>3, <1>4

LEMMA TopResults ==
    ASSUME NEW p, DOMAIN p = {"r", "n"}, Ended(p.r), FutOK(p.n), kind \in Kinds, p.r = Consumption(p.n.heard)
    PROVE  TopGives(Top(p), p.n.heard) /\ Top(p).n.left = p.n.left
  <1>1. kind.top \in {"none", "map", "map_err", "from_err", "drop_err", "and_then", "then", "timeout"}
    BY KindAssumption DEF Kinds, StreamKinds, NoticeKinds, Items
  <1>2. p.r.t \in {"ok", "err"} /\ DOMAIN p.r = {"t", "v"} /\ DOMAIN p.n = Fields
    BY DEF FutOK, Ended, NodeOK
  <1>3. \A k : Add(p.r, k).t = p.r.t
    BY <1>2 DEF Add
  <1>4. CASE kind.top \in {"none", "timeout"}
    BY <1>2, <1>4 DEF Top, TopGives, Composition
  <1>5. CASE kind.top \in {"map", "map_err"}
    <2>1. PICK m : m = [p.n EXCEPT !.f = FALSE, !.again = @ \/ ~p.n.f]
      OBVIOUS
    <2>2. m.heard = p.n.heard /\ m.left = p.n.left
      BY <1>2, <2>1 DEF Fields
    <2>3. Composition(p.n.heard) = IF (kind.top = "map") = (p.r.t = "ok")
                                   THEN Add(p.r, IF kind.top = "map" THEN 60 ELSE 61) ELSE p.r
      BY <1>2, <1>5 DEF Composition
    <2>4. Top(p) = IF (kind.top = "map") = (p.r.t = "ok")
                   THEN [r |-> Add(p.r, IF kind.top = "map" THEN 60 ELSE 61), n |-> m] ELSE p
      BY <1>2, <1>5, <2>1 DEF Top, Map, MapErr
    <2> QED
      BY <1>2, <1>3, <2>2, <2>3, <2>4 DEF TopGives
  <1>6. CASE kind.top = "from_err"
    BY <1>2, <1>3, <1>6 DEF Top, FromErr, TopGives, Composition
  <1>7. CASE kind.top = "drop_err"
    BY <1>2, <1>7 DEF Top, DropErr, TopGives, Composition, Err
  <1>8. CASE kind.top \in {"and_then", "then"}
    <2>1. Ended(Chained(p.r))
      BY DEF Chained, Ended, Ok, Err
    <2>2. PICK o : o = IF kind.top = "and_then" /\ p.r.t = "err" THEN NoFut ELSE Chained(p.r)
      OBVIOUS
    <2>3. Top(p) = Chain(p, o)
      BY <1>8, <2>2 DEF Top, AndThen, Then
    <2>4. \/ o = NoFut /\ p.r = Composition(p.n.heard)
          \/ Ended(o) /\ o = Composition(p.n.heard)
      BY <1>2, <1>8, <2>1, <2>2 DEF Composition
    <2> QED
      BY <2>3, <2>4, ChainGives
  <1> QED
    BY <1>1, <1>4, <1>5, <1>6, <1>7, <1>8


-----------------------------------------------------------------------------
(* The steps of a composed future.                                           *)

\* What the closures do depends on the composition alone.
LEMMA ClosuresAreKept ==
    ASSUME UNCHANGED <<kind, script>>
    PROVE  /\ Composition(n.heard)' = Composition(n'.heard)
           /\ Failing(n.heard)' = Failing(n'.heard)
           /\ Settled(n.heard)' <=> Settled(n'.heard)
           /\ Working(n)' <=> Working(n')
  <1>1. Yield(n.heard)' = Yield(n'.heard)
    BY DEF Yield, ThroughUpper, ThroughLower
  <1>2. Failing(n.heard)' = Failing(n'.heard)
    BY <1>1 DEF Failing
  <1>3. Consumption(n.heard)' = Consumption(n'.heard)
    BY <1>1, <1>2 DEF Consumption
  <1>4. Composition(n.heard)' = Composition(n'.heard)
    BY <1>3 DEF Composition
  <1>5. Settled(n.heard)' <=> Settled(n'.heard)
    BY <1>2 DEF Settled
  <1>6. Working(n)' <=> Working(n')
    BY DEF Working, Gathered, Bad, Through, ThroughUpper, ThroughLower, StreamAt, FoldAt
  <1> QED
    BY <1>2, <1>4, <1>5, <1>6


LEMMA StillWorking ==
    ASSUME UNCHANGED <<kind, script>>, script \in Seq(Elements), HeardOK(n'), Working(n'), n'.chain = "first", pc' # "done"
    PROVE  ResultOK'
  <1>1. Working(n)'
    BY ClosuresAreKept
  <1> QED
    BY <1>1 DEF ResultOK, HeardOK, ResultCorrect

LEMMA ResultStep ==
    ASSUME UNCHANGED <<kind, script>>, kind.cons \in Consumers, script \in Seq(Elements), HeardOK(n'), Settled(n'.heard),
           \/ pc' = "done" /\ result' = Composition(n'.heard)
           \/ pc' # "done" /\ n'.chain = "second" /\ n'.second = Composition(n'.heard)
    PROVE  ResultOK'
  <1>1. Composition(n.heard)' = Composition(n'.heard) /\ Failing(n.heard)' = Failing(n'.heard) /\ Settled(n.heard)'
    BY ClosuresAreKept
  <1>2. ResultCorrect'
    BY <1>1 DEF ResultCorrect, Settled
  <1> QED
    BY <1>1, <1>2 DEF ResultOK, HeardOK

\* The consumer returns.
LEMMA ConsumedResult ==
    ASSUME UNCHANGED <<kind, script>>, kind \in Kinds, kind.cons \in Consumers, script \in Seq(Elements),
           NEW p, DOMAIN p = {"r", "n"}, Consumed(p), HeardOK(p.n),
           \/ Ended(p.r) /\ FutOK(p.n) /\ Settled(p.n.heard) /\ p.r = Consumption(p.n.heard)
           \/ p.r.t = "notready" /\ p.n.chain = "first" /\ Working(p.n)
    PROVE  ResultOK'
  <1>1. CASE Ended(p.r) /\ FutOK(p.n) /\ Settled(p.n.heard) /\ p.r = Consumption(p.n.heard)
    <2>1. PICK q : q = Top(p)
      OBVIOUS
    <2>2. TopGives(q, p.n.heard) /\ q.n.left = p.n.left
      BY <1>1, <2>1, TopResults
    <2>3. Return(q)
      BY <1>1, <2>1 DEF Consumed, Ended
    <2>4. n' = q.n /\ pc' = (IF q.r.t = "notready" THEN "idle" ELSE "done") /\ result' = q.r
      BY <2>3 DEF Return
    <2>5. n'.heard = p.n.heard /\ n'.left = p.n.left
      BY <2>2, <2>4 DEF TopGives
    <2>6. HeardOK(n') /\ Settled(n'.heard)
      BY <1>1, <2>5 DEF HeardOK
    <2>7. \/ pc' = "done" /\ result' = Composition(n'.heard)
          \/ pc' # "done" /\ n'.chain = "second" /\ n'.second = Composition(n'.heard)
      BY <2>2, <2>4, <2>5 DEF TopGives
    <2> QED
      BY <2>6, <2>7, ResultStep
  <1>2. CASE p.r.t = "notready" /\ p.n.chain = "first" /\ Working(p.n)
    <2>1. n' = p.n /\ pc' = "idle"
      BY <1>2 DEF Consumed, Return
    <2> QED
      BY <1>2, <2>1, StillWorking
  <1> QED
    BY <1>1, <1>2

\* What a consumer has gathered stays, and one element more may be added.
LEMMA GatheredStays ==
    ASSUME NEW m, NEW o, NEW c \in Nat, Gathered(m, c), o.acc = m.acc, \A i \in 1..c : o.heard[i] = m.heard[i]
    PROVE  Gathered(o, c)
  BY DEF Gathered

\* The stream gives an error: the consumer ends with it.
LEMMA StreamFails ==
    ASSUME NEW s, NEW m, NEW c \in Nat, Gathered(m, c), StreamGives(s, m, c), s.r.t = "err"
    PROVE  Settled(s.n.heard) /\ s.r = Consumption(s.n.heard)
  <1>1. PICK h : h = s.n.heard
    OBVIOUS
  <1>2. h \in Seq(Heard) /\ Len(h) = c + 1 /\ s.r = Through(h[c + 1]) /\ \A i \in 1..c : h[i] = m.heard[i]
    BY <1>1 DEF StreamGives, HeardOK
  <1>3. Bad(h[c + 1]) /\ \A i \in 1..c : ~Bad(h[i])
    BY <1>2 DEF Bad, Gathered
  <1> QED
    BY <1>1, <1>2, <1>3, SettledErr

\* The stream is over: the consumer returns what it gathered.
LEMMA StreamEnds ==
    ASSUME NEW s, NEW m, NEW c \in Nat, Gathered(m, c), StreamGives(s, m, c), s.r.t = "end"
    PROVE  Settled(s.n.heard) /\ Ok(IF kind.cons = "fold" THEN m.acc ELSE <<>>) = Consumption(s.n.heard)
  <1>1. Len(s.n.heard) = c /\ s.n.left = <<>> /\ s.n.acc = m.acc /\ HeardOK(s.n)
    BY DEF StreamGives
  <1>2. Gathered(s.n, c)
    BY GatheredStays DEF StreamGives
  <1> QED
    BY <1>1, <1>2, SettledOk


LEMMA FinishResult ==
    ASSUME FutureOK, ResultOK, UNCHANGED <<kind, script>>, StreamFinish, kind.cons \in Consumers
    PROVE  ResultOK'
  <1>1. Running(n) /\ kind \in Kinds /\ kind.cons = "finish" /\ pc = "loop"
    BY DEF FutureOK, StreamFinish
  <1>2. script \in Seq(Elements) /\ HeardOK(n) /\ Working(n) /\ n.chain = "first"
    BY <1>1 DEF ResultOK, Running
  <1>3. PICK c \in Nat : Gathered(n, c) /\ StreamAt(n, c)
    BY <1>1, <1>2 DEF Working
  <1>4. PICK s : s = Stream(n)
    OBVIOUS
  <1>5. StreamPoll(s, n) /\ StreamGives(s, n, c)
    BY <1>1, <1>2, <1>3, <1>4, StreamFacts, StreamHears DEF Running
  <1>6. DOMAIN s = {"r", "n"} /\ DOMAIN s.r = {"t", "v"} /\ FutOK(s.n) /\ s.n.chain = "first" /\ HeardOK(s.n)
    BY <1>1, <1>5 DEF StreamPoll, Kept, Above, Running, StreamGives
  <1>7. Gathered(s.n, c)
    BY <1>3, <1>5, GatheredStays DEF StreamGives
  <1>8. CASE s.r.t = "ok"
    <2>1. Continue(s.n)
      BY <1>4, <1>8 DEF StreamFinish
    <2>2. s.n.work = NoFut /\ Len(s.n.heard) = c + 1 /\ s.r = Through(s.n.heard[c + 1])
      BY <1>5, <1>8 DEF StreamGives
    <2>3. ~Bad(s.n.heard[c + 1])
      BY <1>1, <1>8, <2>2 DEF Bad
    <2>4. \A i \in 1..(c + 1) : i \in 1..c \/ i = c + 1
      OBVIOUS
    <2>5. Gathered(s.n, c + 1)
      BY <1>1, <1>7, <2>3, <2>4 DEF Gathered
    <2>6. StreamAt(s.n, c + 1) /\ c + 1 \in Nat
      BY <2>2 DEF StreamAt
    <2>7. Working(s.n)
      BY <1>1, <2>5, <2>6 DEF Working
    <2>8. n' = s.n /\ pc' = "loop"
      BY <1>1, <2>1 DEF Continue
    <2> QED
      BY <1>2, <1>6, <2>7, <2>8, StillWorking
  <1>9. CASE s.r.t = "end"
    <2>1. PICK p : p = [s EXCEPT !.r = Ok(<<>>)]
      OBVIOUS
    <2>2. Consumed(p)
      <3>1. s.r.t # "ok" /\ s.r.t \notin {"err", "notready"}
        BY <1>9
      <3> QED
        BY <1>4, <1>9, <2>1, <3>1 DEF StreamFinish
    <2>3. p.n = s.n /\ p.r = Ok(<<>>) /\ Ended(p.r) /\ DOMAIN p = {"r", "n"}
      BY <1>6, <2>1 DEF Ok, Ended
    <2>4. Settled(s.n.heard) /\ Ok(<<>>) = Consumption(s.n.heard)
      BY <1>1, <1>3, <1>5, <1>9, StreamEnds
    <2> QED
      BY <1>1, <1>2, <1>6, <2>2, <2>3, <2>4, ConsumedResult
  <1>10. CASE s.r.t \in {"err", "notready"}
    <2>1. Consumed(s)
      <3>1. s.r.t # "ok" /\ s.r.t # "end"
        BY <1>10
      <3> QED
        BY <1>4, <1>10, <3>1 DEF StreamFinish
    <2>2. CASE s.r.t = "err"
      <3>1. Ended(s.r) /\ Settled(s.n.heard) /\ s.r = Consumption(s.n.heard)
        BY <1>3, <1>5, <1>6, <2>2, StreamFails DEF Ended
      <3> QED
        BY <1>1, <1>2, <1>6, <2>1, <3>1, ConsumedResult
    <2>3. CASE s.r.t = "notready"
      <3>1. StreamAt(s.n, c)
        BY <1>5, <2>3 DEF StreamGives
      <3>2. Working(s.n)
        BY <1>1, <1>7, <3>1 DEF Working
      <3> QED
        BY <1>1, <1>2, <1>6, <2>1, <2>3, <3>2, ConsumedResult
    <2> QED
      BY <1>10, <2>2, <2>3
  <1> QED
    BY <1>5, <1>8, <1>9, <1>10 DEF StreamPoll

LEMMA FoldReadyResult ==
    ASSUME FutureOK, ResultOK, UNCHANGED <<kind, script>>, pc = "loop", kind.cons = "fold", kind.cons \in Consumers,
           n.fold = "ready", FoldReady
    PROVE  ResultOK'
  <1>1. Running(n) /\ kind \in Kinds
    BY DEF FutureOK
  <1>2. script \in Seq(Elements) /\ HeardOK(n) /\ Working(n) /\ n.chain = "first"
    BY <1>1 DEF ResultOK, Running
  <1>3. PICK c \in Nat : Gathered(n, c) /\ StreamAt(n, c)
    BY <1>1, <1>2 DEF Working
  <1>4. PICK m : m = [n EXCEPT !.fold = "empty"]
    OBVIOUS
  <1>5. /\ FutOK(m) /\ "src" \notin m.spent /\ m.chain = "first" /\ m.work = n.work
        /\ m.heard = n.heard /\ m.left = n.left /\ m.acc = n.acc
    BY <1>1, <1>4 DEF Running, FutOK, NodeOK, Fields
  <1>6. HeardOK(m) /\ Gathered(m, c) /\ StreamAt(m, c)
    BY <1>2, <1>3, <1>5, GatheredStays DEF HeardOK, StreamAt
  <1>7. PICK s : s = Stream(m)
    OBVIOUS
  <1>8. StreamPoll(s, m) /\ StreamGives(s, m, c)
    BY <1>1, <1>2, <1>5, <1>6, <1>7, StreamFacts, StreamHears
  <1>9. /\ DOMAIN s = {"r", "n"} /\ DOMAIN s.r = {"t", "v"} /\ FutOK(s.n) /\ DOMAIN s.n = Fields
        /\ s.n.chain = "first" /\ HeardOK(s.n) /\ s.n.acc = n.acc
    BY <1>5, <1>8 DEF StreamPoll, Kept, Above, StreamGives, FutOK, NodeOK
  <1>10. Gathered(s.n, c)
    BY <1>6, <1>8, GatheredStays DEF StreamGives
  <1>11. CASE s.r.t = "ok"
    <2>1. PICK o : o = Folded(n.acc, s.r.v)
      OBVIOUS
    <2>2. PICK q : q = Spawned(s.n, "step", o)
      OBVIOUS
    <2>3. PICK g : g = [q EXCEPT !.fold = "processing"]
      OBVIOUS
    <2>4. Ended(o)
      BY <2>1 DEF Folded, Ended, Ok, Err
    <2>5. q.step = o /\ q.work = s.n.work /\ q.chain = s.n.chain
      <3>1. /\ q.step = o
            /\ \A k \in {"work", "step", "second", "fold", "chain", "f"} : k # "step" => q[k] = s.n[k]
        BY <1>9, <2>2, <2>4, SpawnedFacts
      <3> QED
        BY <3>1
    <2>6. Carries(q, s.n) /\ DOMAIN q = Fields
      BY <1>9, <2>2, SpawnedCarries
    <2>7. /\ g.step = o /\ g.work = s.n.work /\ g.chain = "first" /\ g.fold = "processing"
          /\ g.heard = s.n.heard /\ g.left = s.n.left /\ g.acc = n.acc
      BY <1>9, <2>3, <2>5, <2>6 DEF Fields, Carries
    <2>8. s.n.work = NoFut /\ Len(s.n.heard) = c + 1 /\ s.r = Through(s.n.heard[c + 1])
      BY <1>8, <1>11 DEF StreamGives
    <2>9. FoldAt(g, c)
      BY <1>11, <2>1, <2>7, <2>8 DEF FoldAt
    <2>10. HeardOK(g) /\ Gathered(g, c)
      BY <1>9, <1>10, <2>7, GatheredStays DEF HeardOK
    <2>11. Working(g)
      BY <2>7, <2>9, <2>10 DEF Working
    <2>12. Continue(g)
      BY <1>4, <1>7, <1>11, <2>1, <2>2, <2>3 DEF FoldReady
    <2>13. n' = g /\ pc' = "loop"
      BY <2>12 DEF Continue
    <2> QED
      BY <1>2, <2>7, <2>10, <2>11, <2>13, StillWorking
  <1>12. CASE s.r.t = "err"
    <2>1. Consumed(s)
      BY <1>4, <1>7, <1>12 DEF FoldReady
    <2>2. Ended(s.r) /\ Settled(s.n.heard) /\ s.r = Consumption(s.n.heard)
      BY <1>6, <1>8, <1>9, <1>12, StreamFails DEF Ended
    <2> QED
      BY <1>1, <1>2, <1>9, <2>1, <2>2, ConsumedResult
  <1>13. CASE s.r.t = "end"
    <2>1. PICK p : p = [s EXCEPT !.r = Ok(n.acc)]
      OBVIOUS
    <2>2. Consumed(p)
      BY <1>4, <1>7, <1>13, <2>1 DEF FoldReady
    <2>3. p.n = s.n /\ p.r = Ok(n.acc) /\ Ended(p.r) /\ DOMAIN p = {"r", "n"}
      BY <1>9, <2>1 DEF Ok, Ended
    <2>4. Settled(s.n.heard) /\ Ok(n.acc) = Consumption(s.n.heard)
      BY <1>5, <1>6, <1>8, <1>13, StreamEnds
    <2> QED
      BY <1>1, <1>2, <1>9, <2>2, <2>3, <2>4, ConsumedResult
  <1>14. CASE s.r.t = "notready"
    <2>1. PICK p : p = [s EXCEPT !.n.fold = "ready"]
      OBVIOUS
    <2>2. Consumed(p)
      BY <1>4, <1>7, <1>14, <2>1 DEF FoldReady
    <2>3. p.n = [s.n EXCEPT !.fold = "ready"] /\ p.r = s.r /\ DOMAIN p = {"r", "n"}
      BY <1>9, <2>1
    <2>4. /\ p.n.fold = "ready" /\ p.n.chain = "first" /\ p.n.work = s.n.work
          /\ p.n.heard = s.n.heard /\ p.n.left = s.n.left /\ p.n.acc = s.n.acc
      BY <1>9, <2>3 DEF Fields
    <2>5. StreamAt(s.n, c)
      BY <1>8, <1>14 DEF StreamGives
    <2>6. HeardOK(p.n) /\ Gathered(p.n, c) /\ StreamAt(p.n, c)
      BY <1>9, <1>10, <2>4, <2>5, GatheredStays DEF HeardOK, StreamAt
    <2>7. Working(p.n)
      BY <2>4, <2>6 DEF Working
    <2> QED
      BY <1>1, <1>2, <1>14, <2>2, <2>3, <2>4, <2>6, <2>7, ConsumedResult
  <1> QED
    BY <1>8, <1>11, <1>12, <1>13, <1>14 DEF StreamPoll


\* The closure of StreamFold takes an element in.
LEMMA FoldedIn ==
    ASSUME NEW m, NEW c \in Nat, Gathered(m, c), FoldAt(m, c), kind.cons = "fold", HeardOK(m), NEW o,
           o.heard = m.heard, o.acc = m.step.v, m.step.t = "ok"
    PROVE  Gathered(o, c + 1)
  <1>1. PICK e : e = Through(m.heard[c + 1])
    OBVIOUS
  <1>2. Len(m.heard) = c + 1 /\ e.t = "ok" /\ m.step = Folded(m.acc, e.v)
    BY <1>1 DEF FoldAt
  <1>3. m.heard[c + 1] \in Heard
    BY <1>2 DEF HeardOK
  <1>4. PICK x \in Int : e.v = <<x>>
    BY <1>1, <1>3, ThroughFacts DEF Single
  <1>5. Digit(e.v) # 3 /\ m.step = Ok(m.acc \o e.v)
    BY <1>2 DEF Folded, Err
  <1>6. ~Bad(m.heard[c + 1])
    BY <1>1, <1>2, <1>5 DEF Bad
  <1>7. PICK a : a = m.acc
    OBVIOUS
  <1>8. a \in Seq(Int) /\ Len(a) = c /\ \A i \in 1..c : a[i] = Through(m.heard[i]).v[1]
    BY <1>7 DEF Gathered
  <1>9. o.acc = a \o <<x>>
    BY <1>4, <1>5, <1>7 DEF Ok
  <1>10. /\ a \o <<x>> \in Seq(Int) /\ Len(a \o <<x>>) = c + 1
         /\ (a \o <<x>>)[c + 1] = x /\ \A i \in 1..c : (a \o <<x>>)[i] = a[i]
    BY <1>8
  <1>11. \A i \in 1..(c + 1) : i \in 1..c \/ i = c + 1
    OBVIOUS
  <1>12. x = Through(m.heard[c + 1]).v[1]
    BY <1>1, <1>4
  <1>13. \A i \in 1..(c + 1) : ~Bad(o.heard[i])
    BY <1>6, <1>11 DEF Gathered
  <1>14. \A i \in 1..(c + 1) : o.acc[i] = Through(o.heard[i]).v[1]
    <2>1. PICK b : b = a \o <<x>>
      OBVIOUS
    <2>2. b[c + 1] = x /\ \A i \in 1..c : b[i] = Through(m.heard[i]).v[1]
      BY <1>8, <1>10, <2>1, Zenon
    <2>3. SUFFICES ASSUME NEW i \in 1..(c + 1) PROVE b[i] = Through(m.heard[i]).v[1]
      BY <1>9, <2>1
    <2> QED
      BY <1>11, <1>12, <2>2
  <1> QED
    BY <1>9, <1>10, <1>13, <1>14 DEF Gathered

LEMMA FoldProcessingResult ==
    ASSUME FutureOK, ResultOK, UNCHANGED <<kind, script>>, pc = "loop", kind.cons = "fold", kind.cons \in Consumers,
           n.fold = "processing", FoldProcessing
    PROVE  ResultOK'
  <1>1. Running(n) /\ kind \in Kinds
    BY DEF FutureOK
  <1>2. script \in Seq(Elements) /\ HeardOK(n) /\ Working(n) /\ n.chain = "first"
    BY <1>1 DEF ResultOK, Running
  <1>3. PICK c \in Nat : Gathered(n, c) /\ FoldAt(n, c)
    BY <1>2 DEF Working
  <1>4. PICK m : m = [n EXCEPT !.fold = "empty"]
    OBVIOUS
  <1>5. /\ FutOK(m) /\ m.chain = "first" /\ m.work = n.work /\ m.step = n.step /\ DOMAIN m = Fields
        /\ m.heard = n.heard /\ m.left = n.left /\ m.acc = n.acc /\ Ended(m.step) /\ "step" \notin m.spent
    BY <1>1, <1>4 DEF Running, FutOK, NodeOK, Fields
  <1>6. HeardOK(m) /\ Gathered(m, c) /\ FoldAt(m, c)
    BY <1>2, <1>3, <1>5, GatheredStays DEF HeardOK, FoldAt
  <1>7. PICK p : p = FuturePoll(m, "step")
    OBVIOUS
  <1>8. /\ DOMAIN p = {"r", "n"} /\ NodeOK(p.n) /\ p.n.again = FALSE /\ p.n.left = m.left /\ Above(p.n, m)
        /\ p.n.work = m.work
        /\ \/ p.r = m.step /\ p.n.spent = m.spent \union {"step"}
           \/ p.r = NotReady /\ p.n.spent = m.spent
    BY <1>5, <1>7, FutureFacts
  <1>9. Carries(p.n, m) /\ DOMAIN p.n = Fields
    BY <1>5, <1>7, FutureCarries
  <1>10. FutOK(p.n) /\ p.n.chain = "first" /\ p.n.step = m.step /\ HeardOK(p.n)
    BY <1>5, <1>6, <1>8, <1>9 DEF FutOK, Above, Carries, HeardOK
  <1>11. CASE p.r = NotReady
    <2>1. PICK q : q = [p EXCEPT !.n.fold = "processing"]
      OBVIOUS
    <2>2. p.r.t = "notready"
      BY <1>11 DEF NotReady
    <2>3. Consumed(q)
      BY <1>4, <1>7, <2>1, <2>2 DEF FoldProcessing
    <2>4. q.n = [p.n EXCEPT !.fold = "processing"] /\ q.r = p.r /\ DOMAIN q = {"r", "n"}
      BY <1>8, <2>1
    <2>5. /\ q.n.fold = "processing" /\ q.n.chain = "first" /\ q.n.work = m.work /\ q.n.step = m.step
          /\ q.n.heard = m.heard /\ q.n.left = m.left /\ q.n.acc = m.acc
      BY <1>8, <1>9, <1>10, <2>4 DEF Fields, Carries
    <2>6. HeardOK(q.n) /\ Gathered(q.n, c) /\ FoldAt(q.n, c)
      BY <1>6, <2>5, GatheredStays DEF HeardOK, FoldAt
    <2>7. Working(q.n)
      BY <2>5, <2>6 DEF Working
    <2> QED
      BY <1>1, <1>2, <2>2, <2>3, <2>4, <2>5, <2>6, <2>7, ConsumedResult
  <1>12. CASE p.r = m.step /\ m.step.t = "err"
    <2>1. Consumed(p)
      BY <1>4, <1>7, <1>12 DEF FoldProcessing
    <2>2. PICK h : h = p.n.heard
      OBVIOUS
    <2>3. h = m.heard /\ h \in Seq(Heard) /\ Len(h) = c + 1 /\ Through(h[c + 1]).t = "ok"
      BY <1>6, <1>9, <2>2 DEF Carries, HeardOK, FoldAt
    <2>4. m.step = Folded(m.acc, Through(h[c + 1]).v)
      BY <1>6, <2>3 DEF FoldAt
    <2>5. Digit(Through(h[c + 1]).v) = 3 /\ m.step = Err(<<Through(h[c + 1]).v[1] + 40>>)
      BY <1>12, <2>4 DEF Folded, Ok
    <2>6. Bad(h[c + 1]) /\ \A i \in 1..c : ~Bad(h[i])
      BY <1>6, <2>3, <2>5 DEF Bad, Gathered
    <2>7. Settled(h) /\ Consumption(h) = Err(<<Through(h[c + 1]).v[1] + 40>>)
      <3>1. Through(h[c + 1]).t # "err"
        BY <2>3
      <3> QED
        BY <2>3, <2>6, <3>1, SettledErr
    <2> QED
      BY <1>1, <1>2, <1>5, <1>8, <1>10, <1>12, <2>1, <2>2, <2>5, <2>7, ConsumedResult
  <1>13. CASE p.r = m.step /\ m.step.t = "ok"
    <2>1. PICK q : q = [p.n EXCEPT !.fold = "ready", !.acc = p.r.v]
      OBVIOUS
    <2>2. Continue(q)
      BY <1>4, <1>7, <1>13, <2>1 DEF FoldProcessing
    <2>3. /\ q.fold = "ready" /\ q.acc = m.step.v /\ q.heard = m.heard /\ q.left = m.left /\ q.work = m.work
          /\ q.chain = "first"
      BY <1>8, <1>9, <1>10, <1>13, <2>1 DEF Fields, Carries
    <2>4. Gathered(q, c + 1)
      BY <1>6, <1>13, <2>3, FoldedIn
    <2>5. StreamAt(q, c + 1) /\ c + 1 \in Nat /\ HeardOK(q)
      BY <1>6, <2>3 DEF FoldAt, StreamAt, HeardOK
    <2>6. Working(q)
      BY <2>3, <2>4, <2>5 DEF Working
    <2>7. n' = q /\ pc' = "loop"
      BY <2>2 DEF Continue
    <2> QED
      BY <1>2, <2>3, <2>5, <2>6, <2>7, StillWorking
  <1> QED
    BY <1>5, <1>8, <1>11, <1>12, <1>13 DEF Ended

\* Nothing is heard and the consumer does not move.
LEMMA ResultUnmoved ==
    ASSUME FutureOK, ResultOK, UNCHANGED <<kind, script>>, kind.cons \in Consumers, pc # "done", pc' # "done",
           n'.heard = n.heard, n'.left = n.left, n'.acc = n.acc, n'.work = n.work,
           n'.fold = n.fold, n'.step = n.step, n'.chain = n.chain, n'.second = n.second
    PROVE  ResultOK'
  <1>1. script \in Seq(Elements) /\ HeardOK(n')
    BY DEF ResultOK, HeardOK
  <1>2. n.chain = "first" \/ n.chain = "second"
    BY DEF FutureOK, Running, InSecond
  <1>3. CASE n.chain = "first"
    <2>1. Working(n)
      BY <1>3 DEF ResultOK
    <2>2. PICK c \in Nat : Gathered(n, c) /\ (IF kind.cons = "fold" /\ n.fold = "processing" THEN FoldAt(n, c) ELSE StreamAt(n, c))
      BY <2>1 DEF Working
    <2>3. Gathered(n', c)
      BY <2>2, GatheredStays
    <2>4. (FoldAt(n, c) => FoldAt(n', c)) /\ (StreamAt(n, c) => StreamAt(n', c))
      BY DEF FoldAt, StreamAt
    <2>5. Working(n')
      BY <2>2, <2>3, <2>4 DEF Working
    <2> QED
      BY <1>1, <1>3, <2>5, StillWorking
  <1>4. CASE n.chain = "second"
    BY <1>1, <1>4, ResultStep DEF ResultOK
  <1> QED
    BY <1>2, <1>3, <1>4


LEMMA PollItemResult ==
    ASSUME FutureOK, ResultOK, PollItem, kind.cons \in Consumers
    PROVE  ResultOK'
  <1>1. /\ UNCHANGED <<kind, script>> /\ pc = "idle" /\ (Running(n) \/ InSecond(n))
        /\ kind.cons \notin StreamItems
    BY KindAssumption DEF PollItem, FutureOK
  <1>2. script \in Seq(Elements) /\ HeardOK(n)
    BY DEF ResultOK
  <1>3. DOMAIN n = Fields
    BY <1>1 DEF Running, InSecond, FutOK, NodeOK
  <1>4. CASE kind.top = "timeout"
    <2>1. TimeoutPoll
      BY <1>1, <1>4 DEF PollItem
    <2>2. CASE n.ready["limit"]
      <3>1. Return([r |-> TimedOut, n |-> n])
        BY <2>1, <2>2 DEF TimeoutPoll
      <3>2. n' = n /\ pc' = "done" /\ result' = TimedOut
        BY <3>1 DEF Return, TimedOut, Err
      <3>3. ResultCorrect'
        BY <1>1, <1>4, <2>2, <3>2 DEF ResultCorrect
      <3> QED
        BY <1>1, <1>2, <3>2, <3>3 DEF ResultOK, HeardOK
    <2>3. CASE ~n.ready["limit"]
      <3>1. n' = Poll(n, "limit") /\ pc' = "loop"
        BY <2>1, <2>3 DEF TimeoutPoll
      <3>2. /\ n'.heard = n.heard /\ n'.left = n.left /\ n'.acc = n.acc /\ n'.work = n.work
            /\ n'.fold = n.fold /\ n'.step = n.step /\ n'.chain = n.chain /\ n'.second = n.second
        BY <1>3, <3>1 DEF Poll, Fields
      <3> QED
        BY <1>1, <3>1, <3>2, ResultUnmoved
    <2> QED
      BY <2>2, <2>3
  <1>5. CASE kind.top # "timeout" /\ n.chain # "first"
    <2>1. InSecond(n) /\ ChainPoll
      BY <1>1, <1>5 DEF Running, PollItem
    <2>2. PICK m : m = [n EXCEPT !.again = @ \/ n.chain = "done"]
      OBVIOUS
    <2>3. /\ FutOK(m) /\ Above(m, n) /\ m.spent = n.spent /\ m.work = n.work /\ Carries(m, n) /\ DOMAIN m = Fields
      BY <2>1, <2>2 DEF InSecond, FutOK, NodeOK, Fields, Above, Carries
    <2>4. PICK p : p = FuturePoll(m, "second")
      OBVIOUS
    <2>5. Ended(m.second) /\ "second" \notin m.spent /\ n.chain = "second"
      BY <2>1, <2>3 DEF InSecond, Above
    <2>6. DOMAIN p = {"r", "n"} /\ Above(p.n, m) /\ p.n.work = m.work /\ (p.r = m.second \/ p.r = NotReady)
      BY <2>3, <2>4, <2>5, FutureFacts
    <2>7. Carries(p.n, m)
      BY <2>3, <2>4, FutureCarries
    <2>8. n' = p.n /\ pc' = (IF p.r.t = "notready" THEN "idle" ELSE "done") /\ result' = p.r
      BY <2>1, <2>2, <2>4 DEF ChainPoll, Return
    <2>9. /\ n'.heard = n.heard /\ n'.left = n.left /\ n'.acc = n.acc /\ n'.work = n.work
          /\ n'.fold = n.fold /\ n'.step = n.step /\ n'.chain = n.chain /\ n'.second = n.second
      BY <2>3, <2>6, <2>7, <2>8 DEF Above, Carries
    <2>10. CASE p.r = m.second
      <3>1. Settled(n.heard) /\ n.second = Composition(n.heard)
        BY <1>1, <2>5 DEF ResultOK
      <3>2. pc' = "done" /\ result' = n.second
        BY <2>3, <2>5, <2>8, <2>10 DEF Ended, Above
      <3>3. HeardOK(n') /\ Settled(n'.heard) /\ result' = Composition(n'.heard)
        BY <1>2, <2>9, <3>1, <3>2 DEF HeardOK
      <3> QED
        BY <1>1, <1>2, <3>2, <3>3, ResultStep
    <2>11. CASE p.r = NotReady
      <3>1. pc' = "idle"
        BY <2>8, <2>11 DEF NotReady
      <3> QED
        BY <1>1, <2>9, <3>1, ResultUnmoved
    <2> QED
      BY <2>6, <2>10, <2>11
  <1>6. CASE kind.top # "timeout" /\ n.chain = "first"
    <2>1. n' = n /\ pc' = "loop"
      BY <1>1, <1>6 DEF PollItem
    <2> QED
      BY <1>1, <2>1, ResultUnmoved
  <1> QED
    BY <1>4, <1>5, <1>6

LEMMA OccurResult ==
    ASSUME FutureOK, ResultOK, NEW l \in Leaf, Occur(l), kind.cons \in Consumers
    PROVE  ResultOK'
  <1>1. /\ UNCHANGED <<kind, script>> /\ pc' = pc /\ pc # "done"
        /\ n' = [n EXCEPT !.ready[l] = TRUE, !.reg = @ \ {l}, !.fires = IF l = "dur" THEN @ + 1 ELSE @]
    BY DEF Occur
  <1>2. DOMAIN n = Fields
    BY <1>1 DEF FutureOK, Running, InSecond, FutOK, NodeOK
  <1>3. /\ n'.heard = n.heard /\ n'.left = n.left /\ n'.acc = n.acc /\ n'.work = n.work
        /\ n'.fold = n.fold /\ n'.step = n.step /\ n'.chain = n.chain /\ n'.second = n.second
    BY <1>1, <1>2 DEF Fields
  <1> QED
    BY <1>1, <1>3, ResultUnmoved

LEMMA ResultInit == InitAll => ResultInv
  <1> SUFFICES ASSUME InitAll, kind.cons \in Consumers PROVE ResultOK
    BY DEF ResultInv
  <1>1. Init
    BY KindAssumption, ConnectorAssumption DEF InitAll, Fresh
  <1>2. PICK k \in Kinds : Fresh(k, Scripts(k))
    BY <1>1 DEF Init
  <1>3. /\ kind = k /\ pc = "idle" /\ n.chain = "first" /\ n.fold = "ready" /\ n.work = NoFut /\ n.acc = <<>>
        /\ n.left = script /\ n.heard = <<>> /\ script \in Scripts(k)
    BY <1>2 DEF Fresh
  <1>4. script \in Seq(Elements)
    <2>1. k.cons \notin Notices
      BY <1>3, KindAssumption
    <2>2. PICK m \in 0..MaxLen : script \in [1..m -> Elements]
      BY <1>3, <2>1 DEF Scripts
    <2>3. m \in Nat
      BY FutureBoundAssumption
    <2> QED
      BY <2>2, <2>3
  <1>5. HeardOK(n)
    BY <1>3, <1>4, TracedStart DEF HeardOK
  <1>6. Gathered(n, 0) /\ StreamAt(n, 0)
    BY <1>3 DEF Gathered, StreamAt
  <1>7. Working(n)
    BY <1>3, <1>6 DEF Working
  <1> QED
    BY <1>3, <1>4, <1>5, <1>7 DEF ResultOK, ResultCorrect

LEMMA ResultNext == ResultInv /\ FutureInv /\ [NextAll]_allVars => ResultInv'
  <1> SUFFICES ASSUME ResultInv, FutureInv, [NextAll]_allVars, (kind.cons \in Consumers)' PROVE ResultOK'
    BY DEF ResultInv
  <1>1. kind.cons \in Consumers /\ ResultOK
    BY KindIsKept DEF ResultInv
  <1>2. ~Asking
    BY <1>1, KindAssumption, ConnectorAssumption DEF Asking
  <1>3. FutureOK
    BY <1>2 DEF FutureInv
  <1>4. CASE UNCHANGED <<kind, script, n, pc, result>>
    <2>1. Composition(n.heard)' = Composition(n'.heard) /\ Failing(n.heard)' = Failing(n'.heard)
          /\ (Settled(n.heard)' <=> Settled(n'.heard)) /\ (Working(n)' <=> Working(n'))
      BY <1>4, ClosuresAreKept
    <2>2. ResultCorrect'
      BY <1>1, <1>4, <2>1 DEF ResultOK, ResultCorrect
    <2> QED
      BY <1>1, <1>4, <2>1, <2>2 DEF ResultOK, HeardOK
  <1>5. CASE PollItem
    BY <1>1, <1>3, <1>5, PollItemResult
  <1>6. CASE Turn
    <2>1. UNCHANGED <<kind, script>> /\ kind.cons \notin StreamItems \union Notices
      BY <1>1, <1>6, KindAssumption DEF Turn
    <2>2. CASE StreamFold
      <3>1. CASE n.fold = "ready" /\ FoldReady
        BY <1>1, <1>3, <2>1, <2>2, <3>1, FoldReadyResult DEF StreamFold
      <3>2. CASE n.fold = "processing" /\ FoldProcessing
        BY <1>1, <1>3, <2>1, <2>2, <3>2, FoldProcessingResult DEF StreamFold
      <3> QED
        BY <2>2, <3>1, <3>2 DEF StreamFold
    <2>3. CASE StreamFinish
      BY <1>1, <1>3, <2>1, <2>3, FinishResult
    <2>4. /\ ~ActorStream /\ ~ActorMessageStreamItem /\ ~ActorMessageItem /\ ~ActorDelayedMessageItem /\ ~TimerFunc
      BY <1>1, KindAssumption
         DEF ActorStream, ActorMessageStreamItem, ActorMessageItem, ActorDelayedMessageItem, TimerFunc
    <2> QED
      BY <1>6, <2>2, <2>3, <2>4 DEF Turn
  <1>7. CASE WaitDone
    BY <1>4, <1>7 DEF WaitDone
  <1>8. CASE \E l \in Leaf : Happen(l)
    BY <1>1, <1>3, <1>8, OccurResult DEF Happen
  <1>9. CASE UNCHANGED allVars
    BY <1>4, <1>9 DEF allVars, vars
  <1> QED
    BY <1>2, <1>5, <1>6, <1>7, <1>8, <1>9 DEF NextAll, Next, PollAsked, TcpConnector, Answer

\* fut/*.rs: whatever the order in which the source, the timers and the
\* futures of the closures become ready, a composed future that returns has
\* returned what its closures make of the elements of the source: none is
\* lost, taken twice or out of order, the first error ends it, it succeeds
\* only when the source has ended, and it times out only when its timer fired.
THEOREM FuturesReturnTheirComposition == SpecAll => []ResultCorrect
  <1>1. ResultInv => ResultCorrect
    BY DEF ResultInv, ResultOK, ResultCorrect
  <1> QED
    BY <1>1, FutureInit, FutureNext, ResultInit, ResultNext, PTL DEF SpecAll
=============================================================================
