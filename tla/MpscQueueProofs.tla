--------------------------- MODULE MpscQueueProofs ---------------------------
(***************************************************************************)
(* Proofs about MpscQueue for any number of pushers, addresses and values: *)
(* the list invariant, memory safety, the assert!s of pop(), the absence   *)
(* of leaks and that the queue implements FifoQueue.                       *)
(***************************************************************************)
EXTENDS MpscQueue, TLAPS

IndInv == TypeOK /\ ListInv

\* What Append and Tail do to the history sequence, index by index.
LEMMA AppendFacts ==
    ASSUME NEW S, NEW s \in Seq(S), NEW e \in S
    PROVE  /\ Append(s, e) \in Seq(S)
           /\ Len(Append(s, e)) = Len(s) + 1
           /\ \A i \in 1..Len(s) : Append(s, e)[i] = s[i]
           /\ Append(s, e)[Len(s) + 1] = e
  OBVIOUS

LEMMA TailFacts ==
    ASSUME NEW S, NEW s \in Seq(S), Len(s) > 0
    PROVE  /\ Tail(s) \in Seq(S)
           /\ Len(Tail(s)) = Len(s) - 1
           /\ \A i \in 1..(Len(s) - 1) : Tail(s)[i] = s[i + 1]
  OBVIOUS

\* Queue::new establishes the invariant.
LEMMA InitInv == Init => IndInv
  <1> SUFFICES ASSUME Init PROVE IndInv
    OBVIOUS
  <1>1. PICK stub \in Addr : head = stub /\ tail = stub /\ live = {stub} /\ chain = <<stub>>
    BY DEF Init
  <1>2. Len(chain) = 1 /\ chain[1] = stub /\ chain \in Seq(Addr)
    BY <1>1
  <1>3. TypeOK
    BY <1>1, <1>2 DEF Init, TypeOK, Results, Result
  <1>4. EndsOK /\ LinksOK /\ ValuesOK
    BY <1>1, <1>2 DEF Init, EndsOK, LinksOK, ValuesOK
  <1>5. PushersOK
    BY <1>1, <1>2 DEF Init, PushersOK
  <1>6. HeapOK
    BY <1>1, <1>2 DEF Init, HeapOK
  <1> QED
    BY <1>3, <1>4, <1>5, <1>6 DEF IndInv, ListInv

\* Allocating a node does not touch the list.
LEMMA AllocInv ==
    ASSUME IndInv, NEW p \in Pusher, NEW v \in Value, PushAlloc(p, v)
    PROVE  IndInv'
  <1> USE PointerAssumption DEF IndInv, ListInv
  <1>1. PICK n \in Addr \ live :
          /\ live' = live \union {n}
          /\ next' = [next EXCEPT ![n] = Null]
          /\ value' = [value EXCEPT ![n] = v]
          /\ node' = [node EXCEPT ![p] = n]
    BY DEF PushAlloc
  <1>2. /\ pc[p] = "idle" /\ popPc \in {"idle", "head"}
        /\ pc' = [pc EXCEPT ![p] = "swap"]
        /\ UNCHANGED <<head, tail, prev, popPc, ret, cur, chain>>
    BY DEF PushAlloc
  <1>3. TypeOK'
    BY <1>1, <1>2 DEF TypeOK
  <1>4. \A i \in 1..Len(chain) : chain[i] \in live /\ chain[i] # n /\ chain[i] \in Addr
    BY <1>2 DEF HeapOK, TypeOK
  <1>5. \A i \in 1..Len(chain) : next'[chain[i]] = next[chain[i]] /\ value'[chain[i]] = value[chain[i]]
    BY <1>1, <1>4 DEF TypeOK
  <1>6. EndsOK'
    BY <1>2 DEF EndsOK
  <1>7. LinksOK'
    <2>1. next'[chain'[Len(chain')]] = Null
      BY <1>2, <1>5 DEF LinksOK, EndsOK, TypeOK
    <2>2. ASSUME NEW i \in 1..(Len(chain) - 1)
          PROVE  \/ next'[chain[i]] = chain[i + 1]
                 \/ /\ next'[chain[i]] = Null
                    /\ \E q \in Pusher : pc'[q] = "link" /\ prev'[q] = chain[i] /\ node'[q] = chain[i + 1]
      <3>1. next'[chain[i]] = next[chain[i]]
        BY <1>5, <2>2 DEF TypeOK
      <3>2. CASE next[chain[i]] = chain[i + 1]
        BY <3>1, <3>2
      <3>3. CASE next[chain[i]] = Null /\ \E q \in Pusher : pc[q] = "link" /\ prev[q] = chain[i] /\ node[q] = chain[i + 1]
        <4>1. PICK q \in Pusher : pc[q] = "link" /\ prev[q] = chain[i] /\ node[q] = chain[i + 1]
          BY <3>3
        <4>2. q # p /\ pc'[q] = "link" /\ prev'[q] = chain[i] /\ node'[q] = chain[i + 1]
          BY <4>1, <1>1, <1>2 DEF TypeOK
        <4> QED
          BY <3>1, <3>3, <4>2
      <3> QED
        BY <3>2, <3>3, <2>2 DEF LinksOK
    <2> QED
      BY <2>1, <2>2, <1>2 DEF LinksOK
  <1>8. ValuesOK'
    BY <1>2, <1>5 DEF ValuesOK, EndsOK, TypeOK
  <1>9. PushersOK'
    <2>1. ASSUME NEW q \in Pusher, q # p
          PROVE pc'[q] = pc[q] /\ node'[q] = node[q] /\ prev'[q] = prev[q]
      BY <1>1, <1>2, <2>1 DEF TypeOK
    <2>2. pc'[p] = "swap" /\ node'[p] = n /\ next'[n] = Null /\ value'[n] = v
      BY <1>1, <1>2 DEF TypeOK
    <2>3. ASSUME NEW q \in Pusher, q # p, pc[q] # "idle"
          PROVE node[q] \in live /\ node[q] # n
      <3>1. CASE pc[q] = "swap"
        BY <3>1, <1>2 DEF HeapOK
      <3>2. CASE pc[q] = "link"
        BY <3>2, <1>4 DEF PushersOK, TypeOK
      <3> QED
        BY <3>1, <3>2, <2>3 DEF TypeOK
    <2>4. ASSUME NEW q \in Pusher, pc'[q] = "swap"
          PROVE  /\ node'[q] \in Addr
                 /\ \A i \in 1..Len(chain') : chain'[i] # node'[q]
                 /\ next'[node'[q]] = Null
                 /\ value'[node'[q]] \in Value
      <3>1. CASE q = p
        BY <3>1, <2>2, <1>2, <1>4
      <3>2. CASE q # p
        BY <3>2, <2>1, <2>3, <2>4, <1>1, <1>2 DEF PushersOK, TypeOK
      <3> QED
        BY <3>1, <3>2
    <2>5. ASSUME NEW q \in Pusher, pc'[q] = "link"
          PROVE  \E i \in 1..(Len(chain') - 1) :
                   prev'[q] = chain'[i] /\ node'[q] = chain'[i + 1] /\ next'[chain'[i]] = Null
      <3>1. q # p /\ pc[q] = "link"
        BY <2>5, <2>1, <2>2
      <3>2. PICK i \in 1..(Len(chain) - 1) :
                   prev[q] = chain[i] /\ node[q] = chain[i + 1] /\ next[chain[i]] = Null
        BY <3>1 DEF PushersOK
      <3>3. next'[chain[i]] = Null
        BY <3>2, <1>5 DEF TypeOK
      <3> QED
        BY <3>1, <3>2, <3>3, <2>1, <1>2
    <2>6. ASSUME NEW q \in Pusher, NEW r \in Pusher, q # r, pc'[q] # "idle", pc'[r] # "idle"
          PROVE  node'[q] # node'[r]
      BY <2>1, <2>2, <2>3, <2>6 DEF PushersOK
    <2> QED
      BY <2>4, <2>5, <2>6 DEF PushersOK
  <1>10. HeapOK'
    BY <1>1, <1>2, <1>4 DEF HeapOK, TypeOK
  <1> QED
    BY <1>3, <1>6, <1>7, <1>8, <1>9, <1>10

\* The swap appends the pusher's node to the chain and opens a gap before it.
LEMMA SwapInv ==
    ASSUME IndInv, NEW p \in Pusher, PushSwap(p)
    PROVE  IndInv'
  <1> USE PointerAssumption DEF IndInv, ListInv
  <1> DEFINE n == node[p]
             L == Len(chain)
  <1>1. /\ pc[p] = "swap"
        /\ prev' = [prev EXCEPT ![p] = head]
        /\ head' = n
        /\ chain' = Append(chain, n)
        /\ pc' = [pc EXCEPT ![p] = "link"]
        /\ UNCHANGED <<tail, next, value, live, node, popPc, ret, cur>>
    BY DEF PushSwap
  <1>2. /\ n \in Addr
        /\ \A i \in 1..L : chain[i] # n
        /\ next[n] = Null
        /\ value[n] \in Value
    BY <1>1 DEF PushersOK
  <1>3. /\ chain' \in Seq(Addr)
        /\ Len(chain') = L + 1
        /\ \A i \in 1..L : chain'[i] = chain[i]
        /\ chain'[L + 1] = n
    BY <1>1, <1>2, AppendFacts DEF TypeOK
  <1>4. L \in Nat /\ L > 0 /\ chain[1] = tail /\ chain[L] = head
    BY DEF TypeOK, EndsOK
  <1>5. TypeOK'
    BY <1>1, <1>2, <1>3 DEF TypeOK
  <1>6. EndsOK'
    <2>1. Len(chain') > 0 /\ chain'[1] = tail' /\ chain'[Len(chain')] = head'
      BY <1>1, <1>3, <1>4
    <2>2. ASSUME NEW i \in 1..Len(chain'), NEW j \in 1..Len(chain'), chain'[i] = chain'[j]
          PROVE  i = j
      BY <1>2, <1>3, <1>4, <2>2 DEF EndsOK
    <2> QED
      BY <2>1, <2>2 DEF EndsOK
  <1>7. \A q \in Pusher : q # p => pc'[q] = pc[q] /\ prev'[q] = prev[q]
    BY <1>1 DEF TypeOK
  <1>8. pc'[p] = "link" /\ prev'[p] = chain[L] /\ node'[p] = n
    BY <1>1, <1>4 DEF TypeOK
  <1>9. LinksOK'
    <2>1. next'[chain'[Len(chain')]] = Null
      BY <1>1, <1>2, <1>3, <1>4
    <2>2. ASSUME NEW i \in 1..(Len(chain') - 1)
          PROVE  \/ next'[chain'[i]] = chain'[i + 1]
                 \/ /\ next'[chain'[i]] = Null
                    /\ \E q \in Pusher : pc'[q] = "link" /\ prev'[q] = chain'[i] /\ node'[q] = chain'[i + 1]
      <3>1. CASE i = L
        BY <3>1, <1>1, <1>3, <1>4, <1>8 DEF LinksOK
      <3>2. CASE i < L
        <4>1. i \in 1..(L - 1) /\ chain'[i] = chain[i] /\ chain'[i + 1] = chain[i + 1]
          BY <3>2, <2>2, <1>3, <1>4
        <4>2. CASE next[chain[i]] = chain[i + 1]
          BY <4>1, <4>2, <1>1
        <4>3. CASE next[chain[i]] = Null /\ \E q \in Pusher : pc[q] = "link" /\ prev[q] = chain[i] /\ node[q] = chain[i + 1]
          <5>1. PICK q \in Pusher : pc[q] = "link" /\ prev[q] = chain[i] /\ node[q] = chain[i + 1]
            BY <4>3
          <5>2. q # p
            BY <5>1, <1>1
          <5> QED
            BY <4>1, <4>3, <5>1, <5>2, <1>1, <1>7
        <4> QED
          BY <4>1, <4>2, <4>3 DEF LinksOK
      <3> QED
        BY <3>1, <3>2, <2>2, <1>3, <1>4
    <2> QED
      BY <2>1, <2>2 DEF LinksOK
  <1>10. ValuesOK'
    BY <1>1, <1>2, <1>3, <1>4 DEF ValuesOK
  <1>11. PushersOK'
    <2>1. ASSUME NEW q \in Pusher, pc'[q] = "swap"
          PROVE  /\ node'[q] \in Addr
                 /\ \A i \in 1..Len(chain') : chain'[i] # node'[q]
                 /\ next'[node'[q]] = Null
                 /\ value'[node'[q]] \in Value
      <3>1. q # p /\ pc[q] = "swap"
        BY <2>1, <1>7, <1>8
      <3>2. node[q] # n
        BY <3>1, <1>1 DEF PushersOK
      <3> QED
        BY <3>1, <3>2, <1>1, <1>3, <1>4 DEF PushersOK
    <2>2. ASSUME NEW q \in Pusher, pc'[q] = "link"
          PROVE  \E i \in 1..(Len(chain') - 1) :
                   prev'[q] = chain'[i] /\ node'[q] = chain'[i + 1] /\ next'[chain'[i]] = Null
      <3>1. CASE q = p
        <4>1. L \in 1..(Len(chain') - 1) /\ next[chain[L]] = Null
          BY <1>3, <1>4 DEF LinksOK
        <4> QED
          BY <3>1, <4>1, <1>1, <1>3, <1>4, <1>8
      <3>2. CASE q # p
        <4>1. PICK i \in 1..(L - 1) :
                   prev[q] = chain[i] /\ node[q] = chain[i + 1] /\ next[chain[i]] = Null
          BY <3>2, <2>2, <1>7 DEF PushersOK
        <4>2. i \in 1..(Len(chain') - 1) /\ chain'[i] = chain[i] /\ chain'[i + 1] = chain[i + 1]
          BY <4>1, <1>3, <1>4
        <4> QED
          BY <3>2, <4>1, <4>2, <1>1, <1>7
      <3> QED
        BY <3>1, <3>2
    <2>3. \A q, r \in Pusher : q # r /\ pc'[q] # "idle" /\ pc'[r] # "idle" => node'[q] # node'[r]
      BY <1>1, <1>7 DEF PushersOK
    <2> QED
      BY <2>1, <2>2, <2>3 DEF PushersOK
  <1>12. HeapOK'
    <2>1. popPc \in {"idle", "head"}
      BY <1>1 DEF HeapOK, TypeOK
    <2>2. \A i \in 1..Len(chain') : chain'[i] \in live
      BY <2>1, <1>1, <1>3, <1>4 DEF HeapOK
    <2>3. \A q \in Pusher : pc'[q] = "swap" => node[q] \in live
      BY <2>1, <1>7, <1>8 DEF HeapOK
    <2>4. ASSUME NEW a \in live
          PROVE  \/ \E i \in 1..Len(chain') : a = chain'[i]
                 \/ \E q \in Pusher : pc'[q] = "swap" /\ a = node[q]
      <3>1. CASE \E i \in 1..L : a = chain[i]
        BY <3>1, <1>3, <1>4
      <3>2. CASE \E q \in Pusher : pc[q] = "swap" /\ a = node[q]
        BY <3>2, <1>3, <1>4, <1>7
      <3> QED
        BY <3>1, <3>2, <2>1 DEF HeapOK
    <2> QED
      BY <2>1, <2>2, <2>3, <2>4, <1>1 DEF HeapOK
  <1> QED
    BY <1>5, <1>6, <1>9, <1>10, <1>11, <1>12

\* The store closes the gap its pusher opened, and no other.
LEMMA LinkInv ==
    ASSUME IndInv, NEW p \in Pusher, PushLink(p)
    PROVE  IndInv'
  <1> USE PointerAssumption DEF IndInv, ListInv
  <1>1. /\ pc[p] = "link"
        /\ next' = [next EXCEPT ![prev[p]] = node[p]]
        /\ pc' = [pc EXCEPT ![p] = "idle"]
        /\ node' = [node EXCEPT ![p] = Null]
        /\ prev' = [prev EXCEPT ![p] = Null]
        /\ UNCHANGED <<head, tail, value, live, popPc, ret, cur, chain>>
    BY DEF PushLink
  <1>2. PICK k \in 1..(Len(chain) - 1) :
             prev[p] = chain[k] /\ node[p] = chain[k + 1] /\ next[chain[k]] = Null
    BY <1>1 DEF PushersOK
  <1>3. Len(chain) \in Nat /\ \A i \in 1..Len(chain) : chain[i] \in Addr
    BY DEF TypeOK
  <1>4. next'[chain[k]] = chain[k + 1] /\ \A a \in Addr : a # chain[k] => next'[a] = next[a]
    BY <1>1, <1>2, <1>3 DEF TypeOK
  <1>5. \A i \in 1..Len(chain) : i # k => next'[chain[i]] = next[chain[i]]
    BY <1>2, <1>3, <1>4 DEF EndsOK
  <1>6. TypeOK'
    BY <1>1 DEF TypeOK
  <1>7. EndsOK' /\ ValuesOK'
    BY <1>1 DEF EndsOK, ValuesOK
  <1>8. \A q \in Pusher : q # p => pc'[q] = pc[q] /\ prev'[q] = prev[q] /\ node'[q] = node[q]
    BY <1>1 DEF TypeOK
  <1>9. pc'[p] = "idle"
    BY <1>1 DEF TypeOK
  <1>10. LinksOK'
    <2>1. next'[chain'[Len(chain')]] = Null
      BY <1>1, <1>2, <1>3, <1>5 DEF LinksOK, EndsOK
    <2>2. ASSUME NEW i \in 1..(Len(chain) - 1)
          PROVE  \/ next'[chain[i]] = chain[i + 1]
                 \/ /\ next'[chain[i]] = Null
                    /\ \E q \in Pusher : pc'[q] = "link" /\ prev'[q] = chain[i] /\ node'[q] = chain[i + 1]
      <3>1. CASE i = k
        BY <3>1, <1>4
      <3>2. CASE i # k
        <4>1. next'[chain[i]] = next[chain[i]]
          BY <3>2, <2>2, <1>3, <1>5
        <4>2. CASE next[chain[i]] = chain[i + 1]
          BY <4>1, <4>2
        <4>3. CASE next[chain[i]] = Null /\ \E q \in Pusher : pc[q] = "link" /\ prev[q] = chain[i] /\ node[q] = chain[i + 1]
          <5>1. PICK q \in Pusher : pc[q] = "link" /\ prev[q] = chain[i] /\ node[q] = chain[i + 1]
            BY <4>3
          <5>2. chain[i] # chain[k]
            <6>1. i \in 1..Len(chain) /\ k \in 1..Len(chain)
              BY <2>2, <1>2, <1>3
            <6> QED
              BY <6>1, <3>2 DEF EndsOK
          <5>3. q # p
            BY <5>1, <5>2, <1>2
          <5> QED
            BY <4>1, <4>3, <5>1, <5>3, <1>8
        <4> QED
          BY <4>2, <4>3, <2>2 DEF LinksOK
      <3> QED
        BY <3>1, <3>2
    <2> QED
      BY <2>1, <2>2, <1>1 DEF LinksOK
  <1>11. PushersOK'
    <2>1. ASSUME NEW q \in Pusher, pc'[q] = "swap"
          PROVE  /\ node'[q] \in Addr
                 /\ \A i \in 1..Len(chain') : chain'[i] # node'[q]
                 /\ next'[node'[q]] = Null
                 /\ value'[node'[q]] \in Value
      <3>1. q # p /\ pc[q] = "swap"
        BY <2>1, <1>8, <1>9
      <3>2. node[q] # chain[k] /\ node[q] \in Addr
        BY <3>1, <1>2, <1>3 DEF PushersOK
      <3> QED
        BY <3>1, <3>2, <1>1, <1>4, <1>8 DEF PushersOK
    <2>2. ASSUME NEW q \in Pusher, pc'[q] = "link"
          PROVE  \E i \in 1..(Len(chain') - 1) :
                   prev'[q] = chain'[i] /\ node'[q] = chain'[i + 1] /\ next'[chain'[i]] = Null
      <3>1. q # p /\ pc[q] = "link"
        BY <2>2, <1>8, <1>9
      <3>2. PICK i \in 1..(Len(chain) - 1) :
                 prev[q] = chain[i] /\ node[q] = chain[i + 1] /\ next[chain[i]] = Null
        BY <3>1 DEF PushersOK
      <3>3. node[q] # node[p]
        BY <3>1, <1>1 DEF PushersOK
      <3>4. i # k
        BY <3>2, <3>3, <1>2
      <3>5. next'[chain[i]] = Null
        BY <3>2, <3>4, <1>3, <1>5
      <3> QED
        BY <3>1, <3>2, <3>5, <1>1, <1>8
    <2>3. \A q, r \in Pusher : q # r /\ pc'[q] # "idle" /\ pc'[r] # "idle" => node'[q] # node'[r]
      BY <1>8, <1>9 DEF PushersOK
    <2> QED
      BY <2>1, <2>2, <2>3 DEF PushersOK
  <1>12. HeapOK'
    BY <1>1, <1>8, <1>9 DEF HeapOK, TypeOK
  <1> QED
    BY <1>6, <1>7, <1>10, <1>11, <1>12

\* What pop() finds when the tail has a successor.
LEMMA PopFacts ==
    ASSUME IndInv, popPc \in {"idle", "head"}, next[tail] # Null
    PROVE  /\ Len(chain) \in Nat /\ Len(chain) > 1
           /\ tail = chain[1] /\ next[tail] = chain[2]
           /\ value[tail] = None /\ value[next[tail]] \in Value
  <1> USE DEF IndInv, ListInv
  <1>1. Len(chain) \in Nat /\ Len(chain) > 0 /\ tail = chain[1]
    BY DEF TypeOK, EndsOK
  <1>2. Len(chain) > 1
    BY <1>1 DEF LinksOK
  <1>3. next[tail] = chain[2]
    <2>1. 1 \in 1..(Len(chain) - 1)
      BY <1>1, <1>2
    <2> QED
      BY <2>1, <1>1 DEF LinksOK
  <1>4. value[tail] = None /\ value[next[tail]] \in Value
    BY <1>1, <1>2, <1>3 DEF ValuesOK
  <1> QED
    BY <1>1, <1>2, <1>3, <1>4

\* Popping drops the first node of the chain: no pusher can still want it.
LEMMA PopDataInv ==
    ASSUME IndInv, PopData
    PROVE  IndInv'
  <1> USE PointerAssumption DEF IndInv, ListInv
  <1> DEFINE L == Len(chain)
  <1>1. /\ popPc = "idle" /\ next[tail] # Null
        /\ tail' = next[tail]
        /\ ret' = Data(value[next[tail]])
        /\ value' = [value EXCEPT ![next[tail]] = None]
        /\ live' = live \ {tail}
        /\ chain' = Tail(chain)
        /\ UNCHANGED <<head, next, pc, node, prev, popPc, cur>>
    BY DEF PopData
  <1>2. /\ L \in Nat /\ L > 1
        /\ tail = chain[1] /\ next[tail] = chain[2]
        /\ value[tail] = None /\ value[next[tail]] \in Value
    BY <1>1, PopFacts
  <1>3. /\ chain' \in Seq(Addr)
        /\ Len(chain') = L - 1
        /\ \A i \in 1..(L - 1) : chain'[i] = chain[i + 1]
    BY <1>1, <1>2, TailFacts DEF TypeOK
  <1>4. \A i \in 1..L : chain[i] \in Addr
    BY DEF TypeOK
  <1>5. \A i, j \in 1..L : chain[i] = chain[j] => i = j
    BY DEF EndsOK
  <1>6. TypeOK'
    BY <1>1, <1>2, <1>3, <1>4 DEF TypeOK, Results, Data
  <1>7. EndsOK'
    <2>1. Len(chain') > 0 /\ chain'[1] = tail' /\ chain'[Len(chain')] = head'
      BY <1>1, <1>2, <1>3 DEF EndsOK
    <2>2. ASSUME NEW i \in 1..Len(chain'), NEW j \in 1..Len(chain'), chain'[i] = chain'[j]
          PROVE  i = j
      <3>1. i + 1 \in 1..L /\ j + 1 \in 1..L /\ chain[i + 1] = chain[j + 1]
        BY <2>2, <1>2, <1>3
      <3>2. i + 1 = j + 1
        BY <3>1, <1>5
      <3> QED
        BY <3>2, <1>2, <1>3
    <2> QED
      BY <2>1, <2>2 DEF EndsOK
  <1>8. LinksOK'
    <2>1. next'[chain'[Len(chain')]] = Null
      BY <1>1, <1>2, <1>3 DEF LinksOK
    <2>2. ASSUME NEW i \in 1..(Len(chain') - 1)
          PROVE  \/ next'[chain'[i]] = chain'[i + 1]
                 \/ /\ next'[chain'[i]] = Null
                    /\ \E q \in Pusher : pc'[q] = "link" /\ prev'[q] = chain'[i] /\ node'[q] = chain'[i + 1]
      <3>1. /\ i + 1 \in 1..(L - 1)
            /\ chain'[i] = chain[i + 1] /\ chain'[i + 1] = chain[(i + 1) + 1]
        BY <2>2, <1>2, <1>3
      <3> QED
        BY <3>1, <1>1 DEF LinksOK
    <2> QED
      BY <2>1, <2>2 DEF LinksOK
  <1>9. ValuesOK'
    <2>1. value'[chain'[1]] = None
      BY <1>1, <1>2, <1>3, <1>4 DEF TypeOK
    <2>2. ASSUME NEW i \in 2..Len(chain')
          PROVE  value'[chain'[i]] \in Value
      <3>1. i + 1 \in 2..L /\ chain'[i] = chain[i + 1] /\ chain[i + 1] \in Addr
        BY <2>2, <1>2, <1>3, <1>4
      <3>2. chain[i + 1] # chain[2]
        BY <3>1, <2>2, <1>2, <1>3, <1>5
      <3> QED
        BY <3>1, <3>2, <1>1, <1>2 DEF ValuesOK, TypeOK
    <2> QED
      BY <2>1, <2>2 DEF ValuesOK
  <1>10. PushersOK'
    <2>1. ASSUME NEW q \in Pusher, pc'[q] = "swap"
          PROVE  /\ node'[q] \in Addr
                 /\ \A i \in 1..Len(chain') : chain'[i] # node'[q]
                 /\ next'[node'[q]] = Null
                 /\ value'[node'[q]] \in Value
      <3>1. /\ node[q] \in Addr /\ next[node[q]] = Null /\ value[node[q]] \in Value
            /\ \A i \in 1..L : chain[i] # node[q]
        BY <2>1, <1>1 DEF PushersOK
      <3>2. \A i \in 1..Len(chain') : i + 1 \in 1..L /\ chain'[i] = chain[i + 1]
        BY <1>2, <1>3
      <3>3. node[q] # next[tail]
        BY <3>1, <1>2
      <3>4. value'[node[q]] = value[node[q]]
        BY <3>1, <3>3, <1>1 DEF TypeOK
      <3> QED
        BY <3>1, <3>2, <3>4, <1>1
    <2>2. ASSUME NEW q \in Pusher, pc'[q] = "link"
          PROVE  \E i \in 1..(Len(chain') - 1) :
                   prev'[q] = chain'[i] /\ node'[q] = chain'[i + 1] /\ next'[chain'[i]] = Null
      <3>1. PICK i \in 1..(L - 1) :
                 prev[q] = chain[i] /\ node[q] = chain[i + 1] /\ next[chain[i]] = Null
        BY <2>2, <1>1 DEF PushersOK
      <3>2. i # 1
        BY <3>1, <1>1, <1>2
      <3>3. /\ i - 1 \in 1..(Len(chain') - 1)
            /\ chain'[i - 1] = chain[(i - 1) + 1] /\ chain'[i] = chain[i + 1]
            /\ (i - 1) + 1 = i
        BY <3>1, <3>2, <1>2, <1>3
      <3> QED
        BY <3>1, <3>3, <1>1
    <2>3. \A q, r \in Pusher : q # r /\ pc'[q] # "idle" /\ pc'[r] # "idle" => node'[q] # node'[r]
      BY <1>1 DEF PushersOK
    <2> QED
      BY <2>1, <2>2, <2>3 DEF PushersOK
  <1>11. HeapOK'
    <2>1. \A i \in 1..Len(chain') : chain'[i] \in live'
      <3> SUFFICES ASSUME NEW i \in 1..Len(chain') PROVE chain'[i] \in live'
        OBVIOUS
      <3>1. i + 1 \in 1..L /\ 1 \in 1..L /\ i + 1 # 1 /\ chain'[i] = chain[i + 1]
        BY <1>2, <1>3
      <3>2. chain[i + 1] # tail
        BY <3>1, <1>2, <1>5
      <3>3. chain[i + 1] \in live
        BY <3>1, <1>1 DEF HeapOK
      <3> QED
        BY <3>1, <3>2, <3>3, <1>1
    <2>2. \A q \in Pusher : pc'[q] = "swap" => node'[q] \in live'
      BY <1>1, <1>2 DEF HeapOK, PushersOK
    <2>3. ASSUME NEW a \in live'
          PROVE  \/ \E i \in 1..Len(chain') : a = chain'[i]
                 \/ \E q \in Pusher : pc'[q] = "swap" /\ a = node'[q]
      <3>1. a \in live /\ a # chain[1]
        BY <1>1, <1>2
      <3>2. CASE \E i \in 1..L : a = chain[i]
        <4>1. PICK i \in 1..L : a = chain[i]
          BY <3>2
        <4>2. i - 1 \in 1..Len(chain') /\ chain'[i - 1] = chain[(i - 1) + 1] /\ (i - 1) + 1 = i
          BY <4>1, <3>1, <1>2, <1>3
        <4> QED
          BY <4>1, <4>2
      <3>3. CASE \E q \in Pusher : pc[q] = "swap" /\ a = node[q]
        BY <3>3, <1>1
      <3> QED
        BY <3>1, <3>2, <3>3, <1>1 DEF HeapOK
    <2> QED
      BY <2>1, <2>2, <2>3, <1>1 DEF HeapOK
  <1> QED
    BY <1>6, <1>7, <1>8, <1>9, <1>10, <1>11

\* The other steps of the popper leave the list alone; drop() frees it node
\* by node.
LEMMA PopperInv ==
    ASSUME IndInv, PopNull \/ PopHead \/ DropQueue \/ DropEnd
    PROVE  IndInv'
  <1> USE PointerAssumption DEF IndInv, ListInv
  <1>1. UNCHANGED <<head, tail, next, value, live, pc, node, prev, chain>>
    BY DEF PopNull, PopHead, DropQueue, DropEnd
  <1>2. EndsOK' /\ LinksOK' /\ ValuesOK' /\ PushersOK'
    BY <1>1 DEF EndsOK, LinksOK, ValuesOK, PushersOK
  <1>3. CASE PopNull
    BY <1>1, <1>2, <1>3 DEF PopNull, TypeOK, HeapOK
  <1>4. CASE PopHead
    BY <1>1, <1>2, <1>4 DEF PopHead, TypeOK, HeapOK, Results, Result
  <1>5. CASE DropEnd
    BY <1>1, <1>2, <1>5 DEF DropEnd, TypeOK, HeapOK
  <1>6. CASE DropQueue
    <2>1. Len(chain) \in Nat /\ 1 \in 1..Len(chain) /\ cur' = chain[1]
      BY <1>6 DEF DropQueue, EndsOK, TypeOK
    <2>2. StillThere(1)'
      BY <1>6, <1>1 DEF DropQueue, HeapOK, TypeOK, StillThere
    <2>3. TypeOK'
      BY <1>6, <1>1 DEF DropQueue, TypeOK
    <2>4. HeapOK'
      BY <1>6, <1>1, <2>1, <2>2 DEF DropQueue, HeapOK, TypeOK
    <2> QED
      BY <1>2, <2>3, <2>4
  <1> QED
    BY <1>3, <1>4, <1>5, <1>6

LEMMA DropNodeInv ==
    ASSUME IndInv, DropNode
    PROVE  IndInv'
  <1> USE PointerAssumption DEF IndInv, ListInv
  <1>1. /\ popPc = "drop" /\ cur # Null /\ live' = live \ {cur} /\ cur' = next[cur]
        /\ UNCHANGED <<head, tail, next, value, pc, node, prev, popPc, ret, chain>>
    BY DEF DropNode
  <1>2. EndsOK' /\ LinksOK' /\ ValuesOK' /\ PushersOK'
    BY <1>1 DEF EndsOK, LinksOK, ValuesOK, PushersOK
  <1>3. PICK k \in 1..Len(chain) : cur = chain[k] /\ StillThere(k)
    BY <1>1 DEF HeapOK
  <1>4. Len(chain) \in Nat
    BY DEF TypeOK
  <1>5. StillThere(k + 1)'
    <2>1. \A i \in (k + 1)..Len(chain) : chain[i] # chain[k] /\ chain[i] \in live
      BY <1>3, <1>4 DEF EndsOK, StillThere
    <2>2. ASSUME NEW a \in live, a # chain[k] PROVE \E i \in (k + 1)..Len(chain) : a = chain[i]
      BY <1>3, <1>4, <2>2 DEF StillThere
    <2> QED
      BY <1>1, <1>3, <2>1, <2>2 DEF StillThere
  <1>6. TypeOK'
    BY <1>1 DEF TypeOK
  <1>7. HeapOK'
    <2>1. CASE k = Len(chain)
      <3>1. cur' = Null /\ live' = {}
        BY <2>1, <1>1, <1>3, <1>4, <1>5 DEF LinksOK, StillThere
      <3> QED
        BY <3>1, <1>1 DEF HeapOK
    <2>2. CASE k < Len(chain)
      <3>1. k \in 1..(Len(chain) - 1) /\ k + 1 \in 1..Len(chain)
        BY <2>2, <1>3, <1>4
      <3>2. cur' = chain[k + 1]
        BY <3>1, <1>1, <1>3 DEF LinksOK, HeapOK
      <3> QED
        BY <3>1, <3>2, <1>1, <1>5 DEF HeapOK
    <2> QED
      BY <2>1, <2>2, <1>3, <1>4
  <1> QED
    BY <1>2, <1>6, <1>7

\* Every step preserves the invariant.
LEMMA StepInv == IndInv /\ [Next]_vars => IndInv'
  <1> SUFFICES ASSUME IndInv, [Next]_vars PROVE IndInv'
    OBVIOUS
  <1>1. ASSUME NEW p \in Pusher, NEW v \in Value, PushAlloc(p, v) PROVE IndInv'
    BY <1>1, AllocInv
  <1>2. ASSUME NEW p \in Pusher, PushSwap(p) PROVE IndInv'
    BY <1>2, SwapInv
  <1>3. ASSUME NEW p \in Pusher, PushLink(p) PROVE IndInv'
    BY <1>3, LinkInv
  <1>4. CASE PopData
    BY <1>4, PopDataInv
  <1>5. CASE PopNull \/ PopHead \/ DropQueue \/ DropEnd
    BY <1>5, PopperInv
  <1>6. CASE DropNode
    BY <1>6, DropNodeInv
  <1>7. CASE UNCHANGED vars
    <2>1. TypeOK' /\ EndsOK' /\ ValuesOK'
      BY <1>7 DEF vars, IndInv, TypeOK, ListInv, EndsOK, ValuesOK
    <2>2. LinksOK' /\ PushersOK'
      BY <1>7 DEF vars, IndInv, ListInv, LinksOK, PushersOK
    <2>3. HeapOK'
      BY <1>7 DEF vars, IndInv, ListInv, HeapOK, StillThere
    <2> QED
      BY <2>1, <2>2, <2>3 DEF IndInv, ListInv
  <1> QED
    BY <1>1, <1>2, <1>3, <1>4, <1>5, <1>6, <1>7 DEF Next, Gone

LEMMA Invariance == Spec => []IndInv
  BY InitInv, StepInv, PTL DEF Spec

-----------------------------------------------------------------------------

\* The queue and the locals of push, pop and drop keep their types.
THEOREM TypeCorrect == Spec => []TypeOK
  BY Invariance, PTL DEF IndInv

\* The list keeps its shape, whatever the pushers and the popper interleave.
THEOREM ListCorrect == Spec => []ListInv
  BY Invariance, PTL DEF IndInv

\* No node is dereferenced after it was freed by push, pop or drop.
THEOREM MemorySafe == Spec => []NoUseAfterFree
  <1>1. IndInv => NoUseAfterFree
    <2> SUFFICES ASSUME IndInv PROVE NoUseAfterFree
      OBVIOUS
    <2> USE DEF IndInv, ListInv
    <2>1. Len(chain) \in Nat /\ Len(chain) > 0 /\ chain[1] = tail
      BY DEF TypeOK, EndsOK
    <2>2. ASSUME NEW p \in Pusher, pc[p] = "link" PROVE prev[p] \in live
      <3>1. popPc \in {"idle", "head"}
        BY <2>2 DEF HeapOK, TypeOK
      <3> QED
        BY <2>1, <2>2, <3>1 DEF PushersOK, HeapOK
    <2>3. ASSUME popPc \in {"idle", "head"}
          PROVE  tail \in live /\ (next[tail] # Null => next[tail] \in live)
      BY <2>1, <2>3, PopFacts DEF HeapOK
    <2>4. ASSUME popPc = "drop", cur # Null PROVE cur \in live
      BY <2>1, <2>4 DEF HeapOK, StillThere
    <2> QED
      BY <2>2, <2>3, <2>4 DEF NoUseAfterFree
  <1> QED
    BY <1>1, Invariance, PTL

\* The assert!s of pop() hold.
THEOREM AssertsHold == Spec => []PopAsserts
  <1>1. IndInv => PopAsserts
    BY PopFacts, PointerAssumption DEF PopAsserts
  <1> QED
    BY <1>1, Invariance, PTL

\* drop() frees every node.
THEOREM LeakFree == Spec => []NothingLeaks
  <1>1. IndInv => NothingLeaks
    BY DEF IndInv, ListInv, HeapOK, NothingLeaks
  <1> QED
    BY <1>1, Invariance, PTL

-----------------------------------------------------------------------------
(* The queue implements FifoQueue. *)

\* A sequence is determined by its length and its elements.
LEMMA SeqEqual ==
    ASSUME NEW S, NEW s \in Seq(S), NEW t \in Seq(S), Len(s) = Len(t),
           \A i \in 1..Len(s) : s[i] = t[i]
    PROVE  s = t
  OBVIOUS

\* The abstract contents: the values behind the tail, oldest first.
LEMMA ContentsFacts ==
    ASSUME IndInv
    PROVE  /\ Len(chain) \in Nat /\ Len(chain) > 0
           /\ contents \in Seq(Value)
           /\ Len(contents) = Len(chain) - 1
           /\ \A i \in 1..(Len(chain) - 1) : contents[i] = value[chain[i + 1]]
           /\ contents = <<>> <=> Len(chain) = 1
  <1>1. Len(chain) \in Nat /\ Len(chain) > 0
    BY DEF IndInv, ListInv, TypeOK, EndsOK
  <1>2. \A i \in 1..(Len(chain) - 1) : value[chain[i + 1]] \in Value
    BY <1>1 DEF IndInv, ListInv, ValuesOK
  <1>3. contents \in Seq(Value) /\ Len(contents) = Len(chain) - 1
    BY <1>1, <1>2 DEF contents
  <1>4. \A i \in 1..(Len(chain) - 1) : contents[i] = value[chain[i + 1]]
    BY DEF contents
  <1>5. contents = <<>> <=> Len(chain) = 1
    <2>1. <<>> \in Seq(Value) /\ Len(<<>>) = 0
      OBVIOUS
    <2>2. ASSUME Len(chain) = 1 PROVE contents = <<>>
      BY <2>1, <2>2, <1>3, SeqEqual
    <2> QED
      BY <2>1, <2>2, <1>1, <1>3
  <1> QED
    BY <1>1, <1>3, <1>4, <1>5

\* Steps that leave the values behind the tail alone stutter.
LEMMA ContentsSame ==
    ASSUME IndInv, chain' = chain,
           \A i \in 2..Len(chain) : value'[chain[i]] = value[chain[i]]
    PROVE  contents' = contents
  <1>1. Len(chain) \in Nat
    BY ContentsFacts
  <1>2. \A i \in 1..(Len(chain) - 1) : value'[chain'[i + 1]] = value[chain[i + 1]]
    BY <1>1
  <1> QED
    BY <1>2 DEF contents

LEMMA RefineInit == Init => Fifo!Init
  <1> SUFFICES ASSUME Init PROVE Fifo!Init
    OBVIOUS
  <1>1. contents = <<>>
    <2>1. Len(chain) = 1
      BY DEF Init
    <2> QED
      BY <2>1, InitInv, ContentsFacts
  <1> QED
    BY <1>1 DEF Init, Fifo!Init, absQueue, Dropping, Result, Fifo!Result

\* The swap is the push.
LEMMA RefineSwap ==
    ASSUME IndInv, IndInv', NEW p \in Pusher, PushSwap(p)
    PROVE  \E v \in Value : Fifo!Push(v)
  <1> DEFINE v == value[node[p]]
  <1>1. /\ pc[p] = "swap" /\ chain' = Append(chain, node[p])
        /\ UNCHANGED <<value, popPc, ret>>
    BY DEF PushSwap
  <1>2. node[p] \in Addr /\ v \in Value
    BY <1>1 DEF IndInv, ListInv, PushersOK
  <1>3. ~Dropping /\ ~Dropping'
    BY <1>1 DEF IndInv, ListInv, HeapOK, Dropping
  <1>4. /\ Len(chain') = Len(chain) + 1
        /\ \A i \in 1..Len(chain) : chain'[i] = chain[i]
        /\ chain'[Len(chain) + 1] = node[p]
    BY <1>1, <1>2, AppendFacts DEF IndInv, TypeOK
  <1>5. contents' = Append(contents, v)
    <2>1. /\ Len(chain) \in Nat /\ Len(chain) > 0
          /\ contents \in Seq(Value) /\ Len(contents) = Len(chain) - 1
          /\ \A i \in 1..(Len(chain) - 1) : contents[i] = value[chain[i + 1]]
      BY ContentsFacts
    <2>2. contents' = [i \in 1..Len(chain) |-> value[chain'[i + 1]]]
      BY <1>1, <1>4, <2>1 DEF contents
    <2>3. \A i \in 1..Len(chain) : value[chain'[i + 1]] = Append(contents, v)[i]
      <3> SUFFICES ASSUME NEW i \in 1..Len(chain) PROVE value[chain'[i + 1]] = Append(contents, v)[i]
        OBVIOUS
      <3>1. CASE i = Len(chain)
        BY <3>1, <2>1, <1>2, <1>4, AppendFacts
      <3>2. CASE i < Len(chain)
        <4>1. i \in 1..Len(contents) /\ i + 1 \in 1..Len(chain)
          BY <3>2, <2>1
        <4>2. Append(contents, v)[i] = contents[i]
          BY <4>1, <2>1, <1>2, AppendFacts
        <4> QED
          BY <4>1, <4>2, <2>1, <1>4
      <3> QED
        BY <3>1, <3>2, <2>1
    <2>4. Append(contents, v) \in Seq(Value) /\ Len(Append(contents, v)) = Len(chain)
      BY <2>1, <1>2, AppendFacts
    <2>5. contents' \in Seq(Value) /\ Len(contents') = Len(chain)
      <3>1. \A i \in 1..Len(chain) : value[chain'[i + 1]] \in Value
        BY <2>3, <2>4
      <3> QED
        BY <3>1, <2>1, <2>2
    <2>6. \A i \in 1..Len(contents') : contents'[i] = Append(contents, v)[i]
      BY <2>2, <2>3, <2>5
    <2> HIDE DEF v
    <2> QED
      BY <2>4, <2>5, <2>6, SeqEqual
  <1>6. absQueue = contents /\ absQueue' = contents'
    BY <1>3 DEF absQueue
  <1>7. Dropping = FALSE /\ Dropping' = FALSE
    BY <1>3 DEF Dropping
  <1> HIDE DEF v
  <1> QED
    BY <1>1, <1>2, <1>5, <1>6, <1>7 DEF Fifo!Push

\* The load that finds a successor is the pop.
LEMMA RefinePopData ==
    ASSUME IndInv, PopData
    PROVE  Fifo!PopData
  <1>1. /\ popPc = "idle" /\ next[tail] # Null
        /\ ret' = Data(value[next[tail]])
        /\ value' = [value EXCEPT ![next[tail]] = None]
        /\ chain' = Tail(chain) /\ popPc' = popPc
    BY DEF PopData
  <1>2. /\ Len(chain) \in Nat /\ Len(chain) > 1 /\ next[tail] = chain[2]
    BY <1>1, PopFacts
  <1>3. ~Dropping /\ ~Dropping'
    BY <1>1 DEF Dropping
  <1>4. /\ Len(chain') = Len(chain) - 1
        /\ \A i \in 1..(Len(chain) - 1) : chain'[i] = chain[i + 1]
    BY <1>1, <1>2, TailFacts DEF IndInv, TypeOK
  <1>5. /\ contents \in Seq(Value) /\ Len(contents) = Len(chain) - 1
        /\ \A i \in 1..(Len(chain) - 1) : contents[i] = value[chain[i + 1]]
        /\ contents # <<>>
    BY <1>2, ContentsFacts
  <1>6. Head(contents) = value[next[tail]]
    BY <1>2, <1>5
  <1>7. contents' = Tail(contents)
    <2>1. contents' = [i \in 1..(Len(chain) - 2) |-> value'[chain'[i + 1]]]
      BY <1>2, <1>4 DEF contents
    <2>2. /\ Tail(contents) \in Seq(Value) /\ Len(Tail(contents)) = Len(chain) - 2
          /\ \A i \in 1..(Len(chain) - 2) : Tail(contents)[i] = contents[i + 1]
      BY <1>2, <1>5, TailFacts
    <2>3. \A i \in 1..(Len(chain) - 2) : value'[chain'[i + 1]] = Tail(contents)[i]
      <3> SUFFICES ASSUME NEW i \in 1..(Len(chain) - 2)
                   PROVE  value'[chain'[i + 1]] = Tail(contents)[i]
        OBVIOUS
      <3>1. i + 1 \in 1..(Len(chain) - 1) /\ (i + 1) + 1 \in 1..Len(chain) /\ (i + 1) + 1 # 2 /\ 2 \in 1..Len(chain)
        BY <1>2
      <3>2. chain'[i + 1] = chain[(i + 1) + 1] /\ chain[(i + 1) + 1] # chain[2] /\ chain[(i + 1) + 1] \in Addr
        BY <3>1, <1>4 DEF IndInv, ListInv, EndsOK, TypeOK
      <3>3. value'[chain'[i + 1]] = value[chain[(i + 1) + 1]]
        BY <3>2, <1>1, <1>2 DEF IndInv, TypeOK
      <3> QED
        BY <3>1, <3>3, <2>2, <1>5
    <2>4. contents' \in Seq(Value) /\ Len(contents') = Len(chain) - 2
      <3>1. \A i \in 1..(Len(chain) - 2) : value'[chain'[i + 1]] \in Value
        BY <2>2, <2>3
      <3> QED
        BY <3>1, <2>1, <1>2
    <2>5. \A i \in 1..Len(contents') : contents'[i] = Tail(contents)[i]
      BY <2>1, <2>3, <2>4
    <2> QED
      BY <2>2, <2>4, <2>5, SeqEqual
  <1>8. absQueue = contents /\ absQueue' = contents'
    BY <1>3 DEF absQueue
  <1>9. Dropping = FALSE /\ Dropping' = FALSE
    BY <1>3 DEF Dropping
  <1> QED
    BY <1>1, <1>5, <1>6, <1>7, <1>8, <1>9 DEF Fifo!PopData, Data, Fifo!Data

\* Comparing head and tail decides between Empty and Inconsistent.
LEMMA RefinePopHead ==
    ASSUME IndInv, PopHead
    PROVE  Fifo!PopEmpty \/ Fifo!PopInconsistent
  <1>1. /\ popPc = "head" /\ popPc' = "idle" /\ UNCHANGED <<chain, value>>
        /\ ret' = IF head = tail THEN Result("Empty") ELSE Result("Inconsistent")
    BY DEF PopHead
  <1>2. contents' = contents /\ ~Dropping /\ ~Dropping'
    BY <1>1 DEF contents, Dropping
  <1>3. /\ Len(chain) \in Nat /\ Len(chain) > 0
        /\ contents = <<>> <=> Len(chain) = 1
    BY ContentsFacts
  <1>4. head = tail <=> Len(chain) = 1
    <2>1. chain[1] = tail /\ chain[Len(chain)] = head
      BY DEF IndInv, ListInv, EndsOK
    <2>2. 1 \in 1..Len(chain) /\ Len(chain) \in 1..Len(chain)
      BY <1>3
    <2>3. \A i, j \in 1..Len(chain) : chain[i] = chain[j] => i = j
      BY DEF IndInv, ListInv, EndsOK
    <2> QED
      BY <2>1, <2>2, <2>3
  <1>a. absQueue = contents /\ absQueue' = contents
    BY <1>2 DEF absQueue
  <1>b. Dropping = FALSE /\ Dropping' = FALSE
    BY <1>2 DEF Dropping
  <1>5. CASE head = tail
    BY <1>1, <1>3, <1>4, <1>5, <1>a, <1>b DEF Fifo!PopEmpty, Result, Fifo!Result
  <1>6. CASE head # tail
    BY <1>1, <1>3, <1>4, <1>6, <1>a, <1>b DEF Fifo!PopInconsistent, Result, Fifo!Result
  <1> QED
    BY <1>5, <1>6

\* Every step of the implementation is a step of FifoQueue or a stutter.
LEMMA RefineStep == IndInv /\ IndInv' /\ [Next]_vars => [Fifo!Next]_(Fifo!fifoVars)
  <1> SUFFICES ASSUME IndInv, IndInv', [Next]_vars PROVE [Fifo!Next]_(Fifo!fifoVars)
    OBVIOUS
  <1>1. ASSUME NEW p \in Pusher, NEW v \in Value, PushAlloc(p, v)
        PROVE  UNCHANGED Fifo!fifoVars
    <2>1. PICK n \in Addr \ live : value' = [value EXCEPT ![n] = v]
      BY <1>1 DEF PushAlloc
    <2>2. popPc \in {"idle", "head"} /\ chain' = chain /\ popPc' = popPc /\ ret' = ret
      BY <1>1 DEF PushAlloc
    <2>3. \A i \in 2..Len(chain) : value'[chain[i]] = value[chain[i]]
      <3>1. \A i \in 2..Len(chain) : chain[i] \in live
        BY <2>2 DEF IndInv, ListInv, HeapOK, TypeOK
      <3> QED
        BY <2>1, <3>1 DEF IndInv, TypeOK
    <2>4. contents' = contents
      BY <2>2, <2>3, ContentsSame
    <2> QED
      BY <2>2, <2>4 DEF Fifo!fifoVars, absQueue, Dropping
  <1>2. ASSUME NEW p \in Pusher, PushSwap(p) PROVE Fifo!Next
    BY <1>2, RefineSwap DEF Fifo!Next
  <1>3. ASSUME NEW p \in Pusher, PushLink(p) PROVE UNCHANGED Fifo!fifoVars
    BY <1>3 DEF PushLink, Fifo!fifoVars, absQueue, contents, Dropping
  <1>4. CASE PopData
    BY <1>4, RefinePopData DEF Fifo!Next
  <1>5. CASE PopHead
    BY <1>5, RefinePopHead DEF Fifo!Next
  <1>6. CASE PopNull \/ DropNode \/ DropEnd \/ UNCHANGED vars
    <2>1. UNCHANGED <<chain, value, ret>> /\ (Dropping <=> Dropping')
      BY <1>6 DEF PopNull, DropNode, DropEnd, Dropping, vars
    <2>2. contents' = contents
      BY <2>1 DEF contents
    <2> QED
      BY <2>1, <2>2 DEF Fifo!fifoVars, absQueue, Dropping
  <1>7. CASE DropQueue
    BY <1>7 DEF DropQueue, Dropping, absQueue, Fifo!Drop, Fifo!Next
  <1> QED
    BY <1>1, <1>2, <1>3, <1>4, <1>5, <1>6, <1>7 DEF Next, Gone

\* queue.rs implements an atomic FIFO queue: nothing is lost, duplicated or
\* reordered, Empty and Inconsistent are returned only when they are true.
THEOREM FifoRefinement == Spec => ImplementsFifo
  <1>1. Spec => Fifo!Init
    BY RefineInit DEF Spec
  <1>2. Spec => [][Fifo!Next]_(Fifo!fifoVars)
    BY Invariance, RefineStep, PTL DEF Spec
  <1> QED
    BY <1>1, <1>2 DEF ImplementsFifo, Fifo!Spec

=============================================================================
