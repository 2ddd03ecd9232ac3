---------------------------- MODULE WriterProofs ----------------------------
(***************************************************************************)
(* Proofs about Writer for any watermarks, any number of bytes and events,  *)
(* any faults and whatever the callbacks do with the writer: types, what is  *)
(* out when the sink closes, and what is left when the context rests; then   *)
(* the stronger statements that hold when nothing fails.                     *)
(***************************************************************************)
EXTENDS Writer, SequenceTheorems, TLAPS

\* The lists of items the context can hold.
OtherFirst == <<"other", "writer">>
WriterFirst == <<"writer", "other">>
OtherOnly == <<"other">>
Lists == {OtherFirst, WriterFirst, OtherOnly}

AtWriter == idx <= Len(items) /\ items[idx] = "writer"

\* The loop: WriterFut is polled at its place in the list.
LoopOK ==
    /\ pc \in {"idle", "wait", "mail", "item", "ended"} \/ InWriter
    /\ idx \in 1..3 /\ drains \in Nat /\ items \in Lists
    /\ pc = "item" => idx <= Len(items) + 1
    /\ InWriter => AtWriter

\* The data: the bytes the actor wrote are in the buffer or have been taken by
\* the transport, and those the writer has not looked at are in the buffer.
DataOK ==
    /\ buffer \in 0..MaxWrite /\ accepted \in 0..MaxWrite /\ out \in 0..MaxWrite
    /\ late \in [bytes : 0..MaxWrite, error : BOOLEAN, close : BOOLEAN]
    /\ out + buffer = accepted /\ late.bytes <= buffer
    /\ error \in BOOLEAN /\ closing \in BOOLEAN /\ closed \in BOOLEAN /\ marks \in Marks
    /\ ready \in BOOLEAN /\ ioTask \in BOOLEAN /\ notified \in BOOLEAN
    /\ mail \in 0..MaxEvent /\ events \in 0..MaxEvent /\ arrived \in 0..MaxEvent
    /\ mail + events <= arrived

\* Once the buffer has been written out, what is in it is late.
Written == pc \in {"flush", "unflushed", "close"} => buffer = late.bytes

WriterInv == LoopOK /\ DataOK /\ Written

-----------------------------------------------------------------------------
(* The lists of items *)

LEMMA ListFacts ==
    /\ Len(OtherFirst) = 2 /\ OtherFirst[1] = "other" /\ OtherFirst[2] = "writer"
    /\ Len(WriterFirst) = 2 /\ WriterFirst[1] = "writer" /\ WriterFirst[2] = "other"
    /\ Len(OtherOnly) = 1 /\ OtherOnly[1] = "other"
    /\ Lists \subseteq Seq({"writer", "other"})
    /\ OtherFirst # OtherOnly /\ OtherFirst # WriterFirst
  BY DEF Lists, OtherFirst, WriterFirst, OtherOnly

LEMMA ListLength ==
    ASSUME NEW l \in Lists
    PROVE  Len(l) \in Nat /\ Len(l) <= 2
  <1>1. ASSUME NEW n \in {1, 2} PROVE n \in Nat /\ n <= 2
    OBVIOUS
  <1>2. Len(l) \in {1, 2}
    BY ListFacts DEF Lists
  <1> QED
    BY <1>1, <1>2

LEMMA PairRemoved ==
    ASSUME NEW a, NEW b
    PROVE  SwapRemove(<<a, b>>, 1) = <<b>> /\ SwapRemove(<<a, b>>, 2) = <<a>>
  <1>1. Len(<<a, b>>) = 2 /\ <<a, b>>[2] = b /\ Len(<<a, b>>) - 1 = 1
    OBVIOUS
  <1>2. [<<a, b>> EXCEPT ![1] = b] = <<b, b>>
    OBVIOUS
  <1>3. [<<a, b>> EXCEPT ![2] = b] = <<a, b>>
    <2>1. ASSUME NEW S, NEW f \in [1..2 -> S], f[2] = b
          PROVE  [f EXCEPT ![2] = b] = f
      BY <2>1
    <2>2. <<a, b>> \in [1..2 -> {a, b}]
      OBVIOUS
    <2> QED
      BY <2>1, <2>2, <1>1
  <1>4. ASSUME NEW x, NEW y PROVE SubSeq(<<x, y>>, 1, 1) = <<x>>
    <2>1. <<x, y>> \in Seq({x, y}) /\ Len(<<x, y>>) = 2 /\ <<x, y>>[1] = x
      OBVIOUS
    <2>2. ASSUME NEW q \in Seq({x, y}), Len(q) = 2
          PROVE  SubSeq(q, 1, 1) \in Seq({x, y}) /\ Len(SubSeq(q, 1, 1)) = 1 /\ SubSeq(q, 1, 1)[1] = q[1]
      <3>1. /\ SubSeq(q, 1, 1) \in Seq({x, y})
            /\ Len(SubSeq(q, 1, 1)) = IF 1 <= 1 THEN 1 - 1 + 1 ELSE 0
            /\ \A i \in 1..(1 - 1 + 1) : SubSeq(q, 1, 1)[i] = q[1 + i - 1]
        BY <2>2, SubSeqProperties
      <3> QED
        BY <3>1
    <2>3. ASSUME NEW q \in Seq({x, y}), Len(q) = 1, q[1] = x PROVE q = <<x>>
      BY <2>3
    <2> QED
      BY <2>1, <2>2, <2>3
  <1> QED
    BY <1>1, <1>2, <1>3, <1>4 DEF SwapRemove

LEMMA PairSwapped ==
    ASSUME NEW a, NEW b
    PROVE  /\ [<<a, b>> EXCEPT ![1] = <<a, b>>[Len(<<a, b>>)], ![Len(<<a, b>>)] = <<a, b>>[1]] = <<b, a>>
           /\ [<<a, b>> EXCEPT ![2] = <<a, b>>[Len(<<a, b>>)], ![Len(<<a, b>>)] = <<a, b>>[2]] = <<a, b>>
  OBVIOUS

\* The place of the writer.
LEMMA WriterPlace ==
    ASSUME items \in Lists, idx \in 1..3,
           AtWriter
    PROVE  \/ items = OtherFirst /\ idx = 2
           \/ items = WriterFirst /\ idx = 1
  BY ListFacts DEF Lists, AtWriter

\* A writer that ends leaves the other item.
LEMMA FinishFacts ==
    ASSUME items \in Lists, idx \in 1..3, AtWriter
    PROVE  SwapRemove(items, idx) = OtherOnly
  BY WriterPlace, PairRemoved DEF OtherFirst, WriterFirst, OtherOnly

\* A writer that waits for a drain goes to the end.
LEMMA BlockedFacts ==
    ASSUME items \in Lists, idx \in 1..3, AtWriter, drains \in Nat, NEW left, Blocked(left)
    PROVE  \/ pc' = "wait" /\ idx' = idx /\ items' = OtherFirst /\ drains' \in Nat
           \/ pc' = "item" /\ idx' = idx + 1 /\ items' = items /\ drains' = drains
  <1>1. [items EXCEPT ![idx] = items[Len(items)], ![Len(items)] = items[idx]] = OtherFirst
    BY WriterPlace, PairSwapped DEF OtherFirst, WriterFirst
  <1> QED
    BY <1>1 DEF Blocked

-----------------------------------------------------------------------------
(* The data *)

\* The bytes that are written leave the buffer, and no other.
LEMMA WritesFacts ==
    ASSUME DataOK, NEW result, NEW left \in 0..buffer, Writes(result, left)
    PROVE  /\ buffer' \in 0..MaxWrite /\ out' \in 0..MaxWrite /\ out' + buffer' = accepted
           /\ late' \in [bytes : 0..MaxWrite, error : BOOLEAN, close : BOOLEAN]
           /\ late'.bytes = 0 /\ late'.bytes <= buffer'
           /\ late'.error = late.error /\ late'.close = late.close
           /\ ready' \in BOOLEAN /\ ioTask' \in BOOLEAN
           /\ result = "empty" => buffer' = 0
           /\ result = "block" => ioTask'
           /\ result \in {"zero", "fail"} => "transport" \in Faults
  <1>1. /\ buffer \in Nat /\ left \in Nat /\ left <= buffer /\ out \in Nat /\ accepted \in Nat
        /\ accepted <= MaxWrite /\ MaxWrite \in Nat /\ out + buffer = accepted
        /\ ready \in BOOLEAN /\ ioTask \in BOOLEAN
        /\ late \in [bytes : 0..MaxWrite, error : BOOLEAN, close : BOOLEAN]
    BY WriterAssumption DEF DataOK
  <1>2. buffer' = left /\ out' = out + (buffer - left) /\ late' = [late EXCEPT !.bytes = 0]
    BY DEF Writes
  <1>3. buffer' \in 0..MaxWrite /\ out' \in 0..MaxWrite /\ out' + buffer' = accepted
    BY <1>1, <1>2
  <1>4. ready' \in BOOLEAN /\ ioTask' \in BOOLEAN /\ (result = "block" => ioTask')
    BY <1>1, Zenon DEF Writes
  <1>5. /\ late' \in [bytes : 0..MaxWrite, error : BOOLEAN, close : BOOLEAN]
        /\ late'.bytes = 0 /\ late'.bytes <= buffer'
        /\ late'.error = late.error /\ late'.close = late.close
    BY <1>1, <1>2
  <1>6. /\ result = "empty" => buffer' = 0
        /\ result \in {"zero", "fail"} => "transport" \in Faults
    BY <1>1 DEF Writes
  <1> QED
    BY <1>3, <1>4, <1>5, <1>6

\* A callback adds bytes, an error or the wish to close, all of them late.
LEMMA UseFacts ==
    ASSUME DataOK, Use
    PROVE  /\ buffer' \in 0..MaxWrite /\ accepted' \in 0..MaxWrite /\ out + buffer' = accepted'
           /\ late' \in [bytes : 0..MaxWrite, error : BOOLEAN, close : BOOLEAN]
           /\ late'.bytes <= buffer'
           /\ buffer = late.bytes => buffer' = late'.bytes
           /\ error' \in BOOLEAN /\ closing' \in BOOLEAN /\ closed' = closed /\ marks' \in Marks
           /\ (error => late.error) => (error' => late'.error)
           /\ (closing => late.close) => (closing' => late'.close)
           /\ "encode" \notin Faults => error' = error
  <1>1. /\ buffer \in Nat /\ out \in Nat /\ accepted \in Nat /\ accepted <= MaxWrite /\ MaxWrite \in Nat
        /\ out + buffer = accepted /\ late.bytes \in Nat /\ late.bytes <= buffer
        /\ late.error \in BOOLEAN /\ late.close \in BOOLEAN
        /\ error \in BOOLEAN /\ closing \in BOOLEAN
    BY WriterAssumption DEF DataOK
  <1>2. PICK n \in 0..(MaxWrite - accepted), fails \in BOOLEAN, closes \in BOOLEAN :
          /\ fails => "encode" \in Faults
          /\ buffer' = buffer + n /\ accepted' = accepted + n
          /\ error' = (error \/ fails) /\ closing' = (closing \/ closes) /\ UNCHANGED closed
          /\ marks' \in Marks
          /\ late' = [bytes |-> late.bytes + n, error |-> late.error \/ fails, close |-> late.close \/ closes]
    BY Zenon DEF Use
  <1>3. fails \in BOOLEAN /\ ("encode" \notin Faults => ~fails)
    BY <1>2
  <1>4. /\ buffer' \in 0..MaxWrite /\ accepted' \in 0..MaxWrite /\ out + buffer' = accepted'
        /\ late.bytes + n \in 0..MaxWrite /\ late.bytes + n <= buffer'
        /\ buffer = late.bytes => buffer' = late.bytes + n
    BY <1>1, <1>2
  <1>5. late'.bytes = late.bytes + n /\ late'.error = (late.error \/ fails) /\ late'.close = (late.close \/ closes)
    BY <1>2, Zenon
  <1>6. late' \in [bytes : 0..MaxWrite, error : BOOLEAN, close : BOOLEAN]
    BY <1>1, <1>2, <1>3, <1>4
  <1>7. /\ (error => late.error) => (error' => late'.error)
        /\ (closing => late.close) => (closing' => late'.close)
        /\ error' \in BOOLEAN /\ closing' \in BOOLEAN
    BY <1>1, <1>2, <1>3, <1>5, Zenon
  <1>8. "encode" \notin Faults => error' = error
    BY <1>1, <1>2, <1>3
  <1> QED
    BY <1>2, <1>4, <1>5, <1>6, <1>7, <1>8

LEMMA DataInit == Init => DataOK
  <1> SUFFICES ASSUME Init PROVE DataOK
    OBVIOUS
  <1>1. /\ buffer \in 0..MaxWrite /\ accepted = buffer /\ out = 0 /\ marks \in Marks
        /\ late = [bytes |-> buffer, error |-> FALSE, close |-> FALSE]
        /\ mail = 0 /\ events = 0 /\ arrived = 0 /\ MaxEvent \in Nat /\ MaxWrite \in Nat
    BY WriterAssumption DEF Init
  <1>2. /\ error \in BOOLEAN /\ closing \in BOOLEAN /\ closed \in BOOLEAN
        /\ ready \in BOOLEAN /\ ioTask \in BOOLEAN /\ notified \in BOOLEAN
    BY Zenon DEF Init
  <1> QED
    BY <1>1, <1>2 DEF DataOK

\* The parts of the data that a step of the callbacks or of WriterFut leaves alone.
QueuesOK ==
    /\ mail \in 0..MaxEvent /\ events \in 0..MaxEvent /\ arrived \in 0..MaxEvent
    /\ mail + events <= arrived

LEMMA QueuesStep ==
    ASSUME DataOK, [Next]_vars
    PROVE  QueuesOK' /\ notified' \in BOOLEAN
  <1>1. CASE Arrive
    BY <1>1, WriterAssumption DEF Arrive, DataOK, QueuesOK
  <1>2. CASE HandleMail
    BY <1>2, WriterAssumption DEF HandleMail, DataOK, QueuesOK
  <1>3. CASE PollOther
    <2>1. /\ (events > 0 /\ events' = events - 1) \/ events' = events
          /\ UNCHANGED <<mail, arrived, notified>>
      BY <1>3 DEF PollOther
    <2> QED
      BY <2>1, WriterAssumption DEF DataOK, QueuesOK
  <1>4. CASE Writable \/ StartPoll
    BY <1>4 DEF Writable, StartPoll, env, DataOK, QueuesOK
  <1>5. CASE UNCHANGED <<env, notified>>
    BY <1>5 DEF env, DataOK, QueuesOK
  <1> QED
    BY <1>1, <1>2, <1>3, <1>4, <1>5 DEF Next, Poll, vars, PollDrain, WaitDone, MailDone, ItemsDone,
       TakeError, ErrorAction, WriteBuffer, Flush, Close, Finish

LEMMA DataStep == DataOK /\ [Next]_vars => DataOK'
  <1> SUFFICES ASSUME DataOK, [Next]_vars PROVE DataOK'
    OBVIOUS
  <1>1. QueuesOK' /\ notified' \in BOOLEAN
    BY QueuesStep
  <1>2. CASE Use /\ UNCHANGED <<io, out>>
    BY <1>1, <1>2, UseFacts DEF DataOK, QueuesOK, io
  <1>3. CASE /\ error' \in BOOLEAN /\ UNCHANGED <<closing, closed, marks, accepted>>
             /\ \E result \in {"empty", "block", "zero", "fail"}, left \in 0..buffer : Writes(result, left)
    BY <1>1, <1>3, WritesFacts DEF DataOK, QueuesOK
  <1>4. CASE UNCHANGED <<inner, io, accepted, out, late>>
    BY <1>1, <1>4 DEF DataOK, QueuesOK, inner, io
  <1>5. CASE TakeError
    BY <1>1, <1>5 DEF TakeError, DataOK, QueuesOK, io
  <1>6. CASE Close
    <2>1. closed' \in BOOLEAN
      BY <1>6, Zenon DEF Close, DataOK
    <2>2. /\ UNCHANGED <<buffer, error, closing, marks, ready, ioTask, accepted, out>>
          /\ late' = [late EXCEPT !.close = FALSE]
      BY <1>6 DEF Close, io
    <2> QED
      BY <1>1, <2>1, <2>2 DEF DataOK, QueuesOK
  <1>7. CASE Flush \/ Writable
    <2>1. ready' \in BOOLEAN /\ ioTask' \in BOOLEAN /\ UNCHANGED <<inner, accepted, out, late>>
      BY <1>7, Zenon DEF Flush, Writable, DataOK
    <2> QED
      BY <1>1, <2>1 DEF DataOK, QueuesOK, inner
  <1>8. CASE PollDrain
    <2>1. CASE UNCHANGED <<inner, io, out, late>>
      BY <1>4, <1>8, <2>1 DEF PollDrain
    <2>2. ASSUME NEW result \in {"empty", "block", "zero", "fail"}, NEW left \in 0..buffer,
                 Writes(result, left), error' = (result \in {"zero", "fail"})
          PROVE  error' \in BOOLEAN
      BY <2>2
    <2> QED
      BY <1>3, <1>8, <2>1, <2>2 DEF PollDrain
  <1>9. CASE WriteBuffer
    BY <1>3, <1>9 DEF WriteBuffer, DataOK
  <1>10. CASE PollOther
    BY <1>2, <1>4, <1>10 DEF PollOther
  <1>11. CASE HandleMail \/ ErrorAction \/ Finish
    BY <1>2, <1>11 DEF HandleMail, ErrorAction, Finish
  <1>12. CASE Arrive \/ StartPoll \/ WaitDone \/ MailDone \/ ItemsDone \/ UNCHANGED vars
    BY <1>4, <1>12 DEF Arrive, StartPoll, WaitDone, MailDone, ItemsDone, vars
  <1> QED
    BY <1>5, <1>6, <1>7, <1>8, <1>9, <1>10, <1>11, <1>12 DEF Next, Poll

-----------------------------------------------------------------------------
(* The loop *)

LEMMA LoopInit == Init => LoopOK
  BY WriterAssumption DEF Init, LoopOK, Lists, OtherFirst, WriterFirst, InWriter

\* The ways in which a step of WriterFut::poll can go on.
Ends == items' = OtherOnly /\ pc' \in {"item", "ended"} /\ idx' = idx /\ drains' = drains
GoesOn == items' = items /\ InWriter' /\ idx' = idx /\ drains' = drains
Returns == items' = items /\ pc' = "item" /\ idx' = idx + 1 /\ drains' = drains
Waits == items' = OtherFirst /\ pc' = "wait" /\ idx' = idx /\ drains' \in Nat

LEMMA WriterGoes ==
    ASSUME LoopOK, AtWriter, Ends \/ GoesOn \/ Returns \/ Waits
    PROVE  LoopOK'
  <1>1. items \in Lists /\ idx \in 1..3 /\ drains \in Nat
    BY DEF LoopOK
  <1>2. (items = OtherFirst /\ idx = 2) \/ (items = WriterFirst /\ idx = 1)
    BY <1>1, WriterPlace
  <1>3. CASE Ends
    <2>1. idx' <= Len(items') + 1 /\ idx' \in 1..3
      BY <1>2, <1>3, ListFacts DEF Ends
    <2> QED
      BY <1>1, <1>3, <2>1 DEF Ends, LoopOK, InWriter, Lists
  <1>4. CASE GoesOn
    <2>1. AtWriter' /\ pc' # "item"
      BY <1>4 DEF GoesOn, AtWriter, InWriter
    <2> QED
      BY <1>1, <1>4, <2>1 DEF GoesOn, LoopOK
  <1>5. CASE Returns
    <2>1. idx' <= Len(items') + 1 /\ idx' \in 1..3
      BY <1>2, <1>5, ListFacts DEF Returns
    <2> QED
      BY <1>1, <1>5, <2>1 DEF Returns, LoopOK, InWriter
  <1>6. CASE Waits
    BY <1>1, <1>6 DEF Waits, LoopOK, InWriter, Lists
  <1> QED
    BY <1>3, <1>4, <1>5, <1>6

\* What each step of WriterFut::poll does.
LEMMA TakeErrorGoes ==
    ASSUME LoopOK, TakeError
    PROVE  AtWriter /\ GoesOn /\ pc' = (IF error THEN "taken" ELSE "write")
  BY DEF TakeError, At, AtWriter, GoesOn, InWriter

LEMMA ErrorGoes ==
    ASSUME LoopOK, ErrorAction
    PROVE  AtWriter /\ GoesOn /\ pc' \in {"finished", "write", "close"} /\ (pc' = "close" => pc = "unflushed")
  BY DEF ErrorAction, LoopOK, GoesOn, InWriter

LEMMA WriteGoes ==
    ASSUME LoopOK, DataOK, WriteBuffer
    PROVE  /\ AtWriter
           /\ \/ GoesOn /\ pc' = "flush" /\ buffer' = 0 /\ late'.bytes = 0
              \/ GoesOn /\ pc' = "failed" /\ "transport" \in Faults
              \/ (Returns \/ Waits) /\ ioTask'
  <1>1. AtWriter /\ items \in Lists /\ idx \in 1..3 /\ drains \in Nat
    BY DEF WriteBuffer, LoopOK, InWriter
  <1>2. PICK result \in {"empty", "block", "zero", "fail"}, left \in 0..buffer :
          /\ Writes(result, left)
          /\ CASE result = "empty" -> pc' = "flush" /\ UNCHANGED <<idx, items, drains>>
               [] result = "block" -> Blocked(left)
               [] OTHER -> pc' = "failed" /\ UNCHANGED <<idx, items, drains>>
    BY Zenon DEF WriteBuffer
  <1>3. CASE result = "empty"
    <2>1. pc' = "flush" /\ UNCHANGED <<idx, items, drains>>
      BY <1>2, <1>3
    <2> QED
      BY <1>1, <1>2, <1>3, <2>1, WritesFacts DEF GoesOn, InWriter
  <1>4. CASE result = "block"
    <2>1. Blocked(left)
      BY <1>2, <1>4
    <2>2. Returns \/ Waits
      BY <1>1, <2>1, BlockedFacts DEF Returns, Waits
    <2> QED
      BY <1>1, <1>2, <1>4, <2>2, WritesFacts
  <1>5. CASE result \in {"zero", "fail"}
    <2>1. pc' = "failed" /\ UNCHANGED <<idx, items, drains>>
      BY <1>2, <1>5
    <2> QED
      BY <1>1, <1>2, <1>5, <2>1, WritesFacts DEF GoesOn, InWriter
  <1> QED
    BY <1>3, <1>4, <1>5

LEMMA FlushGoes ==
    ASSUME LoopOK, Flush
    PROVE  /\ AtWriter
           /\ \/ GoesOn /\ pc' = "close"
              \/ GoesOn /\ pc' = "unflushed" /\ "transport" \in Faults
              \/ Returns /\ ioTask'
  BY DEF Flush, LoopOK, GoesOn, Returns, InWriter

LEMMA CloseGoes ==
    ASSUME LoopOK, Close
    PROVE  /\ AtWriter
           /\ \/ GoesOn /\ pc' = "finished"
              \/ Returns /\ ~closing
  BY DEF Close, LoopOK, GoesOn, Returns, InWriter

LEMMA FinishGoes ==
    ASSUME LoopOK, Finish
    PROVE  AtWriter /\ Ends
  <1>1. AtWriter /\ items \in Lists /\ idx \in 1..3
    BY DEF Finish, LoopOK, InWriter
  <1> QED
    BY <1>1, FinishFacts DEF Finish, Ends

LEMMA LoopStep == ASSUME LoopOK, DataOK, [Next]_vars PROVE LoopOK'
  <1>1. CASE TakeError \/ ErrorAction \/ WriteBuffer \/ Flush \/ Close \/ Finish
    BY <1>1, WriterGoes, TakeErrorGoes, ErrorGoes, WriteGoes, FlushGoes, CloseGoes, FinishGoes
  <1>2. CASE UNCHANGED loop
    BY <1>2 DEF loop, LoopOK, InWriter, AtWriter
  <1>3. CASE PollDrain
    <2>1. /\ pc = "wait" /\ pc' \in {"wait", "idle"} /\ drains > 0 /\ drains' \in {drains, drains - 1}
          /\ UNCHANGED <<idx, items>>
      BY <1>3 DEF PollDrain
    <2> QED
      BY <2>1 DEF LoopOK, InWriter
  <1>4. CASE StartPoll \/ WaitDone \/ ItemsDone
    BY <1>4 DEF StartPoll, WaitDone, ItemsDone, LoopOK, InWriter
  <1>5. CASE MailDone
    <2>1. Len(items) \in Nat
      BY ListLength DEF LoopOK
    <2> QED
      BY <1>5, <2>1 DEF MailDone, LoopOK, InWriter
  <1>6. CASE PollOther
    <2>1. /\ pc = "item" /\ UNCHANGED <<pc, items, drains>> /\ idx' \in {idx, idx + 1}
          /\ idx <= Len(items) /\ idx \in 1..3 /\ items \in Lists
      BY <1>6 DEF PollOther, At, LoopOK
    <2>2. Len(items) \in Nat /\ Len(items) <= 2
      BY <2>1, ListLength
    <2>3. idx' \in 1..3 /\ idx' <= Len(items) + 1
      BY <2>1, <2>2
    <2> QED
      BY <2>1, <2>3 DEF LoopOK, InWriter
  <1> QED
    BY <1>1, <1>2, <1>3, <1>4, <1>5, <1>6 DEF Next, Poll, Arrive, Writable, HandleMail, vars

-----------------------------------------------------------------------------
(* Written, and what is out when the sink closes *)

LEMMA WrittenStep == ASSUME WriterInv, [Next]_vars PROVE Written'
  <1>1. CASE ErrorAction
    <2>1. pc' = "close" => pc = "unflushed"
      BY <1>1, ErrorGoes DEF WriterInv
    <2>2. pc = "unflushed" => buffer = late.bytes
      BY DEF WriterInv, Written
    <2>3. buffer = late.bytes => buffer' = late'.bytes
      BY <1>1, UseFacts DEF ErrorAction, WriterInv
    <2>4. pc' \notin {"flush", "unflushed"}
      BY <1>1, ErrorGoes DEF WriterInv
    <2> QED
      BY <2>1, <2>2, <2>3, <2>4 DEF Written
  <1>2. CASE WriteBuffer
    BY <1>2, WriteGoes DEF WriterInv, Written, Returns, Waits
  <1>3. CASE Flush
    BY <1>3 DEF Flush, WriterInv, Written, inner
  <1>4. CASE UNCHANGED <<pc, buffer, late>>
    BY <1>4 DEF WriterInv, Written
  <1>5. CASE pc' \notin {"flush", "unflushed", "close"}
    BY <1>5 DEF Written
  <1>6. CASE Arrive \/ Writable \/ UNCHANGED vars
    BY <1>4, <1>6 DEF Arrive, Writable, vars, loop, inner
  <1>7. CASE \/ StartPoll \/ PollDrain \/ WaitDone \/ HandleMail \/ MailDone \/ PollOther \/ ItemsDone
             \/ TakeError \/ Close \/ Finish
    BY <1>5, <1>7 DEF StartPoll, PollDrain, WaitDone, HandleMail, MailDone, PollOther, ItemsDone, At,
       TakeError, Close, Finish, loop
  <1> QED
    BY <1>1, <1>2, <1>3, <1>6, <1>7 DEF Next, Poll

LEMMA WriterInit == Init => WriterInv
  BY LoopInit, DataInit DEF Init, WriterInv, Written

LEMMA WriterStep == WriterInv /\ [Next]_vars => WriterInv'
  BY LoopStep, DataStep, WrittenStep DEF WriterInv

LEMMA WriterInvType == WriterInv => TypeOK
  <1> SUFFICES ASSUME WriterInv PROVE TypeOK
    OBVIOUS
  <1>1. items \in Seq({"writer", "other"})
    BY ListFacts DEF WriterInv, LoopOK
  <1>2. {error, closing, closed, ready, ioTask, notified} \subseteq BOOLEAN
    BY Zenon DEF WriterInv, DataOK
  <1> QED
    BY <1>1, <1>2 DEF WriterInv, LoopOK, DataOK, TypeOK

\* The writer, its buffer and the loop around it keep their types, and the
\* counters stay within their bounds.
THEOREM TypeCorrect == Spec => []TypeOK
  BY WriterInit, WriterStep, WriterInvType, PTL DEF Spec

\* Only the test for CLOSING closes.
LEMMA OnlyCloses == ASSUME WriterInv, [Next]_vars, ~Close PROVE closed' = closed
  <1>1. CASE Use
    BY <1>1, UseFacts DEF WriterInv
  <1>2. CASE UNCHANGED closed
    BY <1>2
  <1> QED
    BY <1>1, <1>2 DEF Next, Poll, Arrive, Writable, StartPoll, WaitDone, MailDone, ItemsDone, HandleMail,
       PollOther, PollDrain, TakeError, ErrorAction, WriteBuffer, Flush, Finish, vars, inner

LEMMA ClosesGracefully ==
    ASSUME WriterInv, [Next]_vars, closed' /\ ~closed
    PROVE  out' = accepted' - late'.bytes
  <1>1. Close
    BY OnlyCloses
  <1>2. /\ buffer = late.bytes /\ out + buffer = accepted
        /\ buffer \in Nat /\ out \in Nat /\ accepted \in Nat
    BY <1>1 DEF Close, WriterInv, Written, DataOK
  <1>3. late' = [late EXCEPT !.close = FALSE] /\ UNCHANGED <<out, accepted>>
    BY <1>1 DEF Close
  <1>4. late'.bytes = late.bytes
    BY <1>3 DEF WriterInv, DataOK
  <1> QED
    BY <1>2, <1>3, <1>4

\* "Gracefully close sink" (Writer::close): wherever the writer stands, however
\* often encoder and transport fail and whatever the callbacks do with the
\* writer, CLOSED is set only when the transport has every byte but those that
\* error() wrote in answer to the failed flush of the same poll.
THEOREM ClosesOnlyWhenDrained == Spec => GracefulClose
  <1>1. WriterInv /\ [Next]_vars => [closed' /\ ~closed => out' = accepted' - late'.bytes]_vars
    BY ClosesGracefully
  <1> QED
    BY <1>1, WriterInit, WriterStep, PTL DEF Spec, GracefulClose

-----------------------------------------------------------------------------
(* What is left when the context rests *)

ErrorSeen == error => late.error
CloseSeen == closing => late.close
Seen == buffer = late.bytes /\ ErrorSeen /\ CloseSeen

\* The item loop is past the writer.
Passed == \/ items = WriterFirst /\ idx # 1
          \/ items = OtherFirst /\ idx = 3

\* After WriterFut took the error a new one is late, and what it leaves behind
\* without registering with the transport is late, until the context rests.
SeenInv ==
    /\ InWriter => ErrorSeen
    /\ pc = "item" /\ Passed /\ ~ioTask => Seen
    /\ pc = "idle" /\ items # OtherOnly /\ ~notified /\ ~ioTask => Seen

LEMMA SeenUse == ASSUME DataOK, Use PROVE (ErrorSeen => ErrorSeen') /\ (Seen => Seen')
  BY UseFacts DEF Seen, ErrorSeen, CloseSeen

LEMMA SeenSame ==
    ASSUME UNCHANGED <<buffer, error, closing, late>>
    PROVE  ErrorSeen' = ErrorSeen /\ Seen' = Seen
  BY DEF Seen, ErrorSeen, CloseSeen

LEMMA SeenInit == Init => SeenInv
  BY DEF Init, SeenInv, InWriter

\* A step of the loop that leaves the data alone.
LEMMA SeenQuiet ==
    ASSUME WriterInv, SeenInv, Arrive \/ Writable \/ StartPoll \/ WaitDone \/ MailDone \/ ItemsDone \/ UNCHANGED vars
    PROVE  SeenInv'
  <1>1. items' = items /\ UNCHANGED <<buffer, error, closing, late>>
    BY DEF Arrive, Writable, StartPoll, WaitDone, MailDone, ItemsDone, inner, loop, vars
  <1>2. ErrorSeen' = ErrorSeen /\ Seen' = Seen
    BY <1>1, SeenSame
  <1>3. CASE Arrive \/ Writable \/ UNCHANGED vars
    BY <1>1, <1>2, <1>3 DEF Arrive, Writable, vars, loop, io, SeenInv, Passed, InWriter
  <1>4. CASE StartPoll \/ WaitDone
    BY <1>4 DEF StartPoll, WaitDone, SeenInv, InWriter
  <1>5. CASE MailDone
    BY <1>1, <1>5 DEF MailDone, SeenInv, Passed, InWriter
  <1>6. CASE ItemsDone
    <2>1. items # OtherOnly => Passed
      <3>1. items \in Lists /\ idx \in 1..3 /\ idx > Len(items)
        BY <1>6 DEF ItemsDone, WriterInv, LoopOK
      <3> QED
        BY <3>1, ListFacts DEF Lists, Passed
    <2> QED
      BY <1>1, <1>2, <1>6, <2>1 DEF ItemsDone, SeenInv, InWriter, io
  <1> QED
    BY <1>3, <1>4, <1>5, <1>6

\* Callbacks of the mailbox and of the other item.
LEMMA SeenCallback ==
    ASSUME WriterInv, SeenInv, HandleMail \/ PollOther
    PROVE  SeenInv'
  <1>1. CASE HandleMail
    BY <1>1 DEF HandleMail, loop, SeenInv, InWriter
  <1>2. CASE PollOther
    <2>1. /\ pc = "item" /\ pc' = "item" /\ items' = items /\ ioTask' = ioTask
          /\ idx <= Len(items) /\ items[idx] = "other"
      BY <1>2 DEF PollOther, At, io
    <2>2. Passed' => Passed
      <3>1. items \in Lists /\ idx \in 1..3 /\ idx' \in {idx, idx + 1}
        BY <1>2 DEF PollOther, WriterInv, LoopOK
      <3>2. items = WriterFirst => idx # 1
        BY <2>1, ListFacts
      <3>3. items = OtherFirst => idx # 2 /\ idx <= 2
        BY <2>1, ListFacts
      <3> QED
        BY <2>1, <3>1, <3>2, <3>3 DEF Passed
    <2>3. Seen => Seen'
      <3>1. CASE Use
        BY <3>1, SeenUse DEF WriterInv
      <3>2. CASE UNCHANGED <<inner, late>>
        BY <3>2, SeenSame DEF inner
      <3> QED
        BY <1>2, <3>1, <3>2 DEF PollOther
    <2> QED
      BY <2>1, <2>2, <2>3 DEF SeenInv, InWriter
  <1> QED
    BY <1>1, <1>2

\* A drain that holds the actor back has registered with the transport.
LEMMA DrainRests ==
    ASSUME WriterInv, PollDrain
    PROVE  pc' \in {"wait", "idle"} /\ items' = items /\ (pc' = "idle" => ioTask')
  <1>1. pc = "wait" /\ items' = items /\ pc' \in {"wait", "idle"}
    BY DEF PollDrain
  <1>2. ASSUME NEW result, NEW left \in 0..buffer, Writes(result, left),
               IF DrainReady(result, left) THEN drains' = drains - 1 /\ UNCHANGED pc
                                           ELSE pc' = "idle" /\ UNCHANGED drains,
               pc' = "idle"
        PROVE  ioTask'
    <2>1. result = "block"
      BY <1>1, <1>2 DEF DrainReady
    <2> QED
      BY <1>2, <2>1, WritesFacts DEF WriterInv
  <1>3. pc' = "idle" => ioTask'
    BY <1>1, <1>2, Zenon DEF PollDrain
  <1> QED
    BY <1>1, <1>3

\* WriterFut::poll.
LEMMA SeenPoll ==
    ASSUME WriterInv, AtWriter,
           \/ Ends
           \/ GoesOn /\ ErrorSeen'
           \/ (Returns \/ Waits) /\ (ioTask' \/ Seen')
    PROVE  SeenInv'
  <1>1. OtherOnly # WriterFirst /\ OtherOnly # OtherFirst
    BY DEF OtherOnly, WriterFirst, OtherFirst
  <1> QED
    BY <1>1 DEF Ends, GoesOn, Returns, Waits, SeenInv, Passed, InWriter

LEMMA SeenStep == ASSUME WriterInv, SeenInv, [Next]_vars PROVE SeenInv'
  <1>1. CASE PollDrain
    BY <1>1, DrainRests DEF SeenInv, InWriter
  <1>2. CASE TakeError
    <2>1. AtWriter /\ GoesOn /\ ErrorSeen'
      BY <1>2, TakeErrorGoes DEF WriterInv, TakeError, ErrorSeen
    <2> QED
      BY <2>1, SeenPoll
  <1>3. CASE ErrorAction
    <2>1. AtWriter /\ GoesOn /\ ErrorSeen'
      BY <1>3, ErrorGoes, SeenUse DEF WriterInv, SeenInv, ErrorAction, InWriter
    <2> QED
      BY <2>1, SeenPoll
  <1>4. CASE WriteBuffer
    <2>1. ErrorSeen'
      <3>1. ErrorSeen /\ error' = error
        BY <1>4 DEF WriteBuffer, SeenInv, InWriter
      <3>2. late'.error = late.error
        BY <1>4, WritesFacts DEF WriteBuffer, WriterInv
      <3> QED
        BY <3>1, <3>2 DEF ErrorSeen
    <2>2. AtWriter /\ (GoesOn \/ ((Returns \/ Waits) /\ ioTask'))
      BY <1>4, WriteGoes DEF WriterInv
    <2> QED
      BY <2>1, <2>2, SeenPoll
  <1>5. CASE Flush
    <2>1. ErrorSeen'
      BY <1>5, SeenSame DEF Flush, SeenInv, InWriter, inner
    <2>2. AtWriter /\ (GoesOn \/ (Returns /\ ioTask'))
      BY <1>5, FlushGoes DEF WriterInv
    <2> QED
      BY <2>1, <2>2, SeenPoll
  <1>6. CASE Close
    <2>1. ErrorSeen /\ buffer = late.bytes
      BY <1>6 DEF Close, SeenInv, InWriter, WriterInv, Written
    <2>2. late' = [late EXCEPT !.close = FALSE] /\ UNCHANGED <<buffer, error, closing>>
      BY <1>6 DEF Close
    <2>3. late'.bytes = late.bytes /\ late'.error = late.error
      BY <2>2 DEF WriterInv, DataOK
    <2>4. ErrorSeen' /\ (~closing => Seen')
      BY <2>1, <2>2, <2>3 DEF Seen, ErrorSeen, CloseSeen
    <2>5. AtWriter /\ (GoesOn \/ (Returns /\ ~closing))
      BY <1>6, CloseGoes DEF WriterInv
    <2> QED
      BY <2>4, <2>5, SeenPoll
  <1>7. CASE Finish
    <2>1. AtWriter /\ Ends
      BY <1>7, FinishGoes DEF WriterInv
    <2> QED
      BY <2>1, SeenPoll
  <1> QED
    BY <1>1, <1>2, <1>3, <1>4, <1>5, <1>6, <1>7, SeenQuiet, SeenCallback DEF Next, Poll

LEMMA HasWriter == ASSUME Has("writer") PROVE items # OtherOnly
  <1>1. ASSUME NEW i \in DOMAIN OtherOnly PROVE OtherOnly[i] # "writer"
    BY DEF OtherOnly
  <1> QED
    BY <1>1 DEF Has

\* Wherever the writer stands, whatever fails and whatever the callbacks do
\* with the writer: a context that rests and is neither notified nor registered
\* with the transport has sent, reported and closed all that the actor asked for
\* before WriterFut looked at it last, although write() and close() wake nobody.
THEOREM NothingIsForgotten == Spec => []NothingForgotten
  <1>1. Init => WriterInv /\ SeenInv
    BY WriterInit, SeenInit
  <1>2. (WriterInv /\ SeenInv) /\ [Next]_vars => (WriterInv /\ SeenInv)'
    BY WriterStep, SeenStep
  <1>3. WriterInv /\ SeenInv => NothingForgotten
    BY HasWriter DEF SeenInv, Seen, ErrorSeen, CloseSeen, NothingForgotten, Live
  <1> QED
    BY <1>1, <1>2, <1>3, PTL DEF Spec

-----------------------------------------------------------------------------
(* When the transport does not fail *)

Reliable == "transport" \notin Faults

\* No flush fails, so nothing is late when the writer looks at CLOSING.
FlushedInv == pc # "unflushed" /\ (pc \in {"flush", "close"} => buffer = 0)

LEMMA FlushedStep == ASSUME Reliable, WriterInv, FlushedInv, [Next]_vars PROVE FlushedInv'
  <1>1. CASE WriteBuffer
    BY <1>1, WriteGoes DEF Reliable, WriterInv, FlushedInv, Returns, Waits
  <1>2. CASE Flush
    <2>1. pc' \in {"close", "item"} /\ UNCHANGED buffer /\ pc = "flush"
      BY <1>2 DEF Flush, Reliable, inner
    <2> QED
      BY <2>1 DEF FlushedInv
  <1>3. CASE ErrorAction
    <2>1. pc' \in {"finished", "write"}
      BY <1>3, ErrorGoes DEF WriterInv, FlushedInv
    <2> QED
      BY <2>1 DEF FlushedInv
  <1>4. CASE Arrive \/ Writable \/ UNCHANGED vars
    BY <1>4 DEF Arrive, Writable, vars, loop, inner, FlushedInv
  <1>5. CASE \/ StartPoll \/ PollDrain \/ WaitDone \/ HandleMail \/ MailDone \/ PollOther \/ ItemsDone
             \/ TakeError \/ Close \/ Finish
    BY <1>5 DEF StartPoll, PollDrain, WaitDone, HandleMail, MailDone, PollOther, ItemsDone, At,
       TakeError, Close, Finish, loop, FlushedInv
  <1> QED
    BY <1>1, <1>2, <1>3, <1>4, <1>5 DEF Next, Poll

\* "Gracefully close sink" as it stands, for a transport that does not fail:
\* WriterFut sets CLOSED only when the transport has every byte written.
THEOREM ClosesWithEverything == ASSUME Reliable PROVE Spec => AllSentAtClose
  <1>1. Init => WriterInv /\ FlushedInv
    BY WriterInit DEF Init, FlushedInv
  <1>2. (WriterInv /\ FlushedInv) /\ [Next]_vars => (WriterInv /\ FlushedInv)'
    BY WriterStep, FlushedStep
  <1>3. ASSUME WriterInv, FlushedInv, [Next]_vars, closed' /\ ~closed
        PROVE  out' = accepted'
    <2>1. Close
      BY <1>3, OnlyCloses
    <2> QED
      BY <1>3, <2>1 DEF Close, FlushedInv, WriterInv, DataOK
  <1>4. (WriterInv /\ FlushedInv) /\ [Next]_vars => [closed' /\ ~closed => out' = accepted']_vars
    BY <1>3
  <1> QED
    BY <1>1, <1>2, <1>4, PTL DEF Spec, AllSentAtClose

-----------------------------------------------------------------------------
(* When nothing fails and whatever else the actor has comes before the writer *)

WriterIsLast == Orders = {OtherFirst}
NothingFails == Faults = {}

Owes == buffer > 0 \/ error \/ closing

LastInv ==
    /\ items # WriterFirst /\ ~error
    /\ pc \in {"flush", "close"} => buffer = 0
    /\ pc \notin {"taken", "failed", "unflushed"}
    /\ pc = "item" /\ Passed /\ Owes => ioTask
    /\ pc = "idle" /\ items # OtherOnly /\ Owes => notified \/ ioTask

LEMMA LastInit == ASSUME WriterIsLast, Init PROVE LastInv
  BY ListFacts DEF WriterIsLast, Init, LastInv

\* Nothing can set the error.
LEMMA NoError == ASSUME NothingFails, WriterInv, LastInv, [Next]_vars PROVE ~error'
  <1>1. CASE Use
    BY <1>1, UseFacts DEF NothingFails, WriterInv, LastInv
  <1>2. CASE UNCHANGED error
    BY <1>2 DEF LastInv
  <1>3. CASE PollDrain
    <2>1. ASSUME NEW result, NEW left \in 0..buffer, Writes(result, left), error' = (result \in {"zero", "fail"})
          PROVE  ~error'
      BY <2>1, WritesFacts DEF NothingFails, WriterInv
    <2> QED
      BY <1>2, <1>3, <2>1, Zenon DEF PollDrain, inner
  <1>4. CASE TakeError
    BY <1>4 DEF TakeError
  <1> QED
    BY <1>1, <1>2, <1>3, <1>4 DEF Next, Poll, Arrive, Writable, StartPoll, WaitDone, MailDone, ItemsDone,
       HandleMail, PollOther, ErrorAction, WriteBuffer, Flush, Close, Finish, vars, inner

LEMMA LastQuiet ==
    ASSUME WriterInv, LastInv, ~error',
           Arrive \/ Writable \/ StartPoll \/ WaitDone \/ MailDone \/ ItemsDone \/ UNCHANGED vars
    PROVE  LastInv'
  <1>1. items' = items /\ UNCHANGED <<buffer, error, closing>>
    BY DEF Arrive, Writable, StartPoll, WaitDone, MailDone, ItemsDone, inner, loop, vars
  <1>2. Owes' = Owes
    BY <1>1 DEF Owes
  <1>3. CASE Arrive \/ Writable \/ UNCHANGED vars
    BY <1>1, <1>2, <1>3 DEF Arrive, Writable, vars, loop, io, LastInv, Passed
  <1>4. CASE StartPoll \/ WaitDone
    BY <1>1, <1>4 DEF StartPoll, WaitDone, LastInv
  <1>5. CASE MailDone
    BY <1>1, <1>5 DEF MailDone, LastInv, Passed
  <1>6. CASE ItemsDone
    <2>1. items # OtherOnly => Passed
      <3>1. items \in Lists /\ idx \in 1..3 /\ idx > Len(items)
        BY <1>6 DEF ItemsDone, WriterInv, LoopOK
      <3> QED
        BY <3>1, ListFacts DEF Lists, Passed
    <2> QED
      BY <1>1, <1>2, <1>6, <2>1 DEF ItemsDone, LastInv, io
  <1> QED
    BY <1>3, <1>4, <1>5, <1>6

\* A callback runs before the writer's turn.
LEMMA LastCallback == ASSUME WriterInv, LastInv, ~error', HandleMail \/ PollOther PROVE LastInv'
  <1>1. /\ pc \in {"mail", "item"} /\ pc' = pc /\ items' = items /\ items \in Lists /\ idx \in 1..3
        /\ pc = "item" => idx <= Len(items) /\ items[idx] = "other" /\ idx' \in {idx, idx + 1}
    BY DEF HandleMail, PollOther, At, loop, WriterInv, LoopOK
  <1>2. items = OtherFirst /\ pc = "item" => idx # 2 /\ idx <= 2
    BY <1>1, ListFacts
  <1>3. pc = "item" => ~Passed'
    BY <1>1, <1>2 DEF Passed, LastInv
  <1> QED
    BY <1>1, <1>3 DEF LastInv

LEMMA LastPoll ==
    ASSUME WriterInv, LastInv, AtWriter, ~error',
           \/ Ends
           \/ GoesOn /\ pc' \in {"write", "finished"}
           \/ GoesOn /\ pc' \in {"flush", "close"} /\ buffer' = 0
           \/ (Returns \/ Waits) /\ (ioTask' \/ ~Owes')
    PROVE  LastInv'
  BY ListFacts DEF Ends, GoesOn, Returns, Waits, LastInv, Passed

LEMMA LastStep == ASSUME NothingFails, WriterInv, LastInv, [Next]_vars PROVE LastInv'
  <1>0. ~error' /\ ~error
    BY NoError DEF LastInv
  <1>1. CASE PollDrain
    BY <1>0, <1>1, DrainRests DEF LastInv
  <1>2. CASE TakeError
    BY <1>0, <1>2, TakeErrorGoes, LastPoll DEF WriterInv
  <1>3. CASE ErrorAction
    BY <1>3 DEF ErrorAction, LastInv
  <1>4. CASE WriteBuffer
    <2>1. "transport" \notin Faults
      BY DEF NothingFails
    <2> QED
      BY <1>0, <1>4, <2>1, WriteGoes, LastPoll DEF WriterInv
  <1>5. CASE Flush
    <2>1. buffer' = 0 /\ "transport" \notin Faults
      BY <1>5 DEF Flush, LastInv, inner, NothingFails
    <2> QED
      BY <1>0, <1>5, <2>1, FlushGoes, LastPoll DEF WriterInv
  <1>6. CASE Close
    <2>1. buffer' = 0 /\ closing' = closing
      BY <1>6 DEF Close, LastInv
    <2>2. ~closing => ~Owes'
      BY <1>0, <2>1 DEF Owes
    <2> QED
      BY <1>0, <1>6, <2>1, <2>2, CloseGoes, LastPoll DEF WriterInv
  <1>7. CASE Finish
    BY <1>0, <1>7, FinishGoes, LastPoll DEF WriterInv
  <1> QED
    BY <1>0, <1>1, <1>2, <1>3, <1>4, <1>5, <1>6, <1>7, LastQuiet, LastCallback DEF Next, Poll

\* write() and close() wake nobody and rely on the writer's turn later in the
\* same poll: if nothing fails and the writer is the last item, a context that
\* rests with something to send or to close is notified or registered with the
\* transport.  (Without either condition it is false, see the README.)
THEOREM WritesAreSent == ASSUME WriterIsLast, NothingFails PROVE Spec => []WriteIsSent
  <1>1. Init => WriterInv /\ LastInv
    BY WriterInit, LastInit
  <1>2. (WriterInv /\ LastInv) /\ [Next]_vars => (WriterInv /\ LastInv)'
    BY WriterStep, LastStep
  <1>3. WriterInv /\ LastInv => WriteIsSent
    BY HasWriter DEF LastInv, WriteIsSent, Live, Owes
  <1> QED
    BY <1>1, <1>2, <1>3, PTL DEF Spec
=============================================================================
