--------------------------- MODULE LogStreamProofs ---------------------------
(***************************************************************************)
(* Theorems about LogStream, for every capacity of the channel and every   *)
(* length of the log.                                                      *)
(***************************************************************************)
EXTENDS LogStream, TLAPS, SequenceTheorems

\* A goroutine between its read and its send has a chunk in hand.
InHand == \A r \in Readers : pc[r] \in {"convert", "send"} => taken[r] > 0

\* Only a chunk of the other goroutine can have replaced one's own.
Torn == \A r \in Readers :
    \/ pc[r] = "convert" /\ buf # r
    \/ pc[r] = "send" /\ ~whole[r]
    => taken[Other(r)] > 0

\* Main leaves its loop for a reason, and then it has read what it could.
Leaving ==
    /\ closed => pc["main"] = "done"
    /\ pc["main"] \in {"wait", "close", "done"} =>
        /\ source # "running" \/ cancelled
        /\ source = "exited" /\ ~cancelled =>
            taken["main"] >= IF Http THEN written["main"] - 1 ELSE written["main"]

\* The inner goroutine is started by the call.
Started == pc["main"] = "idle" => pc["inner"] = "idle"

IInv == Started /\ TypeOK /\ InHand /\ Torn /\ InOrder /\ Leaving

LEMMA InitIInv == Init => IInv
  <1> SUFFICES ASSUME Init PROVE IInv
    OBVIOUS
  <1>1. log \in Seq(Items) /\ Len(log) = 0 /\ DOMAIN log = {}
    BY DEF Init
  <1>2. TypeOK
    <2>1. 0 \in 0 .. MaxChunks /\ 0 <= Capacity
      BY StreamAssumption
    <2>2. written \in [Readers -> 0 .. MaxChunks] /\ taken \in [Readers -> 0 .. MaxChunks]
      BY <2>1 DEF Init
    <2>3. pc \in [Readers -> Labels] /\ whole \in [Readers -> BOOLEAN]
      BY DEF Init, Labels
    <2>4. got \in 0 .. Len(log) /\ Len(log) - got <= Capacity
      BY <1>1, <2>1 DEF Init
    <2>5. \A r \in Readers : taken[r] <= written[r]
      BY DEF Init
    <2> QED
      BY <1>1, <2>2, <2>3, <2>4, <2>5 DEF Init, TypeOK
  <1>3. Started /\ InHand /\ Torn /\ Leaving
    BY DEF Init, Started, InHand, Torn, Leaving, Readers, Http
  <1>4. InOrder
    BY <1>1 DEF Init, InOrder, Sent, Carries, Readers
  <1> QED
    BY <1>2, <1>3, <1>4 DEF IInv

\* Steps that leave the goroutines, their buffer and the channel's contents alone.
LEMMA OutsideStep ==
    ASSUME IInv, UNCHANGED <<backend, taken, buf, pc, whole, log, closed>>,
           \/ UNCHANGED <<source, cancelled, written, got, left, panicked>>
           \/ \E r \in Readers : Write(r)
           \/ \E how \in {"exited", "broken"} : SourceEnds(how)
           \/ Cancel \/ Receive \/ Leave
           \/ \E r \in Readers : SendPanics(r)
    PROVE  IInv'
  <1>1. TypeOK'
    <2> USE DEF IInv, TypeOK
    <2>1. ASSUME NEW r \in Readers, Write(r) PROVE TypeOK'
      <3>1. written[r] \in Nat /\ written[r] + 1 \in 0 .. MaxChunks
        BY <2>1, StreamAssumption DEF Write
      <3>2. written' \in [Readers -> 0 .. MaxChunks] /\ \A q \in Readers : taken[q] <= written'[q]
        BY <2>1, <3>1 DEF Write
      <3> QED
        BY <2>1, <3>2 DEF Write
    <2>2. CASE Receive
      <3>1. Len(log) \in Nat
        BY LenProperties
      <3>2. got + 1 \in 0 .. Len(log) /\ Len(log) - (got + 1) <= Capacity
        BY <2>2, <3>1, StreamAssumption DEF Receive
      <3> QED
        BY <2>2, <3>2 DEF Receive, outside
    <2>3. CASE \/ UNCHANGED <<source, cancelled, written, got, left, panicked>>
               \/ \E how \in {"exited", "broken"} : SourceEnds(how)
               \/ Cancel \/ Leave \/ \E r \in Readers : SendPanics(r)
      BY <2>3 DEF SourceEnds, Cancel, Leave, SendPanics, outside
    <2> QED
      BY <2>1, <2>2, <2>3
  <1>2. Started' /\ InHand' /\ Torn' /\ InOrder'
    BY DEF IInv, Started, InHand, Torn, InOrder, Sent, Carries
  <1>3. Leaving'
    BY DEF IInv, TypeOK, Leaving, Http, Write, SourceEnds, Cancel, Receive, Leave, SendPanics,
           outside, Readers
  <1> QED
    BY <1>1, <1>2, <1>3 DEF IInv

\* Steps of a goroutine that neither read nor send.
LEMMA QuietStep ==
    ASSUME IInv, StreamLogs \/ StreamLogsFails \/ CheckContext \/ Wait \/ Close
    PROVE  IInv'
  <1> USE DEF IInv
  <1>1. /\ UNCHANGED <<outside, taken, buf, whole, log, got, panicked>>
        /\ \A r \in Readers : pc[r] \notin {"convert", "send"} \/ pc'[r] = pc[r]
        /\ \A r \in Readers : pc'[r] \notin {"convert", "send"} \/ pc'[r] = pc[r]
        /\ pc' \in [Readers -> Labels]
        /\ closed' \in BOOLEAN
    <2> PICK a, b \in Labels : pc' = [pc EXCEPT !["main"] = a, !["inner"] = b]
                               /\ a \notin {"convert", "send"}
                               /\ pc["main"] \notin {"convert", "send"}
                               /\ (b = pc["inner"] \/ (StreamLogs /\ b \in {"read", "idle"}))
      BY DEF TypeOK, Started, StreamLogs, StreamLogsFails, CheckContext, Wait, Close, Goto, LoopHead,
             Labels, Readers
    <2> QED
      BY DEF TypeOK, Started, StreamLogs, StreamLogsFails, CheckContext, Wait, Close, Goto, LoopHead,
             Labels, Readers
  <1>2. TypeOK'
    BY <1>1 DEF TypeOK, outside
  <1>3. InHand' /\ Torn'
    BY <1>1 DEF InHand, Torn, Other, Readers
  <1>4. InOrder'
    BY <1>1 DEF InOrder, Sent, Carries
  <1>5. Leaving' /\ Started'
    BY <1>1 DEF TypeOK, Leaving, Started, StreamLogs, StreamLogsFails, CheckContext, Wait, Close, Goto,
                LoopHead, Labels, Readers, outside, Http
  <1> QED
    BY <1>2, <1>3, <1>4, <1>5
\* A read puts a chunk into the buffer and into the goroutine's hand.
LEMMA ReadStep ==
    ASSUME IInv, NEW r \in Readers, Read(r)
    PROVE  IInv'
  <1> USE DEF IInv
  <1>1. /\ taken[r] \in Nat /\ taken[r] + 1 \in 0 .. MaxChunks /\ taken[r] + 1 <= written[r]
        /\ pc' = [pc EXCEPT ![r] = "convert"] /\ taken' = [taken EXCEPT ![r] = taken[r] + 1]
        /\ buf' \in Readers \cup {"empty", "mixed"}
        /\ pc[r] = "read"
        /\ UNCHANGED <<outside, whole, log, got, closed, panicked>>
    BY StreamAssumption DEF Read, Goto, TypeOK, Other, Readers
  <1>2. TypeOK'
    BY <1>1 DEF TypeOK, outside, Labels
  <1>3. InHand' /\ Started'
    BY <1>1 DEF InHand, Started, TypeOK, Readers
  <1>4. Torn'
    BY <1>1 DEF Read, Torn, InHand, TypeOK, Readers, Other, Labels
  <1>5. InOrder'
    <2>1. \A q \in Readers : Sent(q)' = Sent(q)
      BY <1>1 DEF Sent, TypeOK
    <2>2. \A q \in Readers : taken'[q] >= taken[q] /\ taken[q] \in Nat
      BY <1>1 DEF TypeOK
    <2>3. \A k \in DOMAIN log : ~log[k].whole => \A q \in Readers : taken'[q] > 0
      BY <2>2, <1>1 DEF InOrder, TypeOK
    <2> QED
      BY <2>1, <2>3, <1>1 DEF InOrder, Carries
  <1>6. Leaving'
    BY <1>1 DEF Leaving, TypeOK, Readers, outside, Http, Labels
  <1> QED
    BY <1>2, <1>3, <1>4, <1>5, <1>6

LEMMA ReadEndStep ==
    ASSUME IInv, NEW r \in Readers, ReadEnd(r)
    PROVE  IInv'
  <1> USE DEF IInv
  <1>1. /\ UNCHANGED <<outside, taken, buf, whole, log, got, closed, panicked>>
        /\ pc' \in [Readers -> Labels] /\ pc[r] = "read"
        /\ pc'[r] \in {"done", "wait", "close"}
        /\ \A q \in Readers : q # r => pc'[q] = pc[q]
    BY DEF ReadEnd, Goto, TypeOK, Labels
  <1>2. TypeOK'
    BY <1>1 DEF TypeOK, outside
  <1>3. InHand' /\ Torn' /\ Started'
    BY <1>1 DEF InHand, Torn, Started, Readers, Other
  <1>4. InOrder'
    BY <1>1 DEF InOrder, Sent, Carries, Readers
  <1>5. Leaving'
    <2>1. CASE r = "inner"
      BY <1>1, <2>1 DEF Leaving, outside, Http, Readers
    <2>2. CASE r = "main"
      BY <1>1, <2>2 DEF Leaving, outside, Http, ReadEnd, ReadFails, ReadWithEOF, PipesClosed, TypeOK,
                        Readers
    <2> QED
      BY <2>1, <2>2 DEF Readers
  <1> QED
    BY <1>2, <1>3, <1>4, <1>5

LEMMA ConvertStep ==
    ASSUME IInv, NEW r \in Readers, Convert(r)
    PROVE  IInv'
  <1> USE DEF IInv
  <1>1. /\ UNCHANGED <<outside, taken, buf, log, got, closed, panicked>>
        /\ pc[r] = "convert" /\ pc' = [pc EXCEPT ![r] = "send"]
        /\ whole' = [whole EXCEPT ![r] = (buf = r)]
    BY DEF Convert, Goto
  <1>2. TypeOK'
    <2>1. whole' \in [Readers -> BOOLEAN]
      BY <1>1, Zenon DEF TypeOK
    <2> QED
      BY <1>1, <2>1 DEF TypeOK, outside, Labels
  <1>3. whole'[r] <=> (buf = r)
    BY <1>1 DEF TypeOK
  <1>4. \A q \in Readers : q # r => pc'[q] = pc[q] /\ whole'[q] = whole[q]
    BY <1>1 DEF TypeOK
  <1>5. pc'[r] = "send"
    BY <1>1 DEF TypeOK
  <1>6. InHand' /\ Started'
    BY <1>1, <1>4, <1>5 DEF InHand, Started, Readers
  <1>7. Torn'
    BY <1>1, <1>3, <1>4, <1>5 DEF Torn, Readers, Other
  <1>8. InOrder'
    <2>1. \A q \in Readers : Sent(q)' = Sent(q)
      BY <1>1, <1>4, <1>5 DEF Sent
    <2> QED
      BY <1>1, <2>1 DEF InOrder, Carries
  <1>9. Leaving'
    BY <1>1, <1>4, <1>5 DEF Leaving, outside, Http, Readers
  <1> QED
    BY <1>2, <1>6, <1>7, <1>8, <1>9

\* A send appends the chunk in hand, which is the next one of its stream.
LEMMA SendStep ==
    ASSUME IInv, NEW r \in Readers, Send(r)
    PROVE  IInv'
  <1> USE DEF IInv
  <1> DEFINE item == Item(r)
             n    == Len(log)
  <1>1. /\ UNCHANGED <<outside, taken, buf, whole, got, closed, panicked>>
        /\ pc[r] = "send" /\ pc'[r] \in {"check", "read"} /\ pc' \in [Readers -> Labels]
        /\ \A q \in Readers : q # r => pc'[q] = pc[q]
        /\ log' = Append(log, item) /\ ~Full
    BY DEF Send, Goto, LoopHead, TypeOK, Labels
  <1>2. taken[r] \in 1 .. MaxChunks
    BY <1>1, StreamAssumption DEF InHand, TypeOK
  <1>3. item \in Items
    BY <1>2 DEF Item, Items, TypeOK
  <1>4. /\ log' \in Seq(Items) /\ Len(log') = n + 1 /\ n \in Nat
        /\ \A k \in 1 .. n : log'[k] = log[k]
        /\ log'[n + 1] = item
        /\ DOMAIN log = 1 .. n /\ DOMAIN log' = 1 .. n + 1
    BY <1>1, <1>3, AppendProperties, LenProperties DEF TypeOK
  <1>5. TypeOK'
    <2>1. got \in 0 .. n + 1 /\ n + 1 - got <= Capacity
      BY <1>1, <1>4, StreamAssumption DEF TypeOK, Full
    <2> QED
      BY <1>1, <1>4, <2>1 DEF TypeOK, outside
  <1>6. InHand' /\ Torn' /\ Started'
    BY <1>1 DEF InHand, Torn, Started, Readers, Other
  <1>7. item.from = r /\ item.index = taken[r] /\ item.whole = whole[r]
    BY DEF Item
  <1>8. Sent(r) = taken[r] - 1 /\ Sent(r)' = taken[r] /\ \A q \in Readers : q # r => Sent(q)' = Sent(q)
    BY <1>1 DEF Sent
  <1>9. \A k \in 1 .. n : log[k] \in Items
    BY <1>4 DEF TypeOK
  <1>10. \A k \in 1 .. n : log[k].from = r => log[k].index <= taken[r] - 1
    <2> SUFFICES ASSUME NEW k \in 1 .. n, log[k].from = r PROVE log[k].index <= Sent(r)
      BY <1>8
    <2>1. log[k].index \in 1 .. MaxChunks
      BY <1>9 DEF Items
    <2>2. Carries(r, log[k].index)
      BY <1>4 DEF Carries
    <2> QED
      BY <2>1, <2>2 DEF InOrder
  <1>11. InOrder'
    <2>1. ASSUME NEW k \in 1 .. n + 1, NEW l \in 1 .. n + 1, k < l, log'[k].from = log'[l].from
          PROVE  log'[k].index < log'[l].index
      <3>1. CASE l = n + 1
        <4>1. k \in 1 .. n /\ log'[k] = log[k] /\ log'[l] = item
          BY <1>4, <2>1, <3>1
        <4>2. log[k].from = r
          BY <4>1, <2>1, <1>7
        <4>3. log[k].index <= taken[r] - 1
          BY <4>1, <4>2, <1>10
        <4>4. log[k].index \in Nat
          BY <4>1, <1>9 DEF Items
        <4> QED
          BY <4>1, <4>3, <4>4, <1>7, <1>2
      <3>2. CASE l # n + 1
        <4>1. k \in 1 .. n /\ l \in 1 .. n /\ log'[k] = log[k] /\ log'[l] = log[l]
          BY <1>4, <2>1, <3>2
        <4> QED
          BY <4>1, <2>1, <1>4 DEF InOrder
      <3> QED
        BY <3>1, <3>2
    <2>2. ASSUME NEW q \in Readers, NEW i \in 1 .. MaxChunks
          PROVE  i <= Sent(q)' <=> Carries(q, i)'
      <3>1. Carries(q, i)' <=> (Carries(q, i) \/ (q = r /\ i = taken[r]))
        <4>1. ASSUME Carries(q, i) PROVE Carries(q, i)'
          <5> PICK k \in 1 .. n : log[k].from = q /\ log[k].index = i
            BY <4>1, <1>4 DEF Carries
          <5> QED
            BY <1>4 DEF Carries
        <4>2. ASSUME q = r, i = taken[r] PROVE Carries(q, i)'
          <5>1. n + 1 \in DOMAIN log' /\ log'[n + 1].from = q /\ log'[n + 1].index = i
            BY <1>4, <1>7, <4>2
          <5> QED
            BY <5>1 DEF Carries
        <4>3. ASSUME Carries(q, i)' PROVE Carries(q, i) \/ (q = r /\ i = taken[r])
          <5> PICK k \in 1 .. n + 1 : log'[k].from = q /\ log'[k].index = i
            BY <4>3, <1>4 DEF Carries
          <5>1. CASE k = n + 1
            BY <5>1, <1>4, <1>7
          <5>2. CASE k # n + 1
            BY <5>2, <1>4 DEF Carries
          <5> QED
            BY <5>1, <5>2
        <4> QED
          BY <4>1, <4>2, <4>3
      <3>2. i <= Sent(q) <=> Carries(q, i)
        BY DEF InOrder
      <3>3. CASE q = r
        BY <3>1, <3>2, <3>3, <1>2, <1>8
      <3>4. CASE q # r
        BY <3>1, <3>2, <3>4, <1>8
      <3> QED
        BY <3>3, <3>4
    <2>3. ASSUME NEW k \in 1 .. n + 1, ~log'[k].whole, NEW q \in Readers
          PROVE  taken[q] > 0
      <3>1. CASE k = n + 1
        <4>1. ~whole[r]
          BY <3>1, <2>3, <1>4, <1>7
        <4>2. taken[Other(r)] > 0
          BY <4>1, <1>1 DEF Torn
        <4> QED
          BY <4>2, <1>2 DEF Other, Readers
      <3>2. CASE k # n + 1
        BY <3>2, <2>3, <1>4 DEF InOrder
      <3> QED
        BY <3>1, <3>2
    <2> QED
      BY <2>1, <2>2, <2>3, <1>1, <1>4 DEF InOrder
  <1>12. Leaving'
    BY <1>1 DEF Leaving, outside, Http, Readers
  <1> QED
    BY <1>5, <1>6, <1>11, <1>12

\* Every step of the stream and around it keeps the invariant.
LEMMA NextIInv == IInv /\ [Next]_vars => IInv'
  <1> SUFFICES ASSUME IInv, [Next]_vars PROVE IInv'
    OBVIOUS
  <1>1. CASE StreamLogs \/ StreamLogsFails \/ Main
    BY <1>1, QuietStep DEF Main
  <1>2. CASE \E r \in Readers : Reader(r)
    <2> PICK r \in Readers : Reader(r)
      BY <1>2
    <2>1. CASE SendPanics(r)
      BY <2>1, OutsideStep DEF SendPanics, outside
    <2> QED
      BY <2>1, ReadStep, ReadEndStep, ConvertStep, SendStep DEF Reader
  <1>3. CASE \/ \E r \in Readers : Write(r)
             \/ \E how \in {"exited", "broken"} : SourceEnds(how)
             \/ Cancel \/ Kill \/ Receive \/ Leave
    <2>1. UNCHANGED <<backend, taken, buf, pc, whole, log, closed>>
      BY <1>3 DEF Write, SourceEnds, Cancel, Kill, Receive, Leave, outside
    <2> QED
      BY <1>3, <2>1, OutsideStep DEF Kill
  <1>4. CASE UNCHANGED vars
    BY <1>4, OutsideStep DEF vars
  <1> QED
    BY <1>1, <1>2, <1>3, <1>4 DEF Next

LEMMA Invariance == Spec => []IInv
  BY InitIInv, NextIInv, PTL DEF Spec

\* The goroutines, the buffer and the channel of every driver's StreamLogs keep
\* to their types, and no more is received than was sent.
THEOREM TypeCorrect == Spec => []TypeOK
  BY Invariance, PTL DEF IInv

\* The channel carries each stream of the log in order, without repetition or
\* gap, and damages chunks only when two goroutines have both read.
THEOREM OrderKept == Spec => []InOrder
  BY Invariance, PTL DEF IInv

\* A log that ended by itself is completely sent when the channel is closed, but
\* for the last chunk over HTTP and for what podman and compose read from stdout.
THEOREM CompleteAtClose == Spec => []Complete
  <1>1. IInv => Complete
    <2> SUFFICES ASSUME IInv, closed, source = "exited", ~cancelled,
                        NEW i \in 1 .. (IF Http THEN written["main"] - 1 ELSE written["main"])
                 PROVE  Carries("main", i)
      BY DEF Complete
    <2>1. pc["main"] = "done" /\ Sent("main") = taken["main"]
      BY DEF IInv, Leaving, Sent
    <2>2. "main" \in Readers
      BY DEF Readers
    <2>3. written["main"] \in 0 .. MaxChunks /\ taken["main"] \in 0 .. MaxChunks
      BY <2>2 DEF IInv, TypeOK
    <2>4. i \in 1 .. MaxChunks /\ i <= taken["main"]
      BY <2>1, <2>3, StreamAssumption DEF IInv, Leaving
    <2> QED
      BY <2>1, <2>2, <2>4 DEF IInv, InOrder
  <1> QED
    BY <1>1, Invariance, PTL
=============================================================================
