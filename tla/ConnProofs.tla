----------------------------- MODULE ConnProofs -----------------------------
(***************************************************************************)
(* The buffer bound of FlowControl and the absence of lost wakeups, for    *)
(* every choice of watermarks, chunk size and control traffic; a           *)
(* connection writes as FlowControl says, so that they are its own; and    *)
(* what the peer sent reaches the session once, whole and in order,        *)
(* whatever the inbox's capacity and the number of early messages.         *)
(***************************************************************************)
EXTENDS Conn, SequenceTheorems, TLAPS

-----------------------------------------------------------------------------
(* The writer.                                                             *)

\* Chunks go out only after the buffer was seen below the high watermark,
\* and since then it can only have drained; control messages sent since
\* come on top.
BufferBound ==
  /\ buffered < High + MaxChunk + burst
  /\ at = "send" => buffered < High

FlowInv == FlowTypeOK /\ BufferBound /\ NoLostWakeup

LEMMA FlowInitInv == FlowInit => FlowInv
<1> SUFFICES ASSUME FlowInit PROVE FlowInv
  OBVIOUS
<1>1. FlowTypeOK
  <2>1. buffered \in Nat /\ size \in 1..MaxChunk /\ burst \in 0..MaxBurst
    BY FlowAssumption DEF FlowInit
  <2>2. QED
    BY <2>1, Zenon DEF FlowInit, FlowTypeOK
<1>2. BufferBound
  BY FlowAssumption DEF FlowInit, BufferBound
<1>3. NoLostWakeup
  BY DEF FlowInit, NoLostWakeup
<1>4. QED
  BY <1>1, <1>2, <1>3 DEF FlowInv

LEMMA FlowNextInv == FlowInv /\ [FlowNext]_flowVars => FlowInv'
<1> SUFFICES ASSUME FlowInv, [FlowNext]_flowVars
             PROVE  FlowInv'
  OBVIOUS
<1> USE FlowAssumption DEF FlowInv, FlowTypeOK, BufferBound, NoLostWakeup
<1>1. ASSUME NEW n \in 1..MaxBurst, SendText(n) PROVE FlowInv'
  BY <1>1 DEF SendText
<1>2. ASSUME NEW n \in 1..MaxChunk, WriteFlow(n) PROVE FlowInv'
  BY <1>2 DEF WriteFlow
<1>3. CASE Check
  BY <1>3 DEF Check
<1>4. CASE Block
  BY <1>4 DEF Block
<1>5. CASE Wake
  BY <1>5 DEF Wake
<1>6. CASE SendChunk
  BY <1>6 DEF SendChunk
<1>7. ASSUME NEW n \in 1..buffered, Drain(n) PROVE FlowInv'
  <2>1. callback' \in BOOLEAN
    BY <1>7 DEF Drain
  <2>2. buffered > Low /\ buffered - n <= Low => callback'
    BY <1>7 DEF Drain
  <2>3. n \in Nat \ {0} /\ ~callback /\ n <= buffered /\ buffered' = buffered - n
    BY <1>7 DEF Drain
  <2>4. UNCHANGED <<lowCh, at, size, burst, ctx, open>>
    BY <1>7 DEF Drain
  <2>5. QED
    BY <2>1, <2>2, <2>3, <2>4
<1>8. CASE OnBufferedAmountLow
  BY <1>8 DEF OnBufferedAmountLow
<1>9. CASE CloseChannel
  BY <1>9 DEF CloseChannel
<1>10. CASE FlowCancel
  BY <1>10 DEF FlowCancel
<1>11. CASE UNCHANGED flowVars
  BY <1>11 DEF flowVars
<1>12. QED
  BY <1>1, <1>2, <1>3, <1>4, <1>5, <1>6, <1>7, <1>8, <1>9, <1>10, <1>11
     DEF FlowNext

LEMMA FlowInvariant == FlowSpec => []FlowInv
BY FlowInitInv, FlowNextInv, PTL DEF FlowSpec

\* Whatever the watermarks, chunks and control messages, as long as they
\* add up to no more than the hard limit, WriteFlow keeps the buffer there.
THEOREM BufferStaysUnderLimit == FlowSpec => []NeverOverHard
<1>1. FlowInv => NeverOverHard
  BY FlowAssumption DEF FlowInv, FlowTypeOK, BufferBound, NeverOverHard
<1>2. QED
  BY <1>1, FlowInvariant, PTL

\* A WriteFlow that pauses, or has just decided to, on a buffer that has
\* drained always has its wakeup under way.
THEOREM NoWakeupIsLost == FlowSpec => []NoLostWakeup
BY FlowInvariant, PTL DEF FlowInv

-----------------------------------------------------------------------------
(* Refinement.                                                             *)

\* Gathering, the handlers of messages and the queues leave the writer and
\* the buffer alone; a close of this side looks like one of the channel.
LEMMA ConnStepFlows ==
  ASSUME FlowInv, [ConnNext]_connVars
  PROVE  [FlowNext]_flowVars
<1> USE DEF FlowNext, flowVars
<1>1. ASSUME open' = FALSE,
             UNCHANGED <<buffered, callback, lowCh, at, size, burst, ctx>>
      PROVE  [FlowNext]_flowVars
  BY <1>1 DEF CloseChannel, FlowInv, FlowTypeOK
<1>2. CASE Gather
  BY <1>1, <1>2 DEF Gather
<1>3. CASE Close
  BY <1>1, <1>3 DEF Close
<1>4. CASE Write
  BY <1>4 DEF Write
<1>5. CASE Environment
  BY <1>5 DEF Environment, Acknowledged, LowCallback
<1>6. CASE \/ SetRemote \/ WaitOpen \/ OnMessage \/ Replay \/ Next1 \/ EndSession
           \/ OnDataChannel \/ Opens \/ OnOpen \/ RouteMessage \/ Pump
  BY <1>6 DEF SetRemote, WaitOpen, OnMessage, Replay, Next1, EndSession,
              OnDataChannel, Opens, OnOpen, RouteMessage, Pump
<1>7. CASE UNCHANGED connVars
  BY <1>7 DEF connVars
<1>8. QED
  BY <1>2, <1>3, <1>4, <1>5, <1>6, <1>7 DEF ConnNext, Caller

LEMMA ConnFlowInvariant == ConnSpec => []FlowInv
<1>1. ConnInit => FlowInv
  BY FlowInitInv DEF ConnInit
<1>2. FlowInv /\ [ConnNext]_connVars => FlowInv'
  BY ConnStepFlows, FlowNextInv
<1>3. QED
  BY <1>1, <1>2, PTL DEF ConnSpec

\* A connection is a writer of FlowControl, with a great deal around it that
\* takes no part in pausing and waking.
THEOREM ConnRefinesFlow == ConnSpec => FlowSpec
<1>1. ConnInit => FlowInit
  BY DEF ConnInit
<1>2. FlowInv /\ [ConnNext]_connVars => [FlowNext]_flowVars
  BY ConnStepFlows
<1>3. QED
  BY <1>1, <1>2, ConnFlowInvariant, PTL DEF ConnSpec, FlowSpec

\* The send buffer of a connection stays within TP/1's limit.
THEOREM ConnStaysUnderLimit == ConnSpec => []NeverOverHard
BY ConnRefinesFlow, BufferStaysUnderLimit, PTL

\* A writer paused on a drained buffer of a connection is about to wake.
THEOREM ConnLosesNoWakeup == ConnSpec => []NoLostWakeup
BY ConnRefinesFlow, NoWakeupIsLost, PTL

-----------------------------------------------------------------------------
(* Sequences.                                                              *)

LEMMA UptoIsSeq ==
  ASSUME NEW n \in Nat
  PROVE  /\ Upto(n) \in Seq(Nat)
         /\ Len(Upto(n)) = n
         /\ \A k \in 1..n : Upto(n)[k] = k
BY DEF Upto

LEMMA UptoNext ==
  ASSUME NEW n \in Nat
  PROVE  Upto(n + 1) = Upto(n) \o <<n + 1>>
<1>1. /\ Upto(n + 1) \in Seq(Nat) /\ Len(Upto(n + 1)) = n + 1
      /\ \A k \in 1..n + 1 : Upto(n + 1)[k] = k
  BY UptoIsSeq
<1>2. /\ Append(Upto(n), n + 1) \in Seq(Nat)
      /\ Len(Append(Upto(n), n + 1)) = n + 1
      /\ \A k \in 1..n + 1 : Append(Upto(n), n + 1)[k] = k
  BY UptoIsSeq, AppendProperties
<1>3. Upto(n + 1) = Append(Upto(n), n + 1)
  BY <1>1, <1>2, SeqEqual
<1>4. Append(Upto(n), n + 1) = Upto(n) \o <<n + 1>>
  <2>1. Upto(n) \in Seq(Nat) /\ n + 1 \in Nat
    BY UptoIsSeq
  <2>2. QED
    BY <2>1, AppendIsConcat
<1>5. QED
  BY <1>3, <1>4

LEMMA HeadThenTail ==
  ASSUME NEW s \in Seq(Nat), s # <<>>
  PROVE  /\ Head(s) \in Nat /\ Tail(s) \in Seq(Nat) /\ Len(s) >= 1
         /\ Head(s) = s[1]
         /\ s = <<Head(s)>> \o Tail(s)
<1>1. /\ Head(s) \in Nat /\ Tail(s) \in Seq(Nat) /\ Len(Tail(s)) = Len(s) - 1
      /\ \A i \in 1..Len(Tail(s)) : Tail(s)[i] = s[i + 1]
      /\ Head(s) = s[1] /\ Len(s) \in Nat \ {0}
  BY HeadTailProperties, LenProperties, EmptySeq
<1>2. <<Head(s)>> \in Seq(Nat) /\ Len(<<Head(s)>>) = 1 /\ <<Head(s)>>[1] = s[1]
  BY <1>1
<1> DEFINE t == <<Head(s)>> \o Tail(s)
<1>3. /\ t \in Seq(Nat) /\ Len(t) = Len(s)
      /\ \A i \in 1..Len(s) : t[i] = s[i]
  <2>1. t \in Seq(Nat) /\ Len(t) = Len(s)
    BY <1>1, <1>2, ConcatProperties
  <2>2. ASSUME NEW i \in 1..Len(s) PROVE t[i] = s[i]
    <3>1. t[i] = IF i <= 1 THEN <<Head(s)>>[i] ELSE Tail(s)[i - 1]
      BY <1>1, <1>2, ConcatProperties
    <3>2. CASE i = 1
      BY <3>1, <3>2, <1>2
    <3>3. CASE i > 1
      <4>1. i - 1 \in 1..Len(Tail(s))
        BY <3>3, <1>1
      <4>2. QED
        BY <3>1, <3>3, <4>1, <1>1
    <3>4. QED
      BY <3>2, <3>3, <1>1
  <2>3. QED
    BY <2>1, <2>2
<1>4. QED
  BY <1>1, <1>3, SeqEqual

LEMMA ConcatSeq == \A s, t \in Seq(Nat) : s \o t \in Seq(Nat)
BY ConcatProperties

LEMMA Assoc == \A s, t, u \in Seq(Nat) : (s \o t) \o u = s \o (t \o u)
BY ConcatAssociative, SMTT(30)

LEMMA EmptyConcat == <<>> \in Seq(Nat)
                  /\ \A s \in Seq(Nat) : s \o <<>> = s /\ <<>> \o s = s
BY ConcatEmptySeq, EmptySeq

-----------------------------------------------------------------------------
(* Order.  The handler may be called directly only when nothing is left to *)
(* replay: that is what msgFlushed, set under msgMu, stands for.           *)

QueueTypeOK ==
  /\ msgBuf \in Seq(Nat) /\ batch \in Seq(Nat)
  /\ inbox \in Seq(Nat) /\ routed \in Seq(Nat)
  /\ arrived \in Nat /\ taken \in Nat

FlushedLast == IF msgFlushed THEN batch = <<>> /\ msgBuf = <<>> ELSE routed = <<>>

OrderInv == QueueTypeOK /\ FlushedLast /\ InOrder

Over == stage \in {"ended", "closed"}

LEMMA PendingIsSeq == QueueTypeOK => Pending \in Seq(Nat)
<1> SUFFICES ASSUME QueueTypeOK PROVE Pending \in Seq(Nat)
  OBVIOUS
<1>1. msgBuf \o routed \in Seq(Nat)
  BY ConcatSeq DEF QueueTypeOK
<1>2. batch \o (msgBuf \o routed) \in Seq(Nat)
  BY <1>1, ConcatSeq DEF QueueTypeOK
<1>3. QED
  BY <1>2, ConcatSeq DEF QueueTypeOK, Pending

\* A step that moves messages on between the channel and the session, and
\* neither receives nor takes one.
LEMMA SameOrder ==
  ASSUME OrderInv, QueueTypeOK', Over => Over', Pending' = Pending,
         UNCHANGED <<arrived, taken>>
  PROVE  InOrder'
BY DEF OrderInv, InOrder, Over

LEMMA OrderInitInv == ConnInit => OrderInv
<1> SUFFICES ASSUME ConnInit PROVE OrderInv
  OBVIOUS
<1>1. QueueTypeOK
  BY EmptyConcat DEF ConnInit, QueueTypeOK
<1>2. Upto(0) = <<>>
  BY UptoIsSeq, EmptySeq, LenProperties
<1>3. Pending = <<>>
  BY EmptyConcat DEF ConnInit, Pending
<1>4. Upto(taken) \o Pending = Upto(arrived)
  BY <1>2, <1>3, EmptyConcat DEF ConnInit
<1>5. QED
  BY <1>1, <1>4, Zenon DEF ConnInit, OrderInv, FlushedLast, InOrder

LEMMA OrderNextInv == OrderInv /\ [ConnNext]_connVars => OrderInv'
<1> SUFFICES ASSUME OrderInv, [ConnNext]_connVars PROVE OrderInv'
  OBVIOUS
<1> USE DEF Over
<1>1. QueueTypeOK /\ FlushedLast /\ (Over \/ Upto(taken) \o Pending = Upto(arrived))
  BY DEF OrderInv, InOrder
<1>2. CASE OnMessage
  <2>1. QueueTypeOK'
    BY <1>1, <1>2, EmptyConcat DEF OnMessage, QueueTypeOK
  <2>2. FlushedLast'
    BY <1>1, <1>2 DEF OnMessage, FlushedLast
  <2>3. Pending' = Pending
    <3>1. msgBuf \o routed \in Seq(Nat)
      BY <1>1, ConcatSeq DEF QueueTypeOK
    <3>2. Pending = inbox \o (msgBuf \o routed)
      BY <1>2, <3>1, EmptyConcat DEF Pending, OnMessage
    <3>3. Pending' = inbox \o (msgBuf \o routed)
      BY <1>1, <1>2, EmptyConcat DEF Pending, OnMessage, QueueTypeOK
    <3>4. QED
      BY <3>2, <3>3
  <2>4. QED
    BY <2>1, <2>2, <2>3, <1>2, SameOrder DEF OnMessage, OrderInv
<1>3. CASE Replay
  <2>1. /\ Head(batch) \in Nat /\ Tail(batch) \in Seq(Nat)
        /\ batch = <<Head(batch)>> \o Tail(batch)
    BY <1>1, <1>3, HeadThenTail DEF Replay, QueueTypeOK
  <2>2. Append(inbox, Head(batch)) = inbox \o <<Head(batch)>>
    BY <2>1, <1>1, AppendIsConcat DEF QueueTypeOK
  <2>3. QueueTypeOK'
    BY <1>1, <1>3, <2>1, AppendProperties DEF Replay, QueueTypeOK
  <2>4. FlushedLast'
    BY <1>1, <1>3 DEF Replay, FlushedLast
  <2>5. Pending' = Pending
    <3> DEFINE h == <<Head(batch)>>
               t == Tail(batch)
               rest == msgBuf \o routed
    <3>1. h \in Seq(Nat) /\ t \in Seq(Nat) /\ rest \in Seq(Nat) /\ inbox \in Seq(Nat)
      BY <2>1, <1>1, ConcatSeq DEF QueueTypeOK
    <3>2. Pending = inbox \o ((h \o t) \o rest)
      BY <2>1 DEF Pending
    <3>3. Pending' = (inbox \o h) \o (t \o rest)
      BY <1>3, <2>2 DEF Pending, Replay
    <3> HIDE DEF h, t, rest
    <3>4. (h \o t) \o rest = h \o (t \o rest)
      BY <3>1, Assoc, Zenon
    <3>4a. t \o rest \in Seq(Nat)
      BY <3>1, ConcatSeq
    <3>5. (inbox \o h) \o (t \o rest) = inbox \o (h \o (t \o rest))
      BY <3>1, <3>4a, Assoc, Zenon
    <3>6. QED
      BY <3>2, <3>3, <3>4, <3>5
  <2>6. QED
    BY <2>3, <2>4, <2>5, <1>3, SameOrder DEF Replay, OrderInv
<1>4. CASE Pump
  <2>1. QueueTypeOK'
    BY <1>1, <1>4, ConcatSeq, EmptyConcat DEF Pump, QueueTypeOK
  <2>2. msgFlushed /\ batch = <<>> /\ msgBuf = <<>>
    BY <1>1, <1>4 DEF Pump, FlushedLast
  <2>3. FlushedLast'
    BY <1>4, <2>2 DEF Pump, FlushedLast
  <2>4. CASE Over
    <3>1. Over'
      BY <1>4, <2>4 DEF Pump
    <3>2. QED
      BY <3>1, <2>1, <2>3 DEF OrderInv, InOrder
  <2>5. CASE ~Over
    <3>1. inbox' = inbox \o routed /\ routed' = <<>>
      BY <1>4, <2>5 DEF Pump
    <3>2. Pending = inbox \o routed
      BY <2>2, <1>1, EmptyConcat DEF Pending, QueueTypeOK
    <3>3. Pending' = inbox \o routed
      <4>1. inbox \o routed \in Seq(Nat)
        BY <1>1, ConcatSeq DEF QueueTypeOK
      <4>2. batch' = <<>> /\ msgBuf' = <<>>
        BY <1>4, <2>2 DEF Pump
      <4>3. QED
        BY <3>1, <4>1, <4>2, EmptyConcat DEF Pending
    <3>4. QED
      BY <2>1, <2>3, <3>2, <3>3, <1>4, <2>5, SameOrder DEF Pump, OrderInv
  <2>6. QED
    BY <2>4, <2>5
<1>5. CASE RouteMessage
  <2> DEFINE a == <<arrived + 1>>
             u == Upto(taken)
  <2>1. /\ routed = <<>> /\ arrived' = arrived + 1 /\ a \in Seq(Nat)
        /\ UNCHANGED <<stage, taken, inbox, batch, msgFlushed>>
    BY <1>1, <1>5 DEF RouteMessage, QueueTypeOK
  <2>2. u \in Seq(Nat)
    BY <1>1, UptoIsSeq DEF QueueTypeOK
  <2>3. Append(msgBuf, arrived + 1) = msgBuf \o a
    BY <1>1, AppendIsConcat DEF QueueTypeOK
  <2>5. \/ msgFlushed /\ routed' = a /\ msgBuf' = msgBuf
        \/ ~msgFlushed /\ routed' = <<>> /\ msgBuf' = msgBuf \o a
    BY <1>5, <2>1, <2>3 DEF RouteMessage
  <2>6. QueueTypeOK'
    <3> HIDE DEF a
    <3>1. msgBuf \o a \in Seq(Nat)
      BY <1>1, <2>1, ConcatSeq DEF QueueTypeOK
    <3>2. msgBuf' \in Seq(Nat) /\ routed' \in Seq(Nat)
      BY <1>1, <2>1, <2>5, <3>1, EmptyConcat DEF QueueTypeOK
    <3>3. QED
      BY <1>1, <2>1, <3>2 DEF QueueTypeOK
  <2>7. FlushedLast'
    BY <1>1, <2>1, <2>5 DEF FlushedLast
  <2>8. Pending' = Pending \o a
    <3> HIDE DEF a
    <3>1. msgBuf' \o routed' = msgBuf \o a
      <4>1. msgBuf \o a \in Seq(Nat)
        BY <1>1, <2>1, ConcatSeq DEF QueueTypeOK
      <4>2. QED
        BY <2>5, <4>1, EmptyConcat
    <3>2. Pending = inbox \o (batch \o msgBuf)
      BY <1>1, <2>1, EmptyConcat DEF Pending, QueueTypeOK
    <3>3. Pending' = inbox \o (batch \o (msgBuf \o a))
      BY <3>1, <2>1 DEF Pending
    <3>4. inbox \in Seq(Nat) /\ batch \in Seq(Nat) /\ msgBuf \in Seq(Nat)
      BY <1>1 DEF QueueTypeOK
    <3>5. batch \o (msgBuf \o a) = (batch \o msgBuf) \o a
      BY <2>1, <3>4, Assoc, Zenon
    <3>6. batch \o msgBuf \in Seq(Nat)
      BY <3>4, ConcatSeq
    <3>7. inbox \o ((batch \o msgBuf) \o a) = (inbox \o (batch \o msgBuf)) \o a
      BY <2>1, <3>4, <3>6, Assoc, Zenon
    <3>8. QED
      BY <3>2, <3>3, <3>5, <3>7
  <2>9. CASE Over
    BY <2>1, <2>6, <2>7, <2>9 DEF OrderInv, InOrder
  <2>10. CASE ~Over
    <3>1. u \o (Pending \o a) = Upto(arrived) \o a
      <4>1. u \o Pending = Upto(arrived)
        BY <1>1, <2>10
      <4>2. Pending \in Seq(Nat)
        BY <1>1, PendingIsSeq
      <4> HIDE DEF u, a
      <4>3. (u \o Pending) \o a = u \o (Pending \o a)
        BY <2>1, <2>2, <4>2, Assoc
      <4>4. QED
        BY <4>1, <4>3
    <3>2. Upto(arrived) \o a = Upto(arrived')
      BY <1>1, <2>1, UptoNext DEF QueueTypeOK
    <3>3. InOrder'
      BY <3>1, <3>2, <2>1, <2>8 DEF InOrder
    <3>4. QED
      BY <3>3, <2>6, <2>7 DEF OrderInv
  <2>11. QED
    BY <2>9, <2>10
<1>6. CASE Next1
  <2> DEFINE u == Upto(taken)
             h == <<Head(inbox)>>
             t == Tail(inbox)
             rest == batch \o (msgBuf \o routed)
  <2>1. /\ inbox # <<>> /\ inbox' = t /\ taken' = taken + 1 /\ ~Over /\ ~Over'
        /\ UNCHANGED <<stage, msgBuf, msgFlushed, batch, routed, arrived>>
    BY <1>6 DEF Next1
  <2>2. h \in Seq(Nat) /\ t \in Seq(Nat) /\ inbox = h \o t
    BY <1>1, <2>1, HeadThenTail DEF QueueTypeOK
  <2>3. u \in Seq(Nat) /\ Len(u) = taken
    BY <1>1, UptoIsSeq DEF QueueTypeOK
  <2>4. rest \in Seq(Nat)
    <3>1. msgBuf \o routed \in Seq(Nat)
      BY <1>1, ConcatSeq DEF QueueTypeOK
    <3>2. QED
      BY <3>1, <1>1, ConcatSeq DEF QueueTypeOK
  <2>5. QueueTypeOK'
    BY <1>1, <2>1, <2>2 DEF QueueTypeOK
  <2>6. FlushedLast'
    BY <1>1, <2>1 DEF FlushedLast
  <2>7. (u \o h) \o (t \o rest) = Upto(arrived)
    <3>1. u \o ((h \o t) \o rest) = Upto(arrived)
      BY <1>1, <2>1, <2>2 DEF Pending
    <3> HIDE DEF u, h, t, rest
    <3>2. (h \o t) \o rest = h \o (t \o rest)
      BY <2>2, <2>4, Assoc, Zenon
    <3>3. t \o rest \in Seq(Nat)
      BY <2>2, <2>4, ConcatSeq
    <3>4. (u \o h) \o (t \o rest) = u \o (h \o (t \o rest))
      BY <2>2, <2>3, <3>3, Assoc, Zenon
    <3>5. QED
      BY <3>1, <3>2, <3>4
  <2>8. h = <<taken + 1>>
    <3> DEFINE w == t \o rest
               uh == u \o h
    <3>1. w \in Seq(Nat) /\ uh \in Seq(Nat) /\ Len(w) \in Nat
      BY <2>2, <2>3, <2>4, ConcatSeq, LenProperties
    <3>2. Len(h) = 1 /\ h[1] = Head(inbox)
      OBVIOUS
    <3>3. Len(uh) = taken + 1 /\ uh[taken + 1] = h[1]
      <4>1. taken + 1 \in 1..Len(u) + Len(h) /\ ~(taken + 1 <= Len(u)) /\ taken + 1 - Len(u) = 1
        BY <1>1, <2>3, <3>2 DEF QueueTypeOK
      <4> HIDE DEF u, h
      <4>2. QED
        BY <2>2, <2>3, <3>2, <4>1, ConcatProperties
    <3> HIDE DEF w, uh
    <3>4. /\ Len(uh \o w) = taken + 1 + Len(w)
          /\ (uh \o w)[taken + 1] = uh[taken + 1]
      <4>1. /\ Len(uh \o w) = Len(uh) + Len(w)
            /\ \A k \in 1..Len(uh) + Len(w) :
                 (uh \o w)[k] = IF k <= Len(uh) THEN uh[k] ELSE w[k - Len(uh)]
        BY <3>1, ConcatProperties
      <4>2. taken + 1 \in 1..Len(uh) + Len(w) /\ taken + 1 <= Len(uh)
        BY <1>1, <3>1, <3>3 DEF QueueTypeOK
      <4>3. QED
        BY <4>1, <4>2, <3>3
    <3>5. uh \o w = Upto(arrived)
      BY <2>7 DEF uh, w
    <3>6. taken + 1 \in 1..arrived
      <4>1. Len(Upto(arrived)) = arrived
        BY <1>1, UptoIsSeq DEF QueueTypeOK
      <4>2. QED
        BY <4>1, <3>1, <3>4, <3>5, <1>1 DEF QueueTypeOK
    <3>7. Upto(arrived)[taken + 1] = taken + 1
      BY <3>6, <1>1, UptoIsSeq DEF QueueTypeOK
    <3>8. QED
      BY <3>2, <3>3, <3>4, <3>5, <3>7
  <2>9. InOrder'
    <3>1. u \o h = Upto(taken')
      BY <2>1, <2>8, <1>1, UptoNext DEF QueueTypeOK
    <3>2. Pending' = t \o rest
      BY <2>1 DEF Pending
    <3>3. QED
      BY <3>1, <3>2, <2>1, <2>7 DEF InOrder
  <2>10. QED
    BY <2>5, <2>6, <2>9 DEF OrderInv
<1>7. ASSUME UNCHANGED queues, Over => Over' PROVE OrderInv'
  <2>1. QueueTypeOK' /\ FlushedLast'
    BY <1>1, <1>7 DEF queues, QueueTypeOK, FlushedLast
  <2>2. Pending' = Pending /\ UNCHANGED <<arrived, taken>>
    BY <1>7 DEF queues, Pending
  <2>3. QED
    BY <2>1, <2>2, <1>7, SameOrder DEF OrderInv
<1>8. CASE \/ Gather \/ SetRemote \/ WaitOpen \/ Write \/ EndSession \/ Close
  BY <1>7, <1>8 DEF Gather, SetRemote, WaitOpen, Write, EndSession, Close, queues
<1>9. CASE OnDataChannel \/ Opens \/ OnOpen \/ Environment \/ UNCHANGED connVars
  BY <1>7, <1>9 DEF OnDataChannel, Opens, OnOpen, Environment, Acknowledged,
                    LowCallback, connVars, queues
<1>10. QED
  BY <1>2, <1>3, <1>4, <1>5, <1>6, <1>8, <1>9 DEF ConnNext, Caller

\* Every message that arrives before the session ends is taken by it once
\* and in its turn, however the replay of the early ones interleaves with
\* new arrivals, and however few messages the inbox holds.
THEOREM MessagesStayInOrder == ConnSpec => []InOrder
<1>1. OrderInv => InOrder
  BY DEF OrderInv
<1>2. QED
  BY <1>1, OrderInitInv, OrderNextInv, PTL DEF ConnSpec

-----------------------------------------------------------------------------
(* Types and bounds.  Until the session runs nothing is taken, and the     *)
(* peer, which has not been greeted, has sent no more than its early       *)
(* messages: this is why the replay, which nobody reads meanwhile, always  *)
(* finds room.                                                             *)

Before == {"gather", "signal", "wait", "register"}

Flags == /\ dc \in BOOLEAN /\ remote \in BOOLEAN /\ reading \in BOOLEAN
         /\ announced \in BOOLEAN /\ openCh \in BOOLEAN /\ msgFlushed \in BOOLEAN

Bounds ==
  /\ stage \in Stages
  /\ Len(routed) <= 1 /\ Len(inbox) <= InboxCap
  /\ taken <= arrived /\ arrived <= MaxMsgs
  /\ stage \in Before => taken = 0 /\ arrived <= MaxEarly
  /\ batch # <<>> => stage = "register"

\* Whoever replays a message finds room for it in the inbox.
ReplayHasRoom == batch # <<>> => Len(inbox) < InboxCap

LEMMA UptoLengths ==
  ASSUME NEW t \in Nat, NEW a \in Nat, NEW s \in Seq(Nat), Upto(t) \o s = Upto(a)
  PROVE  t + Len(s) = a
<1>1. /\ Upto(t) \in Seq(Nat) /\ Len(Upto(t)) = t
      /\ Len(Upto(a)) = a
  BY UptoIsSeq
<1> HIDE DEF Upto
<1>2. Len(Upto(t) \o s) = Len(Upto(t)) + Len(s)
  BY <1>1, ConcatProperties
<1>3. QED
  BY <1>1, <1>2

LEMMA FlagsNext == Flags /\ [ConnNext]_connVars => Flags'
<1> SUFFICES ASSUME Flags, [ConnNext]_connVars PROVE Flags'
  OBVIOUS
<1> USE DEF Flags
<1>1. CASE OnMessage \/ Replay \/ Next1 \/ Pump \/ RouteMessage
  BY <1>1 DEF OnMessage, Replay, Next1, Pump, RouteMessage, setup
<1>2. CASE Gather \/ SetRemote \/ WaitOpen \/ Write \/ EndSession \/ Close
  BY <1>2 DEF Gather, SetRemote, WaitOpen, Write, EndSession, Close, setup, queues
<1>3. CASE OnDataChannel \/ Opens \/ OnOpen \/ Environment \/ UNCHANGED connVars
  BY <1>3 DEF OnDataChannel, Opens, OnOpen, Environment, Acknowledged, LowCallback,
              connVars, setup, queues
<1>4. QED
  BY <1>1, <1>2, <1>3 DEF ConnNext, Caller

LEMMA BoundsInit == ConnInit => Bounds
BY ConnAssumption, EmptySeq DEF ConnInit, Bounds, Stages, Before

LEMMA BoundsNext ==
  Bounds /\ OrderInv /\ OrderInv' /\ [ConnNext]_connVars => Bounds'
<1> SUFFICES ASSUME Bounds, OrderInv, OrderInv', [ConnNext]_connVars PROVE Bounds'
  OBVIOUS
<1> USE ConnAssumption DEF Bounds, Stages, Before, QueueTypeOK
<1>1. QueueTypeOK /\ QueueTypeOK'
  BY DEF OrderInv
<1>2. CASE Next1
  <2>1. taken' <= arrived'
    <3>1. Upto(taken') \o Pending' = Upto(arrived')
      BY <1>2 DEF OrderInv, InOrder, Next1
    <3>2. Pending' \in Seq(Nat)
      <4>1. (msgBuf \o routed)' \in Seq(Nat)
        BY <1>1, ConcatSeq DEF QueueTypeOK
      <4>2. (batch \o (msgBuf \o routed))' \in Seq(Nat)
        BY <1>1, <4>1, ConcatSeq DEF QueueTypeOK
      <4>3. QED
        BY <1>1, <4>2, ConcatSeq DEF QueueTypeOK, Pending
    <3>3. taken' + Len(Pending') = arrived' /\ Len(Pending') \in Nat
      BY <3>1, <3>2, <1>1, UptoLengths, LenProperties DEF QueueTypeOK
    <3>4. QED
      BY <3>3, <1>1 DEF QueueTypeOK
  <2>2. Len(inbox') <= InboxCap
    <3>1. Len(Tail(inbox)) = Len(inbox) - 1 /\ Len(inbox) \in Nat
      BY <1>1, <1>2, HeadTailProperties, LenProperties DEF QueueTypeOK, Next1
    <3>2. QED
      BY <1>2, <3>1 DEF Next1
  <2>3. QED
    BY <1>2, <2>1, <2>2 DEF Next1
<1>3. CASE Replay
  <2>1. Len(inbox') = Len(inbox) + 1 /\ Len(inbox) \in Nat
    <3>1. Head(batch) \in Nat
      BY <1>1, <1>3, HeadThenTail DEF QueueTypeOK, Replay
    <3>2. QED
      BY <1>1, <1>3, <3>1, AppendProperties, LenProperties DEF QueueTypeOK, Replay
  <2>2. QED
    BY <1>3, <2>1 DEF Replay
<1>4. CASE Pump
  <2>1. Len(<<>>) = 0
    BY EmptySeq
  <2>2. \/ inbox' = inbox
        \/ inbox' = inbox \o routed /\ Len(inbox) < InboxCap
    BY <1>4 DEF Pump
  <2>3. Len(inbox') <= InboxCap
    <3>1. Len(inbox \o routed) = Len(inbox) + Len(routed) /\ Len(inbox) \in Nat /\ Len(routed) \in Nat
      BY <1>1, ConcatProperties, LenProperties DEF QueueTypeOK
    <3>2. QED
      BY <2>2, <3>1
  <2>4. QED
    BY <1>4, <2>1, <2>3 DEF Pump
<1>5. CASE RouteMessage
  <2>1. Len(<<arrived'>>) = 1
    OBVIOUS
  <2>2. Len(routed') <= 1
    <3>1. routed' = routed \/ routed' = <<arrived'>>
      BY <1>5, Zenon DEF RouteMessage
    <3>2. QED
      BY <2>1, <3>1
  <2>3. /\ arrived' <= MaxMsgs /\ arrived' = arrived + 1
        /\ stage \in Before => arrived' <= MaxEarly
    BY <1>1, <1>5 DEF RouteMessage
  <2>4. QED
    BY <1>1, <1>5, <2>2, <2>3 DEF RouteMessage, setup
<1>6. CASE OnMessage
  BY <1>6 DEF OnMessage, setup
<1>7. CASE Gather \/ SetRemote \/ WaitOpen
  BY <1>7 DEF Gather, SetRemote, WaitOpen, setup, queues
<1>8. CASE Write \/ EndSession \/ Close
  BY <1>8 DEF Write, EndSession, Close, setup, queues
<1>9. CASE OnDataChannel \/ Opens \/ OnOpen
  BY <1>9 DEF OnDataChannel, Opens, OnOpen, setup, queues
<1>10. CASE Environment \/ UNCHANGED connVars
  BY <1>10 DEF Environment, Acknowledged, LowCallback, connVars, setup, queues
<1>11. QED
  BY <1>2, <1>3, <1>4, <1>5, <1>6, <1>7, <1>8, <1>9, <1>10 DEF ConnNext, Caller

LEMMA ConnInvariant == ConnSpec => [](OrderInv /\ Flags /\ Bounds)
<1>1. ConnInit => OrderInv /\ Flags /\ Bounds
  BY OrderInitInv, BoundsInit DEF ConnInit, Flags
<1>2. OrderInv /\ Flags /\ Bounds /\ [ConnNext]_connVars => (OrderInv /\ Flags /\ Bounds)'
  BY OrderNextInv, FlagsNext, BoundsNext
<1>3. QED
  BY <1>1, <1>2, PTL DEF ConnSpec

\* Every variable of a connection keeps its type, and no queue outgrows its
\* bound: the inbox its capacity, the routed message its single place.
THEOREM ConnTypes == ConnSpec => []ConnTypeOK
<1>1. FlowInv /\ OrderInv /\ Flags /\ Bounds => ConnTypeOK
  BY ConnAssumption DEF FlowInv, OrderInv, QueueTypeOK, Flags, Bounds, ConnTypeOK
<1>2. QED
  BY <1>1, ConnFlowInvariant, ConnInvariant, PTL

\* What OnMessage replays never waits for a reader, who comes only after the
\* replay: the safety half of Connects, and the reason for MaxEarly.
THEOREM ReplayNeverBlocks == ConnSpec => []ReplayHasRoom
<1>1. ASSUME OrderInv, Bounds PROVE ReplayHasRoom
  <2> SUFFICES ASSUME batch # <<>> PROVE Len(inbox) < InboxCap
    BY DEF ReplayHasRoom
  <2> USE <1>1
  <2>1. taken = 0 /\ arrived <= MaxEarly /\ stage \notin {"ended", "closed"}
    BY DEF Bounds, Before
  <2>2. QueueTypeOK /\ msgBuf \o routed \in Seq(Nat)
    BY ConcatSeq DEF OrderInv, QueueTypeOK
  <2>3. batch \o (msgBuf \o routed) \in Seq(Nat)
    BY <2>2, ConcatSeq DEF QueueTypeOK
  <2>4. Len(Pending) = arrived
    <3>1. Upto(0) \o Pending = Upto(arrived)
      BY <2>1 DEF OrderInv, InOrder
    <3>2. Pending \in Seq(Nat) /\ Len(Pending) \in Nat /\ arrived \in Nat
      BY <2>2, PendingIsSeq, LenProperties DEF QueueTypeOK
    <3>3. 0 + Len(Pending) = arrived
      BY <3>1, <3>2, UptoLengths, Zenon
    <3>4. QED
      BY <3>2, <3>3
  <2>5. Len(Pending) = Len(inbox) + Len(batch \o (msgBuf \o routed))
    BY <2>2, <2>3, ConcatProperties DEF QueueTypeOK, Pending
  <2>6. Len(batch \o (msgBuf \o routed)) = Len(batch) + Len(msgBuf \o routed)
    BY <2>2, ConcatProperties DEF QueueTypeOK
  <2>7. Len(batch) \in Nat \ {0} /\ Len(msgBuf \o routed) \in Nat /\ Len(inbox) \in Nat
    BY <2>2, LenProperties, EmptySeq DEF QueueTypeOK
  <2>8. QED
    BY <2>1, <2>4, <2>5, <2>6, <2>7, ConnAssumption DEF QueueTypeOK
<1>2. QED
  BY <1>1, ConnInvariant, PTL
=============================================================================
