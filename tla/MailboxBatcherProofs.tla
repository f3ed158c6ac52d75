------------------------ MODULE MailboxBatcherProofs ------------------------
(***************************************************************************)
(* What the relay mailbox clearing service keeps and sends on, for any     *)
(* batch size, channel sizes and number of receipts.                       *)
(***************************************************************************)
EXTENDS MailboxBatcher, SequenceTheorems, WellFoundedInduction, TLAPS

Step == [Next]_vars

-----------------------------------------------------------------------------
(* The batches of output_batches put end to end.                           *)

\* Induction over the positions of a queue, for a set of positions.
LEMMA PositionInduction ==
    ASSUME NEW n \in Nat, NEW T,
           n > 0 => 1 \in T,
           \A i \in 1..n : (i > 1 /\ i - 1 \in T) => i \in T
    PROVE  \A i \in 1..n : i \in T
<1> DEFINE U == {i \in 1..n : i \notin T}
           R == {ss \in Nat \X Nat : ss[1] < ss[2]}
<1>1. SUFFICES ASSUME U # {} PROVE FALSE
  OBVIOUS
<1>2. PICK x \in U : \A y \in U : ~(<<y, x>> \in R)
  <2>1. IsWellFoundedOn(R, Nat)
    BY NatLessThanWellFounded, Zenon DEF OpToRel
  <2>2. U \subseteq Nat
    OBVIOUS
  <2> HIDE DEF R, U
  <2> QED
    BY <1>1, <2>1, <2>2, WFMin
<1>3. ASSUME NEW y \in U PROVE ~(y < x)
  <2>1. <<y, x>> \notin R /\ <<y, x>> \in Nat \X Nat
    BY <1>2
  <2> QED
    BY <2>1
<1>4. x \in 1..n /\ x \notin T /\ x > 1
  OBVIOUS
<1>5. x - 1 \in U
  BY <1>4
<1> QED
  BY <1>3, <1>4, <1>5

\* f is the function that FlattenSeq defines recursively over the batches ss.
Flattens(f, ss) ==
    f = [i \in 1..Len(ss) |-> IF i = 1 THEN ss[i] ELSE f[i-1] \o ss[i]]

\* FlattenSeq takes the last value of that function.
LEMMA FlattenUnfolds ==
    ASSUME NEW ss, Len(ss) # 0
    PROVE  FlattenSeq(ss) = (CHOOSE f : Flattens(f, ss))[Len(ss)]
BY Zenon DEF FlattenSeq, Flattens

\* The recursive function of FlattenSeq exists: its values are sequences, the
\* first is the first batch, each other one adds its batch to the one before.
LEMMA FlattenFunction ==
    ASSUME NEW S, NEW ss \in Seq(Seq(S)), ss # <<>>
    PROVE  \E f \in [1..Len(ss) -> Seq(S)] :
              /\ f[1] = ss[1]
              /\ \A i \in 1..Len(ss) : i > 1 => f[i] = f[i-1] \o ss[i]
              /\ FlattenSeq(ss) = f[Len(ss)]
<1> DEFINE n == Len(ss)
           Good(g, k) == /\ g \in [1..k -> Seq(S)] /\ g[1] = ss[1]
                         /\ \A i \in 1..k : i > 1 => g[i] = g[i-1] \o ss[i]
           T == {k \in 1..n : \E g : Good(g, k)}
<1>1. n \in Nat /\ n > 0 /\ \A i \in 1..n : ss[i] \in Seq(S)
  BY EmptySeq, LenProperties
<1>2. 1 \in T
  <2> DEFINE g == [i \in 1..1 |-> ss[1]]
  <2>1. Good(g, 1)
    BY <1>1
  <2>2. 1 \in 1..n
    BY <1>1
  <2> HIDE DEF g, Good
  <2> QED
    BY <2>1, <2>2
<1>3. ASSUME NEW k \in 1..n, k > 1, k - 1 \in T
      PROVE  k \in T
  <2>1. PICK f : Good(f, k - 1)
    BY <1>3
  <2> DEFINE g == [i \in 1..k |-> IF i = k THEN f[k-1] \o ss[k] ELSE f[i]]
  <2>2. k \in Nat /\ k - 1 \in 1..(k-1)
    BY <1>1, <1>3
  <2>3. f[k-1] \o ss[k] \in Seq(S)
    BY <1>1, <2>1, <2>2, ConcatProperties
  <2>4. g \in [1..k -> Seq(S)]
    <3> SUFFICES ASSUME NEW i \in 1..k PROVE g[i] \in Seq(S)
      OBVIOUS
    <3>1. CASE i = k
      BY <2>3, <3>1
    <3>2. CASE i # k
      <4>1. i \in 1..(k-1)
        BY <2>2, <3>2
      <4> QED
        BY <2>1, <3>2, <4>1
    <3> QED
      BY <3>1, <3>2
  <2>5. g[1] = ss[1]
    <3>1. 1 \in 1..k /\ 1 # k
      BY <1>3, <2>2
    <3> QED
      BY <2>1, <3>1
  <2>6. ASSUME NEW i \in 1..k, i > 1 PROVE g[i] = g[i-1] \o ss[i]
    <3>1. i - 1 \in 1..k /\ i - 1 # k /\ i - 1 \in 1..(k-1)
      BY <2>2, <2>6
    <3>2. g[i-1] = f[i-1]
      BY <3>1
    <3>3. CASE i = k
      BY <3>2, <3>3
    <3>4. CASE i # k
      <4>1. i \in 1..(k-1)
        BY <2>2, <3>4
      <4>2. g[i] = f[i]
        BY <3>4
      <4> QED
        BY <2>1, <2>6, <3>2, <4>1, <4>2
    <3> QED
      BY <3>3, <3>4
  <2>7. Good(g, k)
    BY <2>4, <2>5, <2>6
  <2> HIDE DEF g, Good
  <2> QED
    BY <2>7
<1>4. n \in T
  <2> HIDE DEF T, n
  <2>1. \A i \in 1..n : i \in T
    BY <1>1, <1>2, <1>3, PositionInduction
  <2> QED
    BY <1>1, <2>1
<1>5. PICK g : Good(g, n)
  BY <1>4
<1>6. Flattens(g, ss)
  <2>1. \A i \in 1..n : g[i] = IF i = 1 THEN ss[i] ELSE g[i-1] \o ss[i]
    <3> SUFFICES ASSUME NEW i \in 1..n
                 PROVE  g[i] = IF i = 1 THEN ss[i] ELSE g[i-1] \o ss[i]
      OBVIOUS
    <3>1. i # 1 => i > 1
      BY <1>1
    <3> QED
      BY <1>5, <3>1
  <2>2. g = [i \in 1..n |-> g[i]]
    BY <1>5
  <2> QED
    BY <2>1, <2>2 DEF Flattens
<1> DEFINE f == CHOOSE h : Flattens(h, ss)
<1>7. Flattens(f, ss)
  BY <1>6
<1>8. f = g
  <2> DEFINE V == {i \in 1..n : f[i] = g[i]}
  <2>0. \A i \in 1..n : f[i] = IF i = 1 THEN ss[i] ELSE f[i-1] \o ss[i]
    <3> HIDE DEF f
    <3> QED
      BY <1>7 DEF Flattens
  <2>1. 1 \in V
    <3> HIDE DEF f
    <3> QED
      BY <1>1, <1>5, <2>0
  <2>2. ASSUME NEW i \in 1..n, i > 1, i - 1 \in V PROVE i \in V
    <3>1. g[i] = g[i-1] \o ss[i]
      BY <1>5, <2>2
    <3>2. f[i] = f[i-1] \o ss[i]
      <4>1. i # 1
        BY <2>2
      <4> HIDE DEF f, n
      <4> QED
        BY <2>0, <4>1
    <3> HIDE DEF f
    <3> QED
      BY <2>2, <3>1, <3>2
  <2>3. \A i \in 1..n : i \in V
    <3> HIDE DEF V, n
    <3> QED
      BY <1>1, <2>1, <2>2, PositionInduction
  <2>4. f = [i \in 1..n |-> f[i]]
    <3> HIDE DEF f
    <3> QED
      BY <1>7 DEF Flattens
  <2>5. g = [i \in 1..n |-> g[i]]
    BY <1>5
  <2> HIDE DEF f
  <2> QED
    BY <2>3, <2>4, <2>5
<1>9. FlattenSeq(ss) = f[n]
  BY <1>1, FlattenUnfolds
<1> HIDE DEF f
<1> QED
  BY <1>5, <1>8, <1>9

\* The batches put end to end are a sequence of receipts.
LEMMA FlattenType ==
    ASSUME NEW S, NEW ss \in Seq(Seq(S))
    PROVE  FlattenSeq(ss) \in Seq(S)
<1>1. CASE ss = <<>>
  <2>1. Len(ss) = 0 /\ ss \in Seq(S)
    BY <1>1, EmptySeq
  <2> QED
    BY <2>1, Zenon DEF FlattenSeq
<1>2. CASE ss # <<>>
  <2>1. Len(ss) \in 1..Len(ss)
    BY <1>2, EmptySeq
  <2>2. PICK f \in [1..Len(ss) -> Seq(S)] : FlattenSeq(ss) = f[Len(ss)]
    BY <1>2, FlattenFunction
  <2> QED
    BY <2>1, <2>2
<1> QED
  BY <1>1, <1>2

\* No batches put end to end are no receipts.
LEMMA FlattenEmpty == FlattenSeq(<<>>) = <<>>
<1>1. Len(<<>>) = 0
  BY EmptySeq
<1> QED
  BY <1>1, Zenon DEF FlattenSeq

\* send_batch puts the receipts of its batch behind those of the batches queued.
LEMMA FlattenAppend ==
    ASSUME NEW S, NEW ss \in Seq(Seq(S)), NEW s \in Seq(S)
    PROVE  FlattenSeq(Append(ss, s)) = FlattenSeq(ss) \o s
<1> DEFINE tt == Append(ss, s)
           n == Len(ss)
<1>1. /\ tt \in Seq(Seq(S)) /\ tt # <<>> /\ Len(tt) = n + 1
      /\ \A i \in 1..n : tt[i] = ss[i]
      /\ tt[n+1] = s
  BY AppendProperties
<1>2. n \in Nat
  BY LenProperties
<1> HIDE DEF tt
<1>3. PICK g \in [1..Len(tt) -> Seq(S)] :
        /\ g[1] = tt[1]
        /\ \A i \in 1..Len(tt) : i > 1 => g[i] = g[i-1] \o tt[i]
        /\ FlattenSeq(tt) = g[Len(tt)]
  BY <1>1, FlattenFunction
<1>4. CASE ss = <<>>
  <2>1. n = 0
    BY <1>4, EmptySeq
  <2>2. FlattenSeq(tt) = s
    BY <1>1, <1>3, <2>1
  <2>3. FlattenSeq(ss) = <<>>
    BY <1>4, FlattenEmpty
  <2>4. <<>> \o s = s
    BY ConcatEmptySeq
  <2> QED
    BY <2>2, <2>3, <2>4 DEF tt
<1>5. CASE ss # <<>>
  <2>1. PICK f \in [1..n -> Seq(S)] :
          /\ f[1] = ss[1]
          /\ \A i \in 1..n : i > 1 => f[i] = f[i-1] \o ss[i]
          /\ FlattenSeq(ss) = f[n]
    BY <1>5, FlattenFunction
  <2>2. n > 0
    BY <1>5, EmptySeq
  <2> DEFINE T == {i \in 1..n : f[i] = g[i]}
  <2>3. 1 \in T
    BY <1>1, <1>2, <1>3, <2>1, <2>2
  <2>4. ASSUME NEW i \in 1..n, i > 1, i - 1 \in T PROVE i \in T
    <3>1. i \in 1..Len(tt)
      BY <1>1, <1>2
    <3>2. g[i] = g[i-1] \o ss[i]
      BY <1>1, <1>3, <2>4, <3>1
    <3>3. f[i] = f[i-1] \o ss[i]
      BY <2>1, <2>4
    <3> QED
      BY <2>4, <3>2, <3>3
  <2>5. \A i \in 1..n : i \in T
    <3> HIDE DEF T, n
    <3> QED
      BY <1>2, <2>3, <2>4, PositionInduction
  <2>6. f[n] = g[n]
    BY <1>2, <2>2, <2>5
  <2>7. n + 1 \in 1..Len(tt) /\ n + 1 > 1 /\ (n + 1) - 1 = n
    BY <1>1, <1>2, <2>2
  <2>8. g[n+1] = g[(n+1)-1] \o tt[n+1]
    BY <1>3, <2>7
  <2>9. g[n+1] = g[n] \o s
    BY <1>1, <2>7, <2>8
  <2> QED
    BY <1>1, <1>3, <2>1, <2>6, <2>9 DEF tt
<1> QED
  BY <1>4, <1>5

\* The relay handler takes the receipts of its batch from the front.
LEMMA FlattenTail ==
    ASSUME NEW S, NEW ss \in Seq(Seq(S)), ss # <<>>
    PROVE  FlattenSeq(ss) = Head(ss) \o FlattenSeq(Tail(ss))
<1> DEFINE tt == Tail(ss)
           n == Len(ss)
           h == ss[1]
<1>1. /\ tt \in Seq(Seq(S)) /\ Len(tt) = n - 1
      /\ \A i \in 1..Len(tt) : tt[i] = ss[i+1]
  BY HeadTailProperties
<1>2. n \in Nat /\ n > 0
  BY EmptySeq, LenProperties
<1>3. Head(ss) = h /\ h \in Seq(S)
  BY <1>2, ElementOfSeq
<1> HIDE DEF tt, h
<1>4. PICK f \in [1..n -> Seq(S)] :
        /\ f[1] = ss[1]
        /\ \A i \in 1..n : i > 1 => f[i] = f[i-1] \o ss[i]
        /\ FlattenSeq(ss) = f[n]
  BY FlattenFunction
<1>5. f[1] = h
  BY <1>4 DEF h
<1>6. CASE tt = <<>>
  <2>1. n = 1
    BY <1>1, <1>2, <1>6, EmptySeq
  <2>2. h \o <<>> = h
    BY <1>3, ConcatEmptySeq
  <2> QED
    BY <1>3, <1>4, <1>5, <1>6, <2>1, <2>2, FlattenEmpty DEF tt
<1>7. CASE tt # <<>>
  <2>1. PICK g \in [1..Len(tt) -> Seq(S)] :
          /\ g[1] = tt[1]
          /\ \A i \in 1..Len(tt) : i > 1 => g[i] = g[i-1] \o tt[i]
          /\ FlattenSeq(tt) = g[Len(tt)]
    BY <1>1, <1>7, FlattenFunction
  <2> DEFINE m == Len(tt)
  <2>2. m \in Nat /\ m > 0 /\ n = m + 1
    BY <1>1, <1>2, <1>7, EmptySeq
  <2> DEFINE T == {i \in 1..m : f[i+1] = h \o g[i]}
  <2>3. 1 \in T
    <3>1. 2 \in 1..n /\ 1 \in 1..m /\ 1 + 1 = 2 /\ 2 - 1 = 1 /\ 2 > 1
      BY <2>2
    <3>2. f[2] = f[1] \o ss[2]
      <4>1. f[2] = f[2-1] \o ss[2]
        BY <1>4, <3>1
      <4> QED
        BY <3>1, <4>1
    <3>3. tt[1] = ss[2]
      BY <1>1, <3>1
    <3> QED
      BY <1>5, <2>1, <3>1, <3>2, <3>3
  <2>4. ASSUME NEW i \in 1..m, i > 1, i - 1 \in T PROVE i \in T
    <3>1. i + 1 \in 1..n /\ i + 1 > 1 /\ (i + 1) - 1 = i /\ (i - 1) + 1 = i /\ i - 1 \in 1..m
      BY <2>2, <2>4
    <3>2. f[i+1] = f[i] \o tt[i]
      <4>1. f[i+1] = f[(i+1)-1] \o ss[i+1]
        BY <1>4, <3>1
      <4>2. tt[i] = ss[i+1]
        BY <1>1
      <4> QED
        BY <3>1, <4>1, <4>2
    <3>3. f[i] = h \o g[i-1]
      BY <2>4, <3>1
    <3>4. g[i] = g[i-1] \o tt[i]
      BY <2>1, <2>4
    <3>5. g[i-1] \in Seq(S) /\ tt[i] \in Seq(S)
      BY <1>1, <2>1, <3>1, ElementOfSeq
    <3>6. (h \o g[i-1]) \o tt[i] = h \o (g[i-1] \o tt[i])
      <4> DEFINE a == g[i-1]
                 b == tt[i]
      <4>1. h \in Seq(S) /\ a \in Seq(S) /\ b \in Seq(S)
        BY <1>3, <3>5
      <4> HIDE DEF a, b
      <4>2. (h \o a) \o b = h \o (a \o b)
        BY <4>1
      <4> QED
        BY <4>2 DEF a, b
    <3> QED
      BY <3>2, <3>3, <3>4, <3>6
  <2>5. \A i \in 1..m : i \in T
    <3> HIDE DEF T, m
    <3> QED
      BY <2>2, <2>3, <2>4, PositionInduction
  <2>6. f[m+1] = h \o g[m]
    BY <2>2, <2>5
  <2> QED
    BY <1>3, <1>4, <2>1, <2>2, <2>6 DEF tt
<1> QED
  BY <1>6, <1>7

-----------------------------------------------------------------------------
(* Types and sizes.                                                        *)

\* BatcherInv holds initially.
LEMMA BatcherInvInit == Init => BatcherInv
<1>1. ASSUME Init PROVE BatcherInv
  <2>1. \A S : <<>> \in Seq(S) /\ Len(<<>>) = 0
    BY EmptySeq
  <2> QED
    BY <1>1, <2>1, BatcherAssumption DEF Init, BatcherInv, TypeOK, BatchSizes
<1> QED
  BY <1>1

\* BatcherInv is inductive.
LEMMA BatcherInvStep == BatcherInv /\ Step => BatcherInv'
<1> SUFFICES ASSUME BatcherInv, Step PROVE BatcherInv'
  OBVIOUS
<1>1. /\ TypeOK /\ BatchSizes /\ (batcher = "recv" => Len(buffer) < MaxBatchSize)
      /\ Len(buffer) \in Nat /\ Len(items) \in Nat /\ Len(output) \in Nat
  BY LenProperties DEF BatcherInv, TypeOK
<1>2. MaxBatchSize \in Nat /\ MaxBatchSize >= 2 /\ QueueSize \in Nat /\ ChannelSize \in Nat
      /\ MaxReceipts \in Nat
  BY BatcherAssumption
<1>3. \A S : <<>> \in Seq(S) /\ Len(<<>>) = 0
  BY EmptySeq
<1> USE DEF TypeOK, BatchSizes, BatcherInv
<1>4. CASE SendReceipt
  <2>1. sent + 1 \in Receipts /\ sent + 1 \in 0..MaxReceipts
    BY <1>1, <1>2, <1>4 DEF SendReceipt, Receipts
  <2>2. Append(items, sent + 1) \in Seq(Receipts) /\ Len(Append(items, sent + 1)) = Len(items) + 1
    BY <1>1, <2>1, AppendProperties
  <2> QED
    BY <1>1, <1>2, <1>4, <2>1, <2>2 DEF SendReceipt
<1>5. CASE CloseItems
  BY <1>1, <1>5 DEF CloseItems
<1>6. CASE RecvItem
  <2>1. Head(items) \in Receipts /\ Tail(items) \in Seq(Receipts) /\ Len(Tail(items)) = Len(items) - 1
    BY <1>1, <1>6, HeadTailProperties DEF RecvItem
  <2>2. /\ Append(buffer, Head(items)) \in Seq(Receipts)
        /\ Len(Append(buffer, Head(items))) = Len(buffer) + 1
    BY <1>1, <2>1, AppendProperties
  <2>3. buffer = <<>> => Len(buffer) = 0
    BY <1>3
  <2>4. TypeOK'
    BY <1>1, <1>2, <1>6, <2>1, <2>2 DEF RecvItem
  <2>5. batcher' \in {"recv", "send"} /\ Len(buffer') = Len(buffer) + 1 /\ output' = output
    BY <1>6, <2>2 DEF RecvItem
  <2>6. Len(buffer') \in 1..MaxBatchSize
    BY <1>1, <1>2, <1>6, <2>5 DEF RecvItem
  <2>7. batcher' = "recv" => Len(buffer') < MaxBatchSize
    BY <1>1, <1>2, <1>6, <2>3, <2>5 DEF RecvItem
  <2> QED
    BY <1>1, <2>4, <2>5, <2>6, <2>7
<1>7. CASE BatchTimeout
  <2>1. Len(buffer) \in 1..MaxBatchSize
    BY <1>1, <1>2, <1>7, EmptySeq DEF BatchTimeout
  <2> QED
    BY <1>1, <1>7, <2>1 DEF BatchTimeout
<1>8. CASE ItemsClosed
  BY <1>1, <1>2, <1>3, <1>8 DEF ItemsClosed
<1>9. CASE SendBatch
  <2>1. /\ Append(output, buffer) \in Seq(Seq(Receipts))
        /\ Len(Append(output, buffer)) = Len(output) + 1
        /\ \A i \in 1..Len(output) : Append(output, buffer)[i] = output[i]
        /\ Append(output, buffer)[Len(output) + 1] = buffer
        /\ DOMAIN Append(output, buffer) = 1..(Len(output) + 1) /\ DOMAIN output = 1..Len(output)
    BY <1>1, AppendProperties, LenProperties
  <2>2. TypeOK'
    BY <1>1, <1>2, <1>3, <1>9, <2>1 DEF SendBatch
  <2>3. Len(buffer') = 0 /\ batcher' = "recv" /\ output' = Append(output, buffer)
    BY <1>3, <1>9 DEF SendBatch
  <2>4. ASSUME NEW i \in DOMAIN output' PROVE Len(output'[i]) \in 1..MaxBatchSize
    <3>1. Len(buffer) \in 1..MaxBatchSize
      BY <1>1, <1>9 DEF SendBatch
    <3>2. i \in 1..Len(output) \/ i = Len(output) + 1
      BY <1>1, <2>1, <2>3
    <3> QED
      BY <1>1, <2>1, <2>3, <3>1, <3>2
  <2> QED
    BY <1>2, <2>2, <2>3, <2>4
<1>10. CASE TakeBatch
  <2>1. /\ Head(output) \in Seq(Receipts) /\ Tail(output) \in Seq(Seq(Receipts))
        /\ Len(Tail(output)) = Len(output) - 1
        /\ \A i \in 1..Len(Tail(output)) : Tail(output)[i] = output[i+1]
    BY <1>1, <1>10, HeadTailProperties DEF TakeBatch
  <2>2. DOMAIN Tail(output) = 1..Len(Tail(output)) /\ DOMAIN output = 1..Len(output)
    BY <1>1, <2>1, LenProperties
  <2>3. TypeOK'
    BY <1>1, <1>2, <1>10, <2>1 DEF TakeBatch
  <2>4. ASSUME NEW i \in DOMAIN output' PROVE Len(output'[i]) \in 1..MaxBatchSize
    <3>1. i \in 1..Len(Tail(output)) /\ i + 1 \in 1..Len(output) /\ output' = Tail(output)
      BY <1>1, <1>10, <2>1, <2>2 DEF TakeBatch
    <3> QED
      BY <1>1, <2>1, <2>2, <3>1
  <2> QED
    BY <1>1, <1>10, <2>3, <2>4 DEF TakeBatch
<1>11. CASE BatchReceived \/ BatchFailed
  <2>1. returned \o inflight \in Seq(Receipts)
    BY <1>1, ConcatProperties
  <2>2. Range(inflight) \subseteq Receipts
    BY <1>1, LenProperties DEF Range
  <2>3. failed' \in SUBSET Receipts
    BY <1>1, <1>11, <2>2 DEF BatchReceived, BatchFailed
  <2> QED
    BY <1>1, <1>3, <1>11, <2>1, <2>3 DEF BatchReceived, BatchFailed
<1>12. CASE Ended \/ UNCHANGED vars
  BY <1>1, <1>12 DEF Ended, vars
<1> QED
  BY <1>4, <1>5, <1>6, <1>7, <1>8, <1>9, <1>10, <1>11, <1>12 DEF Step, Next

-----------------------------------------------------------------------------
(* Order.                                                                  *)

\* The next receipt sent extends the receipts 1, 2, ... sent.
LEMMA SentExtends ==
    ASSUME NEW n \in Nat
    PROVE  [i \in 1..n |-> i] \o <<n + 1>> = [i \in 1..(n+1) |-> i]
OBVIOUS

\* A receipt sent is added behind everything held.
LEMMA AppendHeld ==
    ASSUME NEW S, NEW p \in Seq(S), NEW t \in Seq(S), NEW x \in S
    PROVE  p \o Append(t, x) = (p \o t) \o <<x>>
OBVIOUS

\* Every step but the end of the service adds to what is held the receipt it
\* sends, if any, and changes nothing else.
LEMMA HeldStep ==
    ASSUME TypeOK, Step, batcher' # "done", batcher # "done"
    PROVE  \/ Held' = Held /\ sent' = sent
           \/ Held' = Held \o <<sent + 1>> /\ sent' = sent + 1
<1> DEFINE S == Receipts
<1>1. /\ items \in Seq(S) /\ buffer \in Seq(S) /\ output \in Seq(Seq(S))
      /\ inflight \in Seq(S) /\ returned \in Seq(S) /\ sent \in Nat
  BY BatcherAssumption DEF TypeOK
<1>2. /\ FlattenSeq(output) \in Seq(S)
      /\ returned \o inflight \in Seq(S)
      /\ returned \o inflight \o FlattenSeq(output) \in Seq(S)
      /\ returned \o inflight \o FlattenSeq(output) \o buffer \in Seq(S)
  <2>1. FlattenSeq(output) \in Seq(S)
    BY <1>1, FlattenType
  <2> QED
    BY <1>1, <2>1, ConcatProperties
<1>3. CASE SendReceipt
  <2>1. sent + 1 \in S
    BY <1>1, <1>3, BatcherAssumption DEF SendReceipt, Receipts
  <2> DEFINE p == returned \o inflight \o FlattenSeq(output) \o buffer
  <2>2. p \o Append(items, sent + 1) = (p \o items) \o <<sent + 1>>
    <3> HIDE DEF p, S
    <3> QED
      BY <1>1, <1>2, <2>1, AppendHeld DEF p
  <2>3. Held' = p \o Append(items, sent + 1) /\ Held = p \o items
    BY <1>3 DEF SendReceipt, Held
  <2> HIDE DEF p
  <2> QED
    BY <1>3, <2>2, <2>3 DEF SendReceipt
<1>4. CASE RecvItem
  <2> DEFINE p == returned \o inflight \o FlattenSeq(output)
  <2>1. (p \o Append(buffer, Head(items))) \o Tail(items) = (p \o buffer) \o items
    <3>1. p \in Seq(S) /\ buffer \in Seq(S) /\ items \in Seq(S) /\ items # <<>>
      BY <1>1, <1>2, <1>4 DEF RecvItem
    <3> HIDE DEF p, S
    <3>2. Head(items) \in S /\ Tail(items) \in Seq(S) /\ items = <<Head(items)>> \o Tail(items)
      BY <3>1
    <3>3. PICK x \in S, u \in Seq(S) : x = Head(items) /\ u = Tail(items) /\ items = <<x>> \o u
      BY <3>2
    <3>4. p \o Append(buffer, x) = (p \o buffer) \o <<x>>
      BY <3>1
    <3> DEFINE q == p \o buffer
               y == <<x>>
    <3>5. q \in Seq(S) /\ y \in Seq(S)
      BY <3>1
    <3> HIDE DEF q, y
    <3>6. (q \o y) \o u = q \o (y \o u)
      BY <3>5
    <3> QED
      BY <3>3, <3>4, <3>6 DEF q, y
  <2>2. /\ Held' = (p \o Append(buffer, Head(items))) \o Tail(items)
        /\ Held = (p \o buffer) \o items
    BY <1>4 DEF RecvItem, Held
  <2> HIDE DEF p
  <2> QED
    BY <1>4, <2>1, <2>2 DEF RecvItem
<1>5. CASE SendBatch
  <2> DEFINE c == returned \o inflight
             o == FlattenSeq(output)
  <2>1. c \in Seq(S) /\ o \in Seq(S) /\ c \o o \in Seq(S)
    BY <1>2
  <2>2. FlattenSeq(Append(output, buffer)) = o \o buffer
    BY <1>1, FlattenAppend
  <2>3. /\ Held = ((c \o o) \o buffer) \o items
        /\ Held' = ((c \o FlattenSeq(Append(output, buffer))) \o <<>>) \o items
    BY <1>5 DEF SendBatch, Held
  <2> HIDE DEF c, o, S
  <2>4. c \o (o \o buffer) = (c \o o) \o buffer
    <3>1. c \in Seq(S) /\ o \in Seq(S) /\ buffer \in Seq(S)
      BY <1>1, <2>1
    <3> QED
      BY <3>1
  <2>5. (c \o o) \o buffer \in Seq(S)
    BY <1>1, <2>1, ConcatProperties
  <2>6. ((c \o o) \o buffer) \o <<>> = (c \o o) \o buffer
    BY <2>5, ConcatEmptySeq
  <2> QED
    BY <1>5, <2>2, <2>3, <2>4, <2>6 DEF SendBatch
<1>6. CASE TakeBatch
  <2> DEFINE h == Head(output)
             o == FlattenSeq(Tail(output))
  <2>1. output # <<>> /\ inflight = <<>> /\ h \in Seq(S) /\ Tail(output) \in Seq(Seq(S))
    BY <1>1, <1>6, HeadTailProperties DEF TakeBatch
  <2>2. o \in Seq(S)
    BY <2>1, FlattenType
  <2>3. FlattenSeq(output) = h \o o
    BY <1>1, <2>1, FlattenTail
  <2>4. returned \o inflight = returned
    BY <1>1, <2>1, ConcatEmptySeq
  <2>5. /\ Held = (((returned \o inflight) \o FlattenSeq(output)) \o buffer) \o items
        /\ Held' = (((returned \o h) \o o) \o buffer) \o items
    BY <1>6 DEF TakeBatch, Held
  <2> HIDE DEF h, o, S
  <2>6. returned \o (h \o o) = (returned \o h) \o o
    <3>1. returned \in Seq(S) /\ h \in Seq(S) /\ o \in Seq(S)
      BY <1>1, <2>1, <2>2
    <3> QED
      BY <3>1
  <2> QED
    BY <1>6, <2>3, <2>4, <2>5, <2>6 DEF TakeBatch
<1>7. CASE BatchReceived \/ BatchFailed
  <2> DEFINE c == returned \o inflight
  <2>1. c \o <<>> = c
    <3> HIDE DEF c
    <3> QED
      BY <1>2, ConcatEmptySeq DEF c
  <2>2. /\ Held = ((c \o FlattenSeq(output)) \o buffer) \o items
        /\ Held' = (((c \o <<>>) \o FlattenSeq(output)) \o buffer) \o items
    BY <1>7 DEF BatchReceived, BatchFailed, Held
  <2> HIDE DEF c
  <2> QED
    BY <1>7, <2>1, <2>2 DEF BatchReceived, BatchFailed
<1>8. CASE CloseItems \/ BatchTimeout \/ Ended \/ UNCHANGED vars
  BY <1>8 DEF CloseItems, BatchTimeout, Ended, vars, Held
<1>9. ~ItemsClosed
  BY DEF ItemsClosed
<1> QED
  BY <1>3, <1>4, <1>5, <1>6, <1>7, <1>8, <1>9 DEF Step, Next

\* The service does not start again once it has ended.
LEMMA EndedStays == Step /\ batcher = "done" => batcher' = "done"
BY DEF Step, Next, SendReceipt, CloseItems, RecvItem, BatchTimeout, ItemsClosed,
       SendBatch, TakeBatch, BatchReceived, BatchFailed, Ended, vars

\* The receipts held stay those sent, in order.
LEMMA HeldInOrderStep ==
    TypeOK /\ NothingLostOrReordered /\ Step => NothingLostOrReordered'
<1> SUFFICES ASSUME TypeOK, NothingLostOrReordered, Step, batcher' # "done"
             PROVE  Held' = [i \in 1..sent' |-> i]
  BY DEF NothingLostOrReordered
<1>1. batcher # "done"
  BY EndedStays
<1>2. Held = [i \in 1..sent |-> i] /\ sent \in Nat
  BY <1>1, BatcherAssumption DEF NothingLostOrReordered, TypeOK
<1>3. CASE Held' = Held /\ sent' = sent
  BY <1>2, <1>3
<1>4. CASE Held' = Held \o <<sent + 1>> /\ sent' = sent + 1
  BY <1>2, <1>4, SentExtends
<1> QED
  BY <1>1, <1>3, <1>4, HeldStep

-----------------------------------------------------------------------------
(* The theorems.                                                           *)

\* BatcherInv holds in every state of the clearing service.
THEOREM BatcherInvariance == Spec => []BatcherInv
<1>1. Init => BatcherInv
  BY BatcherInvInit
<1>2. BatcherInv /\ [Next]_vars => BatcherInv'
  BY BatcherInvStep DEF Step
<1> QED
  BY <1>1, <1>2, PTL DEF Spec

\* The two channels of the clearing service never hold more than their capacity,
\* and every variable keeps its type.
THEOREM BatcherTypes == Spec => []TypeOK
<1>1. BatcherInv => TypeOK
  BY DEF BatcherInv
<1> QED
  BY <1>1, BatcherInvariance, PTL

\* The assertions of send_batch hold: whatever the batch size and however timeouts
\* and arrivals interleave, a batch is never empty and never above MAX_BATCH_SIZE.
THEOREM BatchesSized == Spec => []BatchSizes
<1>1. BatcherInv => BatchSizes
  BY DEF BatcherInv
<1> QED
  BY <1>1, BatcherInvariance, PTL

\* While the clearing service runs, the receipts in the channels, the buffer and the
\* call to the relay and those whose call has returned, with or without an error,
\* are those the webhook handlers sent, each once and in the order sent.
THEOREM ReceiptsInOrder == Spec => []NothingLostOrReordered
<1>1. Init => NothingLostOrReordered
  <2> SUFFICES ASSUME Init PROVE Held = [i \in 1..sent |-> i]
    BY DEF NothingLostOrReordered
  <2>1. Held = <<>> \o <<>> \o FlattenSeq(<<>>) \o <<>> \o <<>>
    BY DEF Init, Held
  <2>2. <<>> \o <<>> = <<>>
    OBVIOUS
  <2>3. Held = <<>>
    BY <2>1, <2>2, FlattenEmpty
  <2>4. sent = 0
    BY DEF Init
  <2> QED
    BY <2>3, <2>4
<1>2. BatcherInv => TypeOK
  BY DEF BatcherInv
<1>3. TypeOK /\ NothingLostOrReordered /\ [Next]_vars => NothingLostOrReordered'
  BY HeldInOrderStep DEF Step
<1> QED
  BY <1>1, <1>2, <1>3, BatcherInvariance, PTL DEF Spec
=============================================================================
