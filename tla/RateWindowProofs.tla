--------------------------- MODULE RateWindowProofs ---------------------------
(***************************************************************************)
(* Theorems about RateWindow, for every limit, window, factor, cap and     *)
(* number of ticks.  The arithmetic first, then the types, then the bound  *)
(* on what concurrent ticks reserve, then that on what reaches the server, *)
(* and last what a refund leaves in the log.                               *)
(***************************************************************************)
EXTENDS RateWindow, FiniteSetTheorems, TLAPS

-----------------------------------------------------------------------------
(* The arithmetic of rate-limit.ts. *)

LEMMA QuotientNat ==
  ASSUME NEW a \in Nat, NEW b \in Nat \ {0}
  PROVE  a \div b \in Nat
  OBVIOUS

LEMMA CeilingNat ==
  ASSUME NEW a \in Nat, NEW b \in Nat \ {0}
  PROVE  Ceiling(a, b) \in Nat /\ (a # 0 => Ceiling(a, b) # 0)
  BY DEF Ceiling

LEMMA ProductNat ==
  ASSUME NEW a \in Nat, NEW b \in Nat
  PROVE  a * b \in Nat /\ (a # 0 /\ b # 0 => a * b # 0)
  OBVIOUS

LEMMA LimitNat == EffectiveLimit \in Nat
  <1>1. MaxEmails * FactorNum \in Nat
    BY RateWindowAssumption, ProductNat
  <1>2. (MaxEmails * FactorNum) \div FactorDen \in Nat
    BY <1>1, QuotientNat, RateWindowAssumption
  <1> QED
    BY <1>2 DEF EffectiveLimit, Greater

LEMMA ShareNat == PerTickShare \in Nat /\ (EffectiveLimit # 0 => PerTickShare # 0)
  <1>1. Greater(1, TickInterval) \in Nat \ {0}
    BY RateWindowAssumption DEF Greater
  <1>2. /\ EffectiveLimit * Greater(1, TickInterval) \in Nat
        /\ EffectiveLimit # 0 => EffectiveLimit * Greater(1, TickInterval) # 0
    BY <1>1, LimitNat, ProductNat
  <1> QED
    BY <1>2, CeilingNat, RateWindowAssumption DEF PerTickShare

(* What batchSize promises whoever calls it, whatever the limit, the factor and the
   window: a batch never takes the count above the limit, never exceeds the first batch
   of an empty window, and is empty only when nothing is left. *)
THEOREM BatchWithinAllowance ==
  ASSUME NEW n \in Nat
  PROVE  /\ BatchSize(n) \in 0..MaxBatch
         /\ BatchSize(n) <= BatchCap
         /\ BatchSize(n) > 0 => n + BatchSize(n) <= EffectiveLimit
         /\ n < EffectiveLimit => BatchSize(n) > 0
  <1>1. RemainingAllowance(n) \in Nat /\ RemainingAllowance(0) \in Nat
    BY LimitNat DEF RemainingAllowance, Greater
  <1>2. RemainingAllowance(n) <= RemainingAllowance(0)
    BY LimitNat DEF RemainingAllowance, Greater
  <1>3. RemainingAllowance(n) > 0 <=> n < EffectiveLimit
    BY LimitNat DEF RemainingAllowance, Greater
  <1>4. RemainingAllowance(n) > 0 => n + RemainingAllowance(n) = EffectiveLimit
    BY LimitNat DEF RemainingAllowance, Greater
  <1>5. Lesser(BatchCap, PerTickShare) \in Nat /\ Lesser(BatchCap, PerTickShare) <= BatchCap
    BY ShareNat, RateWindowAssumption DEF Lesser
  <1>6. EffectiveLimit # 0 => Lesser(BatchCap, PerTickShare) # 0
    BY ShareNat, RateWindowAssumption DEF Lesser
  <1> DEFINE cut == Lesser(BatchCap, PerTickShare)
             left == RemainingAllowance(n)
             whole == RemainingAllowance(0)
  <1>7. /\ BatchSize(n) = IF left <= 0 THEN 0 ELSE Lesser(left, cut)
        /\ MaxBatch = IF whole <= 0 THEN 0 ELSE Lesser(whole, cut)
    BY DEF BatchSize, MaxBatch
  <1>8. n < EffectiveLimit => EffectiveLimit # 0
    BY LimitNat
  <1>9. BatchCap \in Nat
    BY RateWindowAssumption
  <1> HIDE DEF cut, left, whole
  <1>10. /\ left \in Nat /\ whole \in Nat /\ left <= whole /\ cut \in Nat /\ cut <= BatchCap
         /\ left > 0 <=> n < EffectiveLimit
         /\ left > 0 => n + left = EffectiveLimit
         /\ n < EffectiveLimit => cut # 0
    BY <1>1, <1>2, <1>3, <1>4, <1>5, <1>6, <1>8 DEF cut, left, whole
  <1> QED
    BY <1>7, <1>9, <1>10, LimitNat DEF Lesser

LEMMA MaxBatchNat == MaxBatch \in Nat
  <1>1. BatchSize(0) \in 0..MaxBatch
    BY BatchWithinAllowance
  <1> QED
    BY <1>1, LimitNat, ShareNat, RateWindowAssumption
    DEF MaxBatch, BatchSize, RemainingAllowance, Lesser, Greater

-----------------------------------------------------------------------------
(* The log: each operation keeps a log a log, and does to the window what it should. *)

LEMMA WindowInAge == WindowSeconds \in Age /\ PruneAfter \in Age /\ 0 \in Age
                     /\ Horizon \in Nat /\ WindowSeconds # 0
  BY RateWindowAssumption DEF Age

LEMMA NoRowsAreRows == NoRows \in Rows
  BY WindowInAge DEF NoRows, Rows, Age

LEMMA LaterRows ==
  ASSUME NEW rows \in Rows
  PROVE  /\ OneUnitLater(rows) \in Rows
         /\ OneUnitLater(rows)[WindowSeconds] <= rows[WindowSeconds]
  BY WindowInAge DEF OneUnitLater, Rows, Age

LEMMA MoreRows ==
  ASSUME NEW rows \in Rows, NEW n \in Nat
  PROVE  /\ WithRows(rows, n) \in Rows
         /\ WithRows(rows, n)[WindowSeconds] = rows[WindowSeconds] + n
  BY WindowInAge DEF WithRows, Rows, Age

LEMMA FewerRows ==
  ASSUME NEW rows \in Rows, NEW a \in Age, NEW n \in Nat
  PROVE  /\ WithoutRows(rows, a, n) \in Rows
         /\ WithoutRows(rows, a, n)[WindowSeconds] <= rows[WindowSeconds]
  <1> DEFINE left == WithoutRows(rows, a, n)
  <1>1. \A s \in Age : left[s] = IF s <= a THEN rows[s] ELSE Greater(rows[a], rows[s] - n)
    BY DEF WithoutRows
  <1>2. \A s \in Age : rows[s] \in Nat /\ s \in Nat
    BY DEF Rows, Age
  <1>3. left \in [Age -> Nat]
    <2>1. \A s \in Age : (IF s <= a THEN rows[s] ELSE Greater(rows[a], rows[s] - n)) \in Nat
      BY <1>2 DEF Greater
    <2> QED
      BY <2>1 DEF WithoutRows
  <1>4. \A s, t \in Age : s <= t => rows[s] <= rows[t]
    BY DEF Rows
  <1>5. \A s, t \in Age : s <= t => left[s] <= left[t]
    <2> TAKE s \in Age, t \in Age
    <2> HAVE s <= t
    <2>1. CASE t <= a
      BY <2>1, <1>1, <1>2, <1>4
    <2>2. CASE a < t /\ s <= a
      BY <2>2, <1>1, <1>2, <1>4 DEF Greater
    <2>3. CASE a < s
      BY <2>3, <1>1, <1>2, <1>4 DEF Greater
    <2> QED
      BY <1>2, <2>1, <2>2, <2>3
  <1>6. left[WindowSeconds] <= rows[WindowSeconds]
    <2>1. CASE WindowSeconds <= a
      BY <2>1, <1>1, <1>2, WindowInAge
    <2>2. CASE a < WindowSeconds
      BY <2>2, <1>1, <1>2, <1>4, WindowInAge DEF Greater
    <2> QED
      BY <1>2, <2>1, <2>2, WindowInAge
  <1> HIDE DEF left
  <1>7. left \in Rows
    BY <1>3, <1>5 DEF Rows
  <1> QED
    BY <1>6, <1>7 DEF left

LEMMA PrunedRows ==
  ASSUME NEW rows \in Rows
  PROVE  /\ Pruned(rows, PruneAfter) \in Rows
         /\ Pruned(rows, PruneAfter)[WindowSeconds] = rows[WindowSeconds]
  BY WindowInAge, RateWindowAssumption DEF Pruned, Rows, Age, Lesser

-----------------------------------------------------------------------------
(* Types. *)

USE DEF Work, Break

LEMMA NewBatchIsBatch ==
  ASSUME NEW n \in 0..MaxBatch
  PROVE  NewBatch(n) \in Batch
  <1> DEFINE l == Lesser(Concurrency, n)
  <1>1. l \in 0..MaxBatch
    BY MaxBatchNat, RateWindowAssumption DEF Lesser
  <1> HIDE DEF l
  <1>2. NewBatch(n) = [size |-> n, queued |-> n, flying |-> 0, attempted |-> 0, lost |-> 0,
                       loops |-> l, age |-> 0, broken |-> FALSE, threw |-> FALSE]
    BY DEF NewBatch, l
  <1> QED
    BY <1>1, <1>2, MaxBatchNat, WindowInAge DEF Batch

LEMMA NoBatchIsBatch == NoBatch \in Batch
  BY MaxBatchNat, NewBatchIsBatch DEF NoBatch

LEMMA LandedBatch ==
  ASSUME NEW b \in Batch, b.flying > 0
  PROVE  [b EXCEPT !.flying = @ - 1] \in Batch
  BY MaxBatchNat DEF Batch

LEMMA BrokenBatch ==
  ASSUME NEW b \in Batch
  PROVE  [b EXCEPT !.broken = TRUE] \in Batch
  BY DEF Batch

(* Every variable keeps its type: in particular a batch is never larger than the first
   batch of an empty window, and never loses or invents a message. *)
THEOREM TypeCorrect == Spec => []TypeOK
  <1>1. Init => TypeOK
    BY NoRowsAreRows, MaxBatchNat, NoBatchIsBatch DEF Init, TypeOK, Phase
  <1>2. TypeOK /\ [Next]_vars => TypeOK'
    <2> SUFFICES ASSUME TypeOK, [Next]_vars PROVE TypeOK'
      OBVIOUS
    <2> USE MaxBatchNat
    <2>1. ASSUME NEW w \in Workers, Begin(w) PROVE TypeOK'
      BY <2>1 DEF Begin, Enter, TypeOK, Phase
    <2>2. ASSUME NEW w \in Workers, Count(w) PROVE TypeOK'
      <3>1. CountSentInWindow \in Nat
        BY WindowInAge DEF TypeOK, Rows, CountSentInWindow
      <3>2. BatchSize(CountSentInWindow) \in 0..MaxBatch
        BY <3>1, BatchWithinAllowance
      <3> QED
        BY <2>2, <3>2 DEF Count, Enter, TypeOK, Phase
    <2>3. ASSUME NEW w \in Workers, Claim(w) PROVE TypeOK'
      BY <2>3 DEF Claim, Enter, TypeOK, Phase
    <2>4. ASSUME NEW w \in Workers, Reserve(w) PROVE TypeOK'
      <3>1. logged' \in Rows
        BY <2>4, MoreRows DEF Reserve, TypeOK
      <3>2. NewBatch(quota[w]) \in Batch
        BY NewBatchIsBatch DEF TypeOK
      <3> QED
        BY <2>4, <3>1, <3>2 DEF Reserve, StartBatch, Enter, TypeOK, Phase
    <2>5. ASSUME NEW w \in Workers, StartSend(w) PROVE TypeOK'
      BY <2>5 DEF StartSend, TypeOK, Batch
    <2>6. ASSUME NEW w \in Workers, Attempted(w) PROVE TypeOK'
      <3>1. wire' \in Rows
        BY <2>6, MoreRows DEF Attempted, TypeOK
      <3>2. batch' \in [Workers -> Batch]
        BY <2>6 DEF Attempted, TypeOK, Batch
      <3> QED
        BY <2>6, <3>1, <3>2 DEF Attempted, TypeOK
    <2>7. ASSUME NEW w \in Workers, EndBatch(w) PROVE TypeOK'
      <3>1. logged' \in Rows
        <4>1. batch[w].age \in Age /\ Refunded(batch[w]) \in Nat
          BY DEF TypeOK, Batch, Refunded
        <4> QED
          BY <2>7, <4>1, FewerRows DEF EndBatch, TypeOK
      <3> QED
        BY <2>7, <3>1, NoBatchIsBatch DEF EndBatch, Enter, TypeOK, Phase
    <2>8. ASSUME NEW w \in Workers, Leave(w) PROVE TypeOK'
      BY <2>8, PrunedRows DEF Leave, Enter, TypeOK, Phase
    <2>9. ASSUME NEW w \in Workers, TransportFails(w) PROVE TypeOK'
      <3>1. batch' \in [Workers -> Batch]
        <4>1. batch[w] \in Batch /\ batch[w].flying > 0
          BY <2>9 DEF TransportFails, TypeOK
        <4>2. [[batch[w] EXCEPT !.flying = @ - 1] EXCEPT !.broken = TRUE] \in Batch
          BY <4>1, LandedBatch, BrokenBatch
        <4>3. batch' = [batch EXCEPT ![w] = [[batch[w] EXCEPT !.flying = @ - 1] EXCEPT !.broken = TRUE]]
          BY <2>9 DEF TransportFails
        <4> QED
          BY <4>2, <4>3 DEF TypeOK
      <3> QED
        BY <2>9, <3>1 DEF TransportFails, Fault, TypeOK
    <2>10. ASSUME NEW w \in Workers, ReplyLost(w) PROVE TypeOK'
      <3>1. wire' \in Rows
        BY <2>10, MoreRows DEF ReplyLost, TypeOK
      <3>2. batch' \in [Workers -> Batch]
        BY <2>10 DEF ReplyLost, TypeOK, Batch
      <3> QED
        BY <2>10, <3>1, <3>2 DEF ReplyLost, Fault, TypeOK
    <2>11. ASSUME NEW w \in Workers, RecordThrows(w) PROVE TypeOK'
      <3>1. wire' \in Rows
        <4>1. WithRows(wire, 1) \in Rows
          BY MoreRows DEF TypeOK
        <4> QED
          BY <2>11, <4>1 DEF RecordThrows, TypeOK
      <3>2. batch' \in [Workers -> Batch]
        BY <2>11 DEF RecordThrows, TypeOK, Batch
      <3> QED
        BY <2>11, <3>1, <3>2 DEF RecordThrows, Fault, TypeOK
    <2>12. ASSUME NEW w \in Workers, Crash(w) PROVE TypeOK'
      <3>1. wire' \in Rows
        BY <2>12, MoreRows DEF Crash, TypeOK, Batch
      <3> QED
        BY <2>12, <3>1, NoBatchIsBatch DEF Crash, Fault, Enter, TypeOK, Phase
    <2>13. CASE TestSend
      BY <2>13, MoreRows DEF TestSend, TypeOK
    <2>14. CASE Tick
      <3>1. \A v \in Workers : [batch[v] EXCEPT !.age = Lesser(Horizon, @ + 1)] \in Batch
        BY WindowInAge DEF TypeOK, Batch, Age, Lesser
      <3>2. batch' \in [Workers -> Batch]
        BY <2>14, <3>1 DEF Tick, TypeOK
      <3> QED
        BY <2>14, <3>2, LaterRows DEF Tick, TypeOK
    <2>15. CASE UNCHANGED vars
      BY <2>15 DEF vars, TypeOK
    <2> QED
      BY <2>1, <2>2, <2>3, <2>4, <2>5, <2>6, <2>7, <2>8, <2>9, <2>10, <2>11, <2>12,
         <2>13, <2>14, <2>15 DEF Next
  <1> QED
    BY <1>1, <1>2, PTL DEF Spec

-----------------------------------------------------------------------------
(* What the ticks were promised. *)

\* One token for every message a tick may still reserve.
Tokens(q) == {t \in Workers \X (1..MaxBatch) : t[2] <= q[t[1]]}

LEMMA TokensFinite ==
  ASSUME NEW q \in [Workers -> 0..MaxBatch]
  PROVE  IsFiniteSet(Tokens(q)) /\ Cardinality(Tokens(q)) \in Nat
  <1>1. IsFiniteSet(1..MaxBatch)
    BY FS_Interval, MaxBatchNat
  <1>2. IsFiniteSet(Workers \X (1..MaxBatch))
    BY <1>1, FS_Product, RateWindowAssumption
  <1>3. Tokens(q) \subseteq Workers \X (1..MaxBatch)
    BY DEF Tokens
  <1> QED
    BY <1>2, <1>3, FS_Subset, FS_CardinalityType

LEMMA FewerTokens ==
  ASSUME NEW q \in [Workers -> 0..MaxBatch], NEW p \in [Workers -> 0..MaxBatch],
         \A w \in Workers : p[w] <= q[w]
  PROVE  Cardinality(Tokens(p)) <= Cardinality(Tokens(q))
  <1>1. Tokens(p) \subseteq Tokens(q)
    BY MaxBatchNat DEF Tokens
  <1> QED
    BY <1>1, TokensFinite, FS_Subset

\* The tokens of one tick are as many as its quota.
LEMMA TokensOfOne ==
  ASSUME NEW q \in [Workers -> 0..MaxBatch], NEW w \in Workers
  PROVE  Cardinality(Tokens(q)) = Cardinality(Tokens([q EXCEPT ![w] = 0])) + q[w]
  <1> DEFINE others == Tokens([q EXCEPT ![w] = 0])
             own    == {w} \X (1..q[w])
  <1>1. [q EXCEPT ![w] = 0] \in [Workers -> 0..MaxBatch] /\ q[w] \in Nat
    BY MaxBatchNat
  <1>2. Tokens(q) = others \cup own
    BY MaxBatchNat DEF Tokens
  <1>3. others \cap own = {}
    BY MaxBatchNat DEF Tokens
  <1>4. IsFiniteSet(others) /\ Cardinality(others) \in Nat
    BY <1>1, TokensFinite
  <1>5. IsFiniteSet(own) /\ Cardinality(own) = q[w]
    <2>1. IsFiniteSet(1..q[w]) /\ Cardinality(1..q[w]) = q[w]
      BY <1>1, FS_Interval
    <2>2. IsFiniteSet({w}) /\ Cardinality({w}) = 1
      BY FS_Singleton
    <2> QED
      BY <1>1, <2>1, <2>2, FS_Product
  <1> HIDE DEF others, own
  <1>6. Cardinality(others \cup own) = Cardinality(others) + Cardinality(own)
    BY <1>3, <1>4, <1>5, FS_Union, FS_EmptySet, <1>1
  <1> QED
    BY <1>1, <1>2, <1>4, <1>5, <1>6 DEF others

\* The other ticks hold at most a full batch each.
LEMMA TokensOfOthers ==
  ASSUME NEW q \in [Workers -> 0..MaxBatch], NEW w \in Workers
  PROVE  Cardinality(Tokens([q EXCEPT ![w] = 0])) <= (Cardinality(Workers) - 1) * MaxBatch
  <1>1. IsFiniteSet(Workers \ {w}) /\ Cardinality(Workers \ {w}) = Cardinality(Workers) - 1
    BY FS_RemoveElement, RateWindowAssumption
  <1>2. IsFiniteSet(1..MaxBatch) /\ Cardinality(1..MaxBatch) = MaxBatch
    BY FS_Interval, MaxBatchNat
  <1>3. /\ IsFiniteSet((Workers \ {w}) \X (1..MaxBatch))
        /\ Cardinality((Workers \ {w}) \X (1..MaxBatch)) = (Cardinality(Workers) - 1) * MaxBatch
    <2>1. ASSUME NEW S, NEW T, IsFiniteSet(S), IsFiniteSet(T)
          PROVE  IsFiniteSet(S \X T) /\ Cardinality(S \X T) = Cardinality(S) * Cardinality(T)
      BY <2>1, FS_Product, Zenon
    <2> DEFINE S == Workers \ {w}
               T == 1..MaxBatch
    <2>2. IsFiniteSet(S) /\ IsFiniteSet(T)
      BY <1>1, <1>2
    <2> HIDE DEF S, T
    <2>3. IsFiniteSet(S \X T) /\ Cardinality(S \X T) = Cardinality(S) * Cardinality(T)
      BY <2>1, <2>2, Zenon
    <2> QED
      BY <1>1, <1>2, <2>3, Zenon DEF S, T
  <1>4. Tokens([q EXCEPT ![w] = 0]) \subseteq (Workers \ {w}) \X (1..MaxBatch)
    BY MaxBatchNat DEF Tokens
  <1>5. Cardinality(Tokens([q EXCEPT ![w] = 0])) <= Cardinality((Workers \ {w}) \X (1..MaxBatch))
    BY <1>3, <1>4, FS_Subset
  <1> QED
    BY <1>3, <1>5

-----------------------------------------------------------------------------
(* The bound on concurrent reservations. *)

\* A tick is promised something only between its count and its reservation, and what is
\* reserved and promised together is bounded.
PromiseInv ==
  /\ TypeOK
  /\ \A w \in Workers : phase[w] \notin {"claim", "reserve"} => quota[w] = 0
  /\ logged[WindowSeconds] + Cardinality(Tokens(quota))
       <= EffectiveLimit + (Cardinality(Workers) - 1) * MaxBatch

\* A step that logs nothing and promises nothing keeps the bound.
LEMMA BoundKept ==
  ASSUME PromiseInv, TypeOK',
         logged'[WindowSeconds] <= logged[WindowSeconds],
         \A w \in Workers : quota'[w] <= quota[w]
  PROVE  logged'[WindowSeconds] + Cardinality(Tokens(quota'))
           <= EffectiveLimit + (Cardinality(Workers) - 1) * MaxBatch
  <1>1. /\ quota \in [Workers -> 0..MaxBatch] /\ quota' \in [Workers -> 0..MaxBatch]
        /\ logged[WindowSeconds] \in Nat /\ logged'[WindowSeconds] \in Nat
    BY WindowInAge DEF PromiseInv, TypeOK, Rows
  <1>2. Cardinality(Tokens(quota')) <= Cardinality(Tokens(quota))
    BY <1>1, FewerTokens
  <1>3. Cardinality(Tokens(quota)) \in Nat /\ Cardinality(Tokens(quota')) \in Nat
    BY <1>1, TokensFinite
  <1>4. EffectiveLimit + (Cardinality(Workers) - 1) * MaxBatch \in Int
    BY LimitNat, MaxBatchNat, FS_CardinalityType, RateWindowAssumption
  <1> QED
    BY <1>1, <1>2, <1>3, <1>4 DEF PromiseInv

LEMMA PromiseInit == Init => PromiseInv
  <1> SUFFICES ASSUME Init PROVE PromiseInv
    OBVIOUS
  <1>1. TypeOK
    BY NoRowsAreRows, MaxBatchNat, NoBatchIsBatch DEF Init, TypeOK, Phase
  <1>2. PICK w \in Workers : TRUE
    BY RateWindowAssumption
  <1>3. quota = [quota EXCEPT ![w] = 0]
    BY DEF Init
  <1>4. Cardinality(Tokens(quota)) <= (Cardinality(Workers) - 1) * MaxBatch
    BY <1>1, <1>3, TokensOfOthers DEF TypeOK
  <1>5. logged[WindowSeconds] = 0
    BY WindowInAge DEF Init, NoRows
  <1>6. Cardinality(Tokens(quota)) \in Nat /\ (Cardinality(Workers) - 1) * MaxBatch \in Int
    BY <1>1, TokensFinite, MaxBatchNat, FS_CardinalityType, RateWindowAssumption DEF TypeOK
  <1>7. \A v \in Workers : quota[v] = 0
    BY DEF Init
  <1> QED
    BY <1>1, <1>4, <1>5, <1>6, <1>7, LimitNat DEF PromiseInv

LEMMA PromiseStep == PromiseInv /\ TypeOK' /\ [Next]_vars => PromiseInv'
  <1> SUFFICES ASSUME PromiseInv, TypeOK', [Next]_vars PROVE PromiseInv'
    OBVIOUS
  <1> DEFINE bound == EffectiveLimit + (Cardinality(Workers) - 1) * MaxBatch
             within == logged[WindowSeconds] + Cardinality(Tokens(quota)) <= bound
             onlyPromised == \A v \in Workers : phase[v] \notin {"claim", "reserve"} => quota[v] = 0
  <1>a. (Cardinality(Workers) - 1) * MaxBatch \in Int /\ EffectiveLimit \in Nat /\ bound \in Int
    BY LimitNat, MaxBatchNat, FS_CardinalityType, RateWindowAssumption
  <1>b. /\ quota \in [Workers -> 0..MaxBatch] /\ quota' \in [Workers -> 0..MaxBatch]
        /\ phase \in [Workers -> Phase]
        /\ logged \in Rows /\ logged[WindowSeconds] \in Nat /\ tested[WindowSeconds] \in Nat
        /\ batch \in [Workers -> Batch]
        /\ onlyPromised /\ within
    BY WindowInAge DEF PromiseInv, TypeOK, Rows
  <1>c. SUFFICES within' /\ onlyPromised'
    BY DEF PromiseInv
  <1>1. ASSUME NEW w \in Workers, Count(w), BatchSize(CountSentInWindow) > 0,
               quota' = [quota EXCEPT ![w] = BatchSize(CountSentInWindow)],
               Enter(w, "claim")
        PROVE  within' /\ onlyPromised'
    <2> DEFINE b == BatchSize(CountSentInWindow)
    <2>1. CountSentInWindow \in Nat /\ logged[WindowSeconds] <= CountSentInWindow
      BY <1>b DEF CountSentInWindow
    <2>2. b \in 0..MaxBatch /\ CountSentInWindow + b <= EffectiveLimit
      BY <1>1, <2>1, BatchWithinAllowance
    <2> HIDE DEF b
    <2>3. quota'[w] = b /\ [quota' EXCEPT ![w] = 0] = [quota EXCEPT ![w] = 0]
      BY <1>1, <1>b DEF b
    <2>4. Cardinality(Tokens(quota')) = Cardinality(Tokens([quota EXCEPT ![w] = 0])) + b
      BY <2>3, <1>b, TokensOfOne
    <2>5. Cardinality(Tokens([quota EXCEPT ![w] = 0])) <= (Cardinality(Workers) - 1) * MaxBatch
      BY <1>b, TokensOfOthers
    <2>6. Cardinality(Tokens([quota EXCEPT ![w] = 0])) \in Nat
      <3>1. [quota EXCEPT ![w] = 0] \in [Workers -> 0..MaxBatch]
        BY <1>b, MaxBatchNat
      <3> QED
        BY <3>1, TokensFinite
    <2>7. logged' = logged
      BY <1>1 DEF Count
    <2>8. within'
      BY <1>a, <1>b, <2>1, <2>2, <2>4, <2>5, <2>6, <2>7, MaxBatchNat
    <2>9. onlyPromised'
      BY <1>1, <1>b DEF Enter
    <2> QED
      BY <2>8, <2>9
  <1>2. ASSUME NEW w \in Workers, Reserve(w)
        PROVE  within' /\ onlyPromised'
    <2>1. quota' = [quota EXCEPT ![w] = 0] /\ logged' = WithRows(logged, quota[w])
      BY <1>2 DEF Reserve, StartBatch
    <2>2. quota[w] \in Nat
      BY <1>b, MaxBatchNat
    <2>3. logged'[WindowSeconds] = logged[WindowSeconds] + quota[w]
      BY <1>b, <2>1, <2>2, MoreRows
    <2>4. Cardinality(Tokens(quota)) = Cardinality(Tokens(quota')) + quota[w]
      BY <1>b, <2>1, TokensOfOne
    <2>5. Cardinality(Tokens(quota')) \in Nat
      BY <1>b, TokensFinite
    <2>6. within'
      BY <1>a, <1>b, <2>2, <2>3, <2>4, <2>5
    <2>7. onlyPromised'
      BY <1>2, <1>b, <2>1 DEF Reserve, StartBatch, Enter
    <2> QED
      BY <2>6, <2>7
  <1>3. ASSUME logged'[WindowSeconds] <= logged[WindowSeconds],
               \A v \in Workers : quota'[v] <= quota[v], onlyPromised'
        PROVE  within' /\ onlyPromised'
    BY <1>3, BoundKept
  <1>4. ASSUME NEW w \in Workers, Count(w), Enter(w, "leaving"), UNCHANGED quota
        PROVE  within' /\ onlyPromised'
    <2>1. onlyPromised'
      BY <1>4, <1>b DEF Count, Enter
    <2> QED
      BY <1>3, <1>4, <1>b, <2>1, MaxBatchNat DEF Count
  <1>5. ASSUME NEW w \in Workers, Claim(w)
        PROVE  within' /\ onlyPromised'
    <2>1. \A v \in Workers : quota'[v] <= quota[v]
      BY <1>5, <1>b, MaxBatchNat DEF Claim
    <2>2. onlyPromised'
      BY <1>5, <1>b DEF Claim, Enter
    <2> QED
      BY <1>3, <1>5, <1>b, <2>1, <2>2 DEF Claim
  <1>6. ASSUME NEW w \in Workers, Begin(w) \/ StartSend(w) \/ Attempted(w) \/ TransportFails(w)
                                   \/ ReplyLost(w) \/ RecordThrows(w)
        PROVE  within' /\ onlyPromised'
    <2>1. logged' = logged /\ quota' = quota
      BY <1>6 DEF Begin, StartSend, Attempted, TransportFails, ReplyLost, RecordThrows
    <2>2. onlyPromised'
      BY <1>6, <1>b, <2>1
      DEF Begin, StartSend, Attempted, TransportFails, ReplyLost, RecordThrows, Enter
    <2> QED
      BY <1>3, <1>b, <2>1, <2>2, MaxBatchNat
  <1>7. ASSUME NEW w \in Workers, EndBatch(w)
        PROVE  within' /\ onlyPromised'
    <2>1. batch[w].age \in Age /\ Refunded(batch[w]) \in Nat
      BY <1>b DEF Batch, Refunded
    <2>2. logged'[WindowSeconds] <= logged[WindowSeconds]
      BY <1>7, <1>b, <2>1, FewerRows DEF EndBatch
    <2>3. onlyPromised'
      BY <1>7, <1>b DEF EndBatch, Enter
    <2> QED
      BY <1>3, <1>7, <1>b, <2>2, <2>3, MaxBatchNat DEF EndBatch
  <1>8. ASSUME NEW w \in Workers, Leave(w)
        PROVE  within' /\ onlyPromised'
    <2>1. logged'[WindowSeconds] <= logged[WindowSeconds]
      BY <1>8, <1>b, PrunedRows DEF Leave
    <2>2. onlyPromised'
      BY <1>8, <1>b DEF Leave, Enter
    <2> QED
      BY <1>3, <1>8, <1>b, <2>1, <2>2, MaxBatchNat DEF Leave
  <1>9. ASSUME NEW w \in Workers, Crash(w)
        PROVE  within' /\ onlyPromised'
    <2>1. \A v \in Workers : quota'[v] <= quota[v]
      BY <1>9, <1>b, MaxBatchNat DEF Crash
    <2>2. onlyPromised'
      BY <1>9, <1>b DEF Crash, Enter
    <2> QED
      BY <1>3, <1>9, <1>b, <2>1, <2>2 DEF Crash
  <1>10. CASE TestSend
    BY <1>3, <1>10, <1>b, MaxBatchNat DEF TestSend
  <1>11. CASE Tick
    <2>1. logged'[WindowSeconds] <= logged[WindowSeconds]
      BY <1>11, <1>b, LaterRows DEF Tick
    <2> QED
      BY <1>3, <1>11, <1>b, <2>1, MaxBatchNat DEF Tick
  <1>12. CASE UNCHANGED vars
    BY <1>3, <1>12, <1>b, MaxBatchNat DEF vars
  <1>13. ASSUME NEW w \in Workers, Count(w)
         PROVE  within' /\ onlyPromised'
    BY <1>1, <1>4, <1>13 DEF Count
  <1> QED
    BY <1>2, <1>5, <1>6, <1>7, <1>8, <1>9, <1>10, <1>11, <1>12, <1>13 DEF Next

(* However many ticks overlap, whatever they crash on and whatever is refunded or pruned,
   the queue's reservations of one window stay within the limit plus one batch for every
   other tick. *)
THEOREM OvershootAlwaysBounded == Spec => []OvershootBounded
  <1>1. PromiseInv => OvershootBounded
    <2> SUFFICES ASSUME PromiseInv PROVE OvershootBounded
      OBVIOUS
    <2>1. Cardinality(Tokens(quota)) \in Nat /\ logged[WindowSeconds] \in Nat
      BY TokensFinite, WindowInAge DEF PromiseInv, TypeOK, Rows
    <2>2. EffectiveLimit + (Cardinality(Workers) - 1) * MaxBatch \in Int
      BY LimitNat, MaxBatchNat, FS_CardinalityType, RateWindowAssumption
    <2> QED
      BY <2>1, <2>2 DEF PromiseInv, OvershootBounded
  <1> QED
    BY <1>1, PromiseInit, PromiseStep, TypeCorrect, PTL DEF Spec

-----------------------------------------------------------------------------
(* What reaches the server.  A batch is reserved at one moment and sent over many, so the
   rows of a window and its messages are not those of the same batches.  The books say, for
   every window: the messages on the wire, and those still owed for the rows in it, are as
   many as the rows, plus messages whose row is older than the window.  Of those each tick
   has no more than one batch, the one it was sending when the window began. *)

Total(q) == Cardinality(Tokens(q))

\* Messages of w's batch that have a row less than s old and are not on the wire.
OwedBy(w, s) ==
  IF phase[w] = "send" /\ batch[w].age < s THEN batch[w].size - batch[w].attempted ELSE 0
Owed(s) == [w \in Workers |-> OwedBy(w, s)]

\* late[w][s]: messages of w less than s old whose row is older, of the batch w had on its
\* hands s units ago.
Lateness == [Workers -> [Age -> 0..MaxBatch]]
LateAt(late, s) == [w \in Workers |-> late[w][s]]

Balanced(late, s) == wire[s] + Total(Owed(s)) <= logged[s] + Total(LateAt(late, s))

Explains(late) ==
  /\ \A w \in Workers : late[w][0] = 0
  /\ \A w \in Workers, s \in Age :
       phase[w] = "send" /\ s <= batch[w].age => late[w][s] <= batch[w].attempted
  /\ \A s \in 0..PruneAfter : Balanced(late, s)

Grounded == logged[0] = 0 /\ \A w \in Workers : phase[w] # "send" => batch[w].flying = 0

TrafficInv == Grounded /\ \E late \in Lateness : Explains(late)

LEMMA OwedNat ==
  ASSUME TypeOK, TypeOK', NEW s \in Age
  PROVE  /\ Owed(s) \in [Workers -> 0..MaxBatch] /\ \A w \in Workers : OwedBy(w, s) \in 0..MaxBatch
         /\ Owed(s)' \in [Workers -> 0..MaxBatch] /\ \A w \in Workers : OwedBy(w, s)' \in 0..MaxBatch
  <1>1. Owed(s) \in [Workers -> 0..MaxBatch] /\ \A w \in Workers : OwedBy(w, s) \in 0..MaxBatch
    BY MaxBatchNat DEF TypeOK, Batch, Owed, OwedBy, Age
  <1>2. Owed(s)' \in [Workers -> 0..MaxBatch] /\ \A w \in Workers : OwedBy(w, s)' \in 0..MaxBatch
    BY MaxBatchNat DEF TypeOK, Batch, Owed, OwedBy, Age
  <1> QED
    BY <1>1, <1>2

LEMMA LateNat ==
  ASSUME NEW late \in Lateness, NEW s \in Age
  PROVE  LateAt(late, s) \in [Workers -> 0..MaxBatch]
  BY DEF Lateness, LateAt

LEMMA TotalOfOne ==
  ASSUME NEW p \in [Workers -> 0..MaxBatch], NEW q \in [Workers -> 0..MaxBatch], NEW w \in Workers,
         \A v \in Workers \ {w} : p[v] = q[v]
  PROVE  Total(p) = Total(q) - q[w] + p[w] /\ Total(p) \in Nat /\ Total(q) \in Nat
  <1>1. [p EXCEPT ![w] = 0] = [q EXCEPT ![w] = 0]
    OBVIOUS
  <1>2. /\ Total(p) = Total([p EXCEPT ![w] = 0]) + p[w]
        /\ Total(q) = Total([p EXCEPT ![w] = 0]) + q[w]
    BY <1>1, TokensOfOne DEF Total
  <1>3. [p EXCEPT ![w] = 0] \in [Workers -> 0..MaxBatch] /\ p[w] \in Nat /\ q[w] \in Nat
    BY MaxBatchNat
  <1>4. Total([p EXCEPT ![w] = 0]) \in Nat /\ Total(p) \in Nat /\ Total(q) \in Nat
    BY <1>3, TokensFinite DEF Total
  <1> QED
    BY <1>2, <1>3, <1>4

LEMMA TotalBounded ==
  ASSUME NEW q \in [Workers -> 0..MaxBatch]
  PROVE  Total(q) \in Nat /\ Total(q) <= Cardinality(Workers) * MaxBatch
  <1>1. PICK w \in Workers : TRUE
    BY RateWindowAssumption
  <1>2. q[w] \in Nat /\ q[w] <= MaxBatch
    BY MaxBatchNat
  <1>3. Total(q) = Cardinality(Tokens([q EXCEPT ![w] = 0])) + q[w]
    BY TokensOfOne DEF Total
  <1>4. Cardinality(Tokens([q EXCEPT ![w] = 0])) <= (Cardinality(Workers) - 1) * MaxBatch
    BY TokensOfOthers
  <1>5. [q EXCEPT ![w] = 0] \in [Workers -> 0..MaxBatch]
    BY MaxBatchNat
  <1>6. Cardinality(Tokens([q EXCEPT ![w] = 0])) \in Nat
    BY <1>5, TokensFinite
  <1>7. Cardinality(Workers) \in Nat
    BY FS_CardinalityType, RateWindowAssumption
  <1>8. (Cardinality(Workers) - 1) * MaxBatch = Cardinality(Workers) * MaxBatch - MaxBatch
    BY <1>7, MaxBatchNat
  <1>9. Cardinality(Workers) * MaxBatch \in Nat
    BY <1>7, MaxBatchNat, ProductNat
  <1> QED
    BY <1>2, <1>3, <1>4, <1>6, <1>8, <1>9, MaxBatchNat

\* The books of one window balance if those of the tick that moved do.
LEMMA BalanceKept ==
  ASSUME TypeOK, TypeOK', NEW late \in Lateness, NEW next \in Lateness, NEW w \in Workers, NEW s \in Age,
         \A v \in Workers \ {w} : OwedBy(v, s)' = OwedBy(v, s) /\ next[v][s] = late[v][s],
         Balanced(late, s),
         wire'[s] + OwedBy(w, s)' + logged[s] + late[w][s]
           <= wire[s] + OwedBy(w, s) + logged'[s] + next[w][s]
  PROVE  Balanced(next, s)'
  <1>1. /\ Owed(s) \in [Workers -> 0..MaxBatch] /\ Owed(s)' \in [Workers -> 0..MaxBatch]
        /\ LateAt(late, s) \in [Workers -> 0..MaxBatch] /\ LateAt(next, s) \in [Workers -> 0..MaxBatch]
    BY OwedNat, LateNat
  <1>2. /\ Total(Owed(s)') = Total(Owed(s)) - OwedBy(w, s) + OwedBy(w, s)'
        /\ Total(Owed(s)) \in Nat /\ Total(Owed(s)') \in Nat
    <2>1. /\ \A v \in Workers \ {w} : Owed(s)'[v] = Owed(s)[v]
          /\ Owed(s)[w] = OwedBy(w, s) /\ Owed(s)'[w] = OwedBy(w, s)'
      BY DEF Owed
    <2> QED
      BY <1>1, <2>1, TotalOfOne
  <1>3. /\ Total(LateAt(next, s)) = Total(LateAt(late, s)) - late[w][s] + next[w][s]
        /\ Total(LateAt(next, s)) \in Nat /\ Total(LateAt(late, s)) \in Nat
    <2>1. /\ \A v \in Workers \ {w} : LateAt(next, s)[v] = LateAt(late, s)[v]
          /\ LateAt(next, s)[w] = next[w][s] /\ LateAt(late, s)[w] = late[w][s]
      BY DEF LateAt
    <2> QED
      BY <1>1, <2>1, TotalOfOne
  <1>4. /\ wire[s] \in Nat /\ wire'[s] \in Nat /\ logged[s] \in Nat /\ logged'[s] \in Nat
        /\ OwedBy(w, s) \in Nat /\ OwedBy(w, s)' \in Nat /\ late[w][s] \in Nat /\ next[w][s] \in Nat
    BY OwedNat, MaxBatchNat DEF TypeOK, Rows, Lateness
  <1> QED
    BY <1>2, <1>3, <1>4 DEF Balanced

LEMMA InsideWindows == \A s \in 0..PruneAfter : s \in Age
  BY RateWindowAssumption DEF Age

\* A step that changes nothing the books are kept of.
LEMMA BooksUntouched ==
  ASSUME TypeOK, TypeOK', TrafficInv,
         \A s \in 0..PruneAfter : wire'[s] <= wire[s] /\ logged'[s] = logged[s],
         \A w \in Workers : /\ phase'[w] = "send" <=> phase[w] = "send"
                            /\ phase[w] = "send" => /\ batch'[w].age = batch[w].age
                                                    /\ batch'[w].size = batch[w].size
                                                    /\ batch'[w].attempted = batch[w].attempted
                            /\ phase[w] # "send" => batch'[w] \in {batch[w], NoBatch}
  PROVE  TrafficInv'
  <1>1. PICK late \in Lateness : Explains(late)
    BY DEF TrafficInv
  <1>2. ASSUME NEW s \in 0..PruneAfter PROVE Balanced(late, s)'
    <2>1. Owed(s)' = Owed(s)
      BY DEF Owed, OwedBy
    <2>2. /\ Total(Owed(s)) \in Nat /\ Total(LateAt(late, s)) \in Nat
          /\ wire[s] \in Nat /\ wire'[s] \in Nat /\ logged[s] \in Nat
      BY OwedNat, LateNat, TotalBounded, InsideWindows DEF TypeOK, Rows
    <2> QED
      BY <1>1, <2>1, <2>2 DEF Explains, Balanced
  <1>3. Explains(late)'
    BY <1>1, <1>2 DEF Explains
  <1>4. Grounded'
    BY RateWindowAssumption DEF TrafficInv, Grounded, NoBatch, NewBatch
  <1> QED
    BY <1>1, <1>3, <1>4 DEF TrafficInv

LEMMA TrafficInit == Init => TrafficInv
  <1> SUFFICES ASSUME Init PROVE TrafficInv
    OBVIOUS
  <1> DEFINE late == [w \in Workers |-> [s \in Age |-> 0]]
  <1>1. late \in Lateness
    BY MaxBatchNat DEF Lateness
  <1>2. ASSUME NEW s \in 0..PruneAfter PROVE Balanced(late, s)
    <2>1. s \in Age
      BY RateWindowAssumption DEF Age
    <2>2. Owed(s) = LateAt(late, s)
      BY <2>1 DEF Init, Owed, OwedBy, LateAt
    <2>3. LateAt(late, s) \in [Workers -> 0..MaxBatch]
      BY <1>1, <2>1, LateNat
    <2>4. Total(LateAt(late, s)) \in Nat
      BY <2>3, TotalBounded
    <2> QED
      BY <2>1, <2>2, <2>4 DEF Balanced, Init, NoRows
  <1>3. Explains(late)
    BY <1>2, WindowInAge DEF Explains, Init
  <1>4. Grounded
    BY WindowInAge DEF Init, Grounded, NoBatch, NewBatch, NoRows
  <1> QED
    BY <1>1, <1>3, <1>4 DEF TrafficInv

\* A message of w is handed over (n = 1), or a write after it failed and it may have been.
LEMMA HandedOver ==
  ASSUME TypeOK, TypeOK', TrafficInv, NEW w \in Workers, NEW n \in {0, 1},
         phase[w] = "send", batch[w].flying > 0,
         UNCHANGED <<phase, logged>>,
         \A s \in Age : wire'[s] <= IF s = 0 THEN wire[s] ELSE wire[s] + n,
         batch'[w].attempted = batch[w].attempted + 1,
         batch'[w].size = batch[w].size, batch'[w].age = batch[w].age,
         \A v \in Workers \ {w} : batch'[v] = batch[v]
  PROVE  TrafficInv'
  <1>1. PICK late \in Lateness : Explains(late)
    BY DEF TrafficInv
  <1> DEFINE b    == batch[w]
             more(s) == IF 0 < s /\ s <= b.age THEN late[w][s] + n ELSE late[w][s]
  <1>2. /\ b \in Batch /\ b.attempted + 1 <= b.size /\ b.size \in 0..MaxBatch
        /\ b.attempted \in Nat /\ b.age \in Age
    BY DEF TypeOK, Batch
  <1>3. \A s \in Age : late[w][s] \in 0..MaxBatch /\ (s <= b.age => late[w][s] <= b.attempted)
    BY <1>1 DEF Lateness, Explains
  <1>4. \A s \in Age : more(s) \in 0..MaxBatch /\ (s <= b.age => more(s) <= b.attempted + 1)
    BY <1>2, <1>3, MaxBatchNat
  <1> HIDE DEF more
  <1>5. PICK next \in Lateness : /\ \A s \in Age : next[w][s] = more(s)
                                 /\ \A v \in Workers \ {w} : next[v] = late[v]
    <2>1. [late EXCEPT ![w] = [s \in Age |-> more(s)]] \in Lateness
      BY <1>4 DEF Lateness
    <2> QED
      BY <2>1 DEF Lateness
  <1> HIDE DEF b
  <1>6. ASSUME NEW s \in 0..PruneAfter PROVE Balanced(next, s)'
    <2>1. s \in Age /\ s \in Nat
      BY InsideWindows DEF Age
    <2>2. \A v \in Workers \ {w} : OwedBy(v, s)' = OwedBy(v, s) /\ next[v][s] = late[v][s]
      BY <1>5 DEF OwedBy
    <2>3. /\ wire'[s] <= IF s = 0 THEN wire[s] ELSE wire[s] + n
          /\ wire[s] \in Nat /\ wire'[s] \in Nat /\ logged[s] \in Nat /\ logged'[s] = logged[s]
      BY <2>1 DEF TypeOK, Rows
    <2>4. /\ OwedBy(w, s) = IF b.age < s THEN b.size - b.attempted ELSE 0
          /\ OwedBy(w, s)' = IF b.age < s THEN b.size - (b.attempted + 1) ELSE 0
      BY DEF OwedBy, b
    <2>5. next[w][s] = (IF 0 < s /\ s <= b.age THEN late[w][s] + n ELSE late[w][s]) /\ late[w][s] \in Nat
      BY <1>3, <1>5, <2>1, MaxBatchNat DEF more
    <2>6. Balanced(late, s)
      BY <1>1 DEF Explains
    <2>7. wire'[s] + OwedBy(w, s)' + logged[s] + late[w][s]
            <= wire[s] + OwedBy(w, s) + logged'[s] + next[w][s]
      BY <1>2, <2>1, <2>3, <2>4, <2>5 DEF Age
    <2> QED
      BY <1>5, <2>1, <2>2, <2>6, <2>7, BalanceKept
  <1>7. Explains(next)'
    <2>1. ASSUME NEW v \in Workers PROVE next[v][0] = 0
      BY <1>1, <1>5, WindowInAge DEF Explains, more
    <2>2. ASSUME NEW v \in Workers, NEW s \in Age, phase'[v] = "send", s <= batch'[v].age
          PROVE  next[v][s] <= batch'[v].attempted
      <3>1. CASE v = w
        BY <1>4, <1>5, <2>2, <3>1 DEF b
      <3>2. CASE v # w
        BY <1>1, <1>5, <2>2, <3>2 DEF Explains
      <3> QED
        BY <3>1, <3>2
    <2> QED
      BY <1>6, <2>1, <2>2 DEF Explains
  <1>8. Grounded'
    BY DEF TrafficInv, Grounded
  <1> QED
    BY <1>5, <1>7, <1>8 DEF TrafficInv

\* w gives its batch up; of the messages under way n arrive, and what it owes may be taken
\* off the log.
LEMMA LetGo ==
  ASSUME TypeOK, TypeOK', TrafficInv, NEW w \in Workers, NEW n \in 0..batch[w].flying,
         phase[w] = "send", phase'[w] # "send", batch'[w] = NoBatch,
         \A v \in Workers \ {w} : phase'[v] = phase[v] /\ batch'[v] = batch[v],
         logged'[0] = logged[0],
         \A s \in 0..PruneAfter :
           /\ wire'[s] <= IF s = 0 THEN wire[s] ELSE wire[s] + n
           /\ logged'[s] + OwedBy(w, s) >= IF batch[w].age < s THEN logged[s] + n ELSE logged[s]
  PROVE  TrafficInv'
  <1>1. PICK late \in Lateness : Explains(late)
    BY DEF TrafficInv
  <1> DEFINE b       == batch[w]
             more(s) == IF 0 < s /\ s <= b.age THEN late[w][s] + n ELSE late[w][s]
  <1>2. /\ b.attempted + b.flying <= b.size /\ b.size \in 0..MaxBatch
        /\ b.attempted \in Nat /\ b.flying \in Nat /\ b.age \in Age /\ n \in Nat /\ n <= b.flying
    BY MaxBatchNat DEF TypeOK, Batch
  <1>3. \A s \in Age : late[w][s] \in 0..MaxBatch /\ (s <= b.age => late[w][s] <= b.attempted)
    BY <1>1 DEF Lateness, Explains
  <1>4. \A s \in Age : more(s) \in 0..MaxBatch
    BY <1>2, <1>3, MaxBatchNat
  <1> HIDE DEF more
  <1>5. PICK next \in Lateness : /\ \A s \in Age : next[w][s] = more(s)
                                 /\ \A v \in Workers \ {w} : next[v] = late[v]
    <2>1. [late EXCEPT ![w] = [s \in Age |-> more(s)]] \in Lateness
      BY <1>4 DEF Lateness
    <2> QED
      BY <2>1 DEF Lateness
  <1> HIDE DEF b
  <1>6. ASSUME NEW s \in 0..PruneAfter PROVE Balanced(next, s)'
    <2>1. s \in Age /\ s \in Nat
      BY InsideWindows DEF Age
    <2>2. \A v \in Workers \ {w} : OwedBy(v, s)' = OwedBy(v, s) /\ next[v][s] = late[v][s]
      BY <1>5 DEF OwedBy
    <2>3. /\ wire[s] \in Nat /\ wire'[s] \in Nat /\ logged[s] \in Nat /\ logged'[s] \in Nat
          /\ wire'[s] <= IF s = 0 THEN wire[s] ELSE wire[s] + n
          /\ logged'[s] + OwedBy(w, s) >= IF b.age < s THEN logged[s] + n ELSE logged[s]
      BY <2>1 DEF TypeOK, Rows, b
    <2>4. OwedBy(w, s) \in Nat /\ OwedBy(w, s)' = 0 /\ b.age \in Nat
      BY <1>2, <2>1, OwedNat, MaxBatchNat DEF OwedBy, Age
    <2>5. next[w][s] = (IF 0 < s /\ s <= b.age THEN late[w][s] + n ELSE late[w][s]) /\ late[w][s] \in Nat
      BY <1>3, <1>5, <2>1, MaxBatchNat DEF more
    <2>6. Balanced(late, s)
      BY <1>1 DEF Explains
    <2>7. wire'[s] + OwedBy(w, s)' + logged[s] + late[w][s]
            <= wire[s] + OwedBy(w, s) + logged'[s] + next[w][s]
      BY <1>2, <2>1, <2>3, <2>4, <2>5
    <2> QED
      BY <1>5, <2>1, <2>2, <2>6, <2>7, BalanceKept
  <1>7. Explains(next)'
    <2>1. ASSUME NEW v \in Workers PROVE next[v][0] = 0
      BY <1>1, <1>5, WindowInAge DEF Explains, more
    <2>2. ASSUME NEW v \in Workers, NEW s \in Age, phase'[v] = "send", s <= batch'[v].age
          PROVE  next[v][s] <= batch'[v].attempted
      <3>1. v # w
        BY <2>2
      <3> QED
        BY <1>1, <1>5, <2>2, <3>1 DEF Explains
    <2> QED
      BY <1>6, <2>1, <2>2 DEF Explains
  <1>8. Grounded'
    BY DEF TrafficInv, Grounded, NoBatch, NewBatch
  <1> QED
    BY <1>5, <1>7, <1>8 DEF TrafficInv

\* A new batch owes what it has just reserved.
LEMMA ReserveKeepsBooks ==
  ASSUME TypeOK, TypeOK', TrafficInv, NEW w \in Workers, Reserve(w)
  PROVE  TrafficInv'
  <1>1. PICK late \in Lateness : Explains(late)
    BY DEF TrafficInv
  <1>2. /\ phase[w] = "reserve" /\ phase' = [phase EXCEPT ![w] = "send"]
        /\ batch' = [batch EXCEPT ![w] = NewBatch(quota[w])]
        /\ logged' = WithRows(logged, quota[w]) /\ wire' = wire
        /\ quota[w] \in Nat
    BY MaxBatchNat DEF Reserve, StartBatch, Enter, TypeOK
  <1>3. phase'[w] = "send" /\ batch'[w] = NewBatch(quota[w])
    BY <1>2 DEF TypeOK
  <1>4. batch'[w].age = 0 /\ batch'[w].attempted = 0 /\ batch'[w].size = quota[w]
    BY <1>3 DEF NewBatch
  <1>5. \A v \in Workers \ {w} : phase'[v] = phase[v] /\ batch'[v] = batch[v]
    BY <1>2 DEF TypeOK
  <1>6. ASSUME NEW s \in 0..PruneAfter PROVE Balanced(late, s)'
    <2>1. s \in Age /\ s \in Nat
      BY InsideWindows DEF Age
    <2>2. \A v \in Workers \ {w} : OwedBy(v, s)' = OwedBy(v, s)
      BY <1>5 DEF OwedBy
    <2>3. OwedBy(w, s) = 0 /\ OwedBy(w, s)' = IF 0 < s THEN quota[w] ELSE 0
      BY <1>2, <1>3, <1>4 DEF OwedBy
    <2>4. /\ logged'[s] = IF s = 0 THEN 0 ELSE logged[s] + quota[w]
          /\ wire'[s] = wire[s] /\ logged[s] \in Nat /\ wire[s] \in Nat /\ late[w][s] \in Nat
      BY <1>2, <2>1, MaxBatchNat DEF WithRows, TypeOK, Rows, Lateness
    <2>5. CASE s # 0
      <3>1. wire'[s] + OwedBy(w, s)' + logged[s] + late[w][s]
              <= wire[s] + OwedBy(w, s) + logged'[s] + late[w][s]
        BY <1>2, <2>1, <2>3, <2>4, <2>5
      <3> QED
        BY <1>1, <2>1, <2>2, <3>1, BalanceKept DEF Explains
    <2>6. CASE s = 0
      <3>1. logged[0] = 0
        BY DEF TrafficInv, Grounded
      <3>2. wire'[s] + OwedBy(w, s)' + logged[s] + late[w][s]
              <= wire[s] + OwedBy(w, s) + logged'[s] + late[w][s]
        BY <2>3, <2>4, <2>6, <3>1
      <3> QED
        BY <1>1, <2>1, <2>2, <3>2, BalanceKept DEF Explains
    <2> QED
      BY <2>5, <2>6
  <1>7. Explains(late)'
    <2>1. ASSUME NEW v \in Workers, NEW s \in Age, phase'[v] = "send", s <= batch'[v].age
          PROVE  late[v][s] <= batch'[v].attempted
      <3>1. CASE v = w
        <4>1. s = 0
          BY <1>4, <2>1, <3>1 DEF Age
        <4> QED
          BY <1>1, <1>4, <3>1, <4>1 DEF Explains
      <3>2. CASE v # w
        BY <1>1, <1>5, <2>1, <3>2 DEF Explains
      <3> QED
        BY <3>1, <3>2
    <2> QED
      BY <1>1, <1>6, <2>1 DEF Explains
  <1>8. Grounded'
    <2>1. logged'[0] = 0
      BY <1>2, WindowInAge DEF WithRows
    <2> QED
      BY <1>3, <1>5, <2>1 DEF TrafficInv, Grounded
  <1> QED
    BY <1>1, <1>7, <1>8 DEF TrafficInv

\* A unit of time later, each window begins where the next shorter one did.
LEMMA TimeKeepsBooks ==
  ASSUME TypeOK, TypeOK', TrafficInv, Tick
  PROVE  TrafficInv'
  <1>1. PICK late \in Lateness : Explains(late)
    BY DEF TrafficInv
  <1>2. PICK next \in Lateness :
          \A w \in Workers, s \in Age : next[w][s] = IF s = 0 THEN 0 ELSE late[w][s - 1]
    <2>1. \A w \in Workers, s \in Age : (IF s = 0 THEN 0 ELSE late[w][s - 1]) \in 0..MaxBatch
      <3>1. \A s \in Age : s # 0 => s - 1 \in Age
        BY WindowInAge DEF Age
      <3> QED
        BY <3>1, MaxBatchNat DEF Lateness
    <2>2. [w \in Workers |-> [s \in Age |-> IF s = 0 THEN 0 ELSE late[w][s - 1]]] \in Lateness
      BY <2>1 DEF Lateness
    <2>3. \A w \in Workers, s \in Age :
            [v \in Workers |-> [t \in Age |-> IF t = 0 THEN 0 ELSE late[v][t - 1]]][w][s]
              = IF s = 0 THEN 0 ELSE late[w][s - 1]
      OBVIOUS
    <2> QED
      BY <2>2, <2>3
  <1>3. ASSUME NEW w \in Workers, phase[w] = "send"
        PROVE  /\ batch'[w].size = batch[w].size /\ batch'[w].attempted = batch[w].attempted
               /\ batch'[w].age = Lesser(Horizon, batch[w].age + 1) /\ batch[w].age \in Age
    BY <1>3 DEF Tick, TypeOK, Batch
  <1>4. phase' = phase
    BY DEF Tick
  <1>5. ASSUME NEW s \in 0..PruneAfter PROVE Balanced(next, s)'
    <2>1. s \in Age /\ s \in Nat
      BY InsideWindows DEF Age
    <2>2. CASE s = 0
      <3>1. wire'[s] = 0 /\ logged'[s] = 0
        BY <2>1, <2>2 DEF Tick, OneUnitLater
      <3>2. Owed(s)' = LateAt(next, s)
        <4>1. \A w \in Workers : ~(batch'[w].age < 0)
          BY DEF TypeOK, Batch, Age
        <4> QED
          BY <1>2, <2>1, <2>2, <4>1 DEF Owed, OwedBy, LateAt
      <3>3. Total(LateAt(next, s)) \in Nat
        BY <2>1, LateNat, TotalBounded
      <3> QED
        BY <3>1, <3>2, <3>3 DEF Balanced
    <2>3. CASE s # 0
      <3>1. s - 1 \in 0..PruneAfter /\ s - 1 \in Age
        BY <2>1, <2>3, InsideWindows, RateWindowAssumption
      <3>2. wire'[s] = wire[s - 1] /\ logged'[s] = logged[s - 1]
        BY <2>1, <2>3 DEF Tick, OneUnitLater
      <3>3. ASSUME NEW w \in Workers PROVE OwedBy(w, s)' = OwedBy(w, s - 1)
        <4>1. CASE phase[w] = "send"
          <5>1. batch'[w].age < s <=> batch[w].age < s - 1
            BY <1>3, <2>1, <4>1, RateWindowAssumption DEF Lesser, Age
          <5> QED
            BY <1>3, <1>4, <4>1, <5>1 DEF OwedBy
        <4>2. CASE phase[w] # "send"
          BY <1>4, <4>2 DEF OwedBy
        <4> QED
          BY <4>1, <4>2
      <3>4. Owed(s)' = Owed(s - 1)
        BY <3>3 DEF Owed
      <3>5. LateAt(next, s) = LateAt(late, s - 1)
        BY <1>2, <2>1, <2>3 DEF LateAt
      <3> QED
        BY <1>1, <3>1, <3>2, <3>4, <3>5 DEF Explains, Balanced
    <2> QED
      BY <2>2, <2>3
  <1>6. Explains(next)'
    <2>1. ASSUME NEW w \in Workers, NEW s \in Age, phase'[w] = "send", s <= batch'[w].age
          PROVE  next[w][s] <= batch'[w].attempted
      <3>1. batch[w].attempted \in Nat
        BY DEF TypeOK, Batch
      <3>2. CASE s = 0
        BY <1>2, <1>3, <1>4, <2>1, <3>1, <3>2
      <3>3. CASE s # 0
        <4>1. s - 1 \in Age /\ s - 1 <= batch[w].age
          BY <1>3, <1>4, <2>1, <3>3, RateWindowAssumption DEF Lesser, Age
        <4> QED
          BY <1>1, <1>2, <1>3, <1>4, <2>1, <3>3, <4>1 DEF Explains
      <3> QED
        BY <3>2, <3>3
    <2> QED
      BY <1>2, <1>5, <2>1, WindowInAge DEF Explains
  <1>7. Grounded'
    BY <1>4, WindowInAge DEF TrafficInv, Grounded, Tick, OneUnitLater
  <1> QED
    BY <1>6, <1>7 DEF TrafficInv

\* Every step keeps the books, as long as no reply is lost.
LEMMA TrafficStep ==
  ASSUME "reply" \notin FaultKinds, TypeOK, TypeOK', TrafficInv, [Next]_vars
  PROVE  TrafficInv'
<1>1. ASSUME UNCHANGED <<logged, wire, phase, batch>> PROVE TrafficInv'
  <2>1. \A s \in 0..PruneAfter : wire[s] <= wire[s]
    BY InsideWindows DEF TypeOK, Rows
  <2> QED
    BY <1>1, <2>1, BooksUntouched
\* The tick goes on to another statement, or only its loops move.
<1>2. ASSUME NEW w \in Workers, Begin(w) \/ Count(w) \/ Claim(w) \/ StartSend(w) \/ TransportFails(w)
      PROVE  TrafficInv'
  <2>1. UNCHANGED <<logged, wire>>
    BY <1>2 DEF Begin, Count, Claim, StartSend, TransportFails
  <2>2. \A v \in Workers : /\ phase'[v] = "send" <=> phase[v] = "send"
                           /\ phase[v] = "send" => /\ batch'[v].age = batch[v].age
                                                   /\ batch'[v].size = batch[v].size
                                                   /\ batch'[v].attempted = batch[v].attempted
                           /\ phase[v] # "send" => batch'[v] \in {batch[v], NoBatch}
    <3>1. CASE Begin(w) \/ Count(w) \/ Claim(w)
      BY <3>1 DEF Begin, Count, Claim, Enter, TypeOK
    <3>2. CASE StartSend(w)
      BY <3>2 DEF StartSend, TypeOK, Batch
    <3>3. CASE TransportFails(w)
      BY <3>3 DEF TransportFails, TypeOK, Batch
    <3> QED
      BY <1>2, <3>1, <3>2, <3>3
  <2>3. \A s \in 0..PruneAfter : wire[s] <= wire[s]
    BY InsideWindows DEF TypeOK, Rows
  <2> QED
    BY <2>1, <2>2, <2>3, BooksUntouched
<1>3. ASSUME NEW w \in Workers, Leave(w) PROVE TrafficInv'
  <2>1. \A s \in 0..PruneAfter : wire'[s] <= wire[s] /\ logged'[s] = logged[s]
    BY <1>3, InsideWindows, RateWindowAssumption DEF Leave, Pruned, Lesser, TypeOK, Rows
  <2>2. \A v \in Workers : phase'[v] = "send" <=> phase[v] = "send"
    BY <1>3 DEF Leave, Enter, TypeOK
  <2> QED
    BY <1>3, <2>1, <2>2, BooksUntouched DEF Leave
<1>4. ASSUME NEW w \in Workers, Attempted(w) \/ RecordThrows(w) PROVE TrafficInv'
  <2>1. PICK n \in {0, 1} : \A s \in Age : wire'[s] <= IF s = 0 THEN wire[s] ELSE wire[s] + n
    <3>1. \A s \in Age : wire[s] \in Nat
      BY DEF TypeOK, Rows
    <3>2. CASE wire' = wire
      <4>1. \A s \in Age : wire'[s] <= IF s = 0 THEN wire[s] ELSE wire[s] + 0
        BY <3>1, <3>2
      <4> QED
        BY <4>1
    <3>3. CASE wire' = WithRows(wire, 1)
      <4>1. \A s \in Age : wire'[s] <= IF s = 0 THEN wire[s] ELSE wire[s] + 1
        BY <3>1, <3>3 DEF WithRows
      <4> QED
        BY <4>1
    <3> QED
      BY <1>4, <3>2, <3>3 DEF Attempted, RecordThrows
  <2>2. /\ phase[w] = "send" /\ batch[w].flying > 0 /\ UNCHANGED <<phase, logged>>
        /\ \A v \in Workers \ {w} : batch'[v] = batch[v]
    BY <1>4 DEF Attempted, RecordThrows, TypeOK
  <2>3. /\ batch'[w].attempted = batch[w].attempted + 1
        /\ batch'[w].size = batch[w].size /\ batch'[w].age = batch[w].age
    BY <1>4 DEF Attempted, RecordThrows, TypeOK, Batch
  <2> QED
    BY <2>1, <2>2, <2>3, HandedOver
<1>5. ASSUME NEW w \in Workers, ReplyLost(w) PROVE FALSE
  BY <1>5 DEF ReplyLost, Fault
<1>6. ASSUME NEW w \in Workers, EndBatch(w) PROVE TrafficInv'
  <2>1. /\ phase[w] = "send" /\ phase'[w] # "send" /\ batch'[w] = NoBatch /\ wire' = wire
        /\ \A v \in Workers \ {w} : phase'[v] = phase[v] /\ batch'[v] = batch[v]
    BY <1>6 DEF EndBatch, Enter, TypeOK
  <2>2. /\ batch[w] \in Batch /\ batch[w].age \in Nat /\ batch[w].flying = 0
        /\ Refunded(batch[w]) = batch[w].size - batch[w].attempted /\ Refunded(batch[w]) \in Nat
    BY <1>6, MaxBatchNat DEF EndBatch, Drained, TypeOK, Batch, Age, Refunded
  <2>3. ASSUME NEW s \in 0..PruneAfter
        PROVE  /\ wire'[s] <= IF s = 0 THEN wire[s] ELSE wire[s] + 0
               /\ logged'[s] + OwedBy(w, s) >= IF batch[w].age < s THEN logged[s] + 0 ELSE logged[s]
    <3>1. s \in Age /\ wire[s] \in Nat /\ logged[s] \in Nat /\ logged'[s] \in Nat
      BY InsideWindows DEF TypeOK, Rows
    <3>2. OwedBy(w, s) = IF batch[w].age < s THEN Refunded(batch[w]) ELSE 0
      BY <2>1, <2>2 DEF OwedBy
    <3>3. CASE logged' = logged
      BY <2>1, <2>2, <3>1, <3>2, <3>3
    <3>4. CASE logged' = WithoutRows(logged, batch[w].age, Refunded(batch[w]))
      <4>1. logged'[s] >= IF s <= batch[w].age THEN logged[s] ELSE logged[s] - Refunded(batch[w])
        BY <2>2, <3>1, <3>4 DEF WithoutRows, Greater, TypeOK, Rows, Batch
      <4> QED
        BY <2>1, <2>2, <3>1, <3>2, <4>1, InsideWindows DEF Age
    <3> QED
      BY <1>6, <3>3, <3>4 DEF EndBatch
  <2>4. logged'[0] = logged[0]
    BY <1>6, <2>2, WindowInAge DEF EndBatch, WithoutRows
  <2> QED
    BY <2>1, <2>2, <2>3, <2>4, LetGo
<1>7. ASSUME NEW w \in Workers, Crash(w) PROVE TrafficInv'
  <2>1. PICK n \in 0..batch[w].flying : wire' = WithRows(wire, n)
    BY <1>7 DEF Crash
  <2>2. /\ phase'[w] # "send" /\ batch'[w] = NoBatch /\ logged' = logged
        /\ \A v \in Workers \ {w} : phase'[v] = phase[v] /\ batch'[v] = batch[v]
    BY <1>7 DEF Crash, Enter, TypeOK
  <2>3. /\ batch[w] \in Batch /\ batch[w].flying \in Nat /\ n \in Nat /\ n <= batch[w].flying
        /\ batch[w].flying <= batch[w].size - batch[w].attempted
    BY <2>1, MaxBatchNat DEF TypeOK, Batch
  <2>4. ASSUME NEW s \in 0..PruneAfter
        PROVE  /\ s \in Age /\ wire[s] \in Nat /\ logged[s] \in Nat
               /\ wire'[s] <= IF s = 0 THEN wire[s] ELSE wire[s] + n
    BY <2>1, <2>3, InsideWindows DEF WithRows, TypeOK, Rows
  <2>5. CASE phase[w] = "send"
    <3>1. ASSUME NEW s \in 0..PruneAfter
          PROVE  logged'[s] + OwedBy(w, s) >= IF batch[w].age < s THEN logged[s] + n ELSE logged[s]
      <4>1. OwedBy(w, s) \in Nat /\ (batch[w].age < s => OwedBy(w, s) >= n)
        BY <2>3, <2>4, <2>5, OwedNat, MaxBatchNat DEF OwedBy, Batch
      <4> QED
        BY <2>2, <2>3, <2>4, <4>1
    <3> QED
      BY <2>2, <2>4, <2>5, <3>1, LetGo
  <2>6. CASE phase[w] # "send"
    <3>1. n = 0
      BY <2>3, <2>6 DEF TrafficInv, Grounded
    <3> QED
      BY <2>2, <2>4, <2>6, <3>1, BooksUntouched
  <2> QED
    BY <2>5, <2>6
<1>8. ASSUME NEW w \in Workers, Reserve(w) PROVE TrafficInv'
  BY <1>8, ReserveKeepsBooks
<1>9. CASE TestSend
  BY <1>1, <1>9 DEF TestSend
<1>10. CASE Tick
  BY <1>10, TimeKeepsBooks
<1>11. CASE UNCHANGED vars
  BY <1>1, <1>11 DEF vars
<1> QED
  BY <1>2, <1>3, <1>4, <1>5, <1>6, <1>7, <1>8, <1>9, <1>10, <1>11 DEF Next

(* As long as no reply is lost, what the server is handed within a window stays within the
   bound on the reservations of a window plus one batch for every tick, however many ticks
   overlap, crash, throw, abort and refund. *)
THEOREM TrafficAlwaysBounded ==
  ASSUME "reply" \notin FaultKinds
  PROVE  Spec => []TrafficBounded
<1>1. PromiseInv /\ TrafficInv => TrafficBounded
  <2> SUFFICES ASSUME PromiseInv, TrafficInv PROVE TrafficBounded
    OBVIOUS
  <2>1. PICK late \in Lateness : Explains(late)
    BY DEF TrafficInv
  <2>2. WindowSeconds \in 0..PruneAfter /\ WindowSeconds \in Age
    BY WindowInAge, RateWindowAssumption
  <2>3. wire[WindowSeconds] + Total(Owed(WindowSeconds)) <= logged[WindowSeconds] + Total(LateAt(late, WindowSeconds))
    BY <2>1, <2>2 DEF Explains, Balanced
  <2>4. Owed(WindowSeconds) \in [Workers -> 0..MaxBatch]
    BY <2>2, MaxBatchNat DEF PromiseInv, TypeOK, Batch, Owed, OwedBy, Age
  <2>5. Total(Owed(WindowSeconds)) \in Nat
    BY <2>4, TotalBounded
  <2>6. Total(LateAt(late, WindowSeconds)) \in Nat /\ Total(LateAt(late, WindowSeconds)) <= Straddling
    BY <2>2, LateNat, TotalBounded DEF Straddling
  <2>7. /\ wire[WindowSeconds] \in Nat /\ logged[WindowSeconds] \in Nat
        /\ quota \in [Workers -> 0..MaxBatch]
    BY <2>2 DEF PromiseInv, TypeOK, Rows
  <2>8. Cardinality(Tokens(quota)) \in Nat
    BY <2>7, TokensFinite
  <2>9. EffectiveLimit + (Cardinality(Workers) - 1) * MaxBatch \in Int /\ Straddling \in Int
    BY LimitNat, MaxBatchNat, FS_CardinalityType, RateWindowAssumption DEF Straddling
  <2>10. logged[WindowSeconds] <= EffectiveLimit + (Cardinality(Workers) - 1) * MaxBatch
    BY <2>7, <2>8, <2>9 DEF PromiseInv
  <2> QED
    BY <2>3, <2>5, <2>6, <2>7, <2>9, <2>10 DEF TrafficBounded
<1>2. TypeOK /\ TypeOK' /\ TrafficInv /\ [Next]_vars => TrafficInv'
  BY TrafficStep
<1> QED
  BY <1>1, <1>2, TrafficInit, PromiseInit, PromiseStep, TypeCorrect, PTL DEF Spec

-----------------------------------------------------------------------------
(* What is refunded. *)

NothingLost == \A w \in Workers : batch[w].lost = 0

\* Only a lost reply leaves a message handed over that is not counted as attempted.
LEMMA LosesNothing ==
  ASSUME "reply" \notin FaultKinds, TypeOK, NothingLost, [Next]_vars
  PROVE  NothingLost'
<1>1. ASSUME NEW w \in Workers, NEW b, b.lost = 0, batch' = [batch EXCEPT ![w] = b] PROVE NothingLost'
  BY <1>1 DEF TypeOK, NothingLost
<1>2. ASSUME batch' = batch PROVE NothingLost'
  BY <1>2 DEF NothingLost
<1>3. ASSUME NEW w \in Workers, Work(w) PROVE NothingLost'
  <2>1. CASE Begin(w) \/ Count(w) \/ Claim(w) \/ Leave(w)
    BY <1>2, <2>1 DEF Begin, Count, Claim, Leave
  <2>2. CASE Reserve(w)
    <3>1. NewBatch(quota[w]).lost = 0
      BY DEF NewBatch
    <3> QED
      BY <1>1, <2>2, <3>1 DEF Reserve, StartBatch
  <2>3. CASE StartSend(w)
    BY <2>3 DEF StartSend, TypeOK, Batch, NothingLost
  <2>4. CASE Attempted(w)
    BY <2>4 DEF Attempted, TypeOK, Batch, NothingLost
  <2>5. CASE EndBatch(w)
    <3>1. NoBatch.lost = 0
      BY DEF NoBatch, NewBatch
    <3> QED
      BY <1>1, <2>5, <3>1 DEF EndBatch
  <2> QED
    BY <1>3, <2>1, <2>2, <2>3, <2>4, <2>5 DEF Work
<1>4. ASSUME NEW w \in Workers, Break(w) PROVE NothingLost'
  <2>1. CASE TransportFails(w)
    BY <2>1 DEF TransportFails, TypeOK, Batch, NothingLost
  <2>2. CASE RecordThrows(w)
    BY <2>2 DEF RecordThrows, TypeOK, Batch, NothingLost
  <2>3. CASE Crash(w)
    <3>1. NoBatch.lost = 0
      BY DEF NoBatch, NewBatch
    <3> QED
      BY <1>1, <2>3, <3>1 DEF Crash
  <2> QED
    BY <1>4, <2>1, <2>2, <2>3 DEF Break, ReplyLost, Fault
<1>5. CASE TestSend
  BY <1>2, <1>5 DEF TestSend
<1>6. CASE Tick
  BY <1>6 DEF Tick, TypeOK, Batch, NothingLost
<1>7. CASE UNCHANGED vars
  BY <1>2, <1>7 DEF vars
<1> QED
  BY <1>3, <1>4, <1>5, <1>6, <1>7 DEF Next

\* What is deleted from the log is no more than was asked for, however old the rows are.
LEMMA NoMoreDeleted ==
  ASSUME NEW rows \in Rows, NEW a \in Age, NEW n \in Nat
  PROVE  rows[Horizon] - WithoutRows(rows, a, n)[Horizon] <= n
<1>1. Horizon \in Age /\ rows[Horizon] \in Nat /\ rows[a] \in Nat
  BY WindowInAge DEF Age, Rows
<1>2. WithoutRows(rows, a, n)[Horizon] = IF Horizon <= a THEN rows[Horizon] ELSE Greater(rows[a], rows[Horizon] - n)
  BY <1>1 DEF WithoutRows
<1> QED
  BY <1>1, <1>2 DEF Greater

\* A step of which a tick that was sending comes out leaving refunds what it did not attempt.
LEMMA RefundSpares ==
  ASSUME TypeOK, NothingLost, [Next]_vars, NEW w \in Workers, phase[w] = "send", phase'[w] = "leaving"
  PROVE  batch[w].size - (logged[Horizon] - logged'[Horizon]) >= batch[w].attempted + batch[w].lost
<1>1. logged' = WithoutRows(logged, batch[w].age, Refunded(batch[w]))
  <2>1. \A v \in Workers \ {w} : \A p : Enter(v, p) => phase'[w] = phase[w]
    BY DEF Enter, TypeOK
  <2>2. ASSUME NEW v \in Workers \ {w}, Work(v) PROVE FALSE
    BY <2>1, <2>2 DEF Work, Begin, Count, Claim, Reserve, StartBatch, StartSend, Attempted, EndBatch, Leave
  <2>3. ASSUME NEW v \in Workers \ {w}, Break(v) PROVE FALSE
    BY <2>1, <2>3 DEF Break, TransportFails, ReplyLost, RecordThrows, Crash
  <2>4. ASSUME Work(w) PROVE EndBatch(w)
    BY <2>4 DEF Work, Begin, Count, Claim, Reserve, StartSend, Attempted, Leave
  <2>5. ASSUME Break(w) PROVE FALSE
    BY <2>5 DEF Break, TransportFails, ReplyLost, RecordThrows, Crash, Enter, TypeOK
  <2>6. EndBatch(w)
    BY <2>2, <2>3, <2>4, <2>5 DEF Next, TestSend, Tick, vars
  <2> QED
    BY <2>6 DEF EndBatch, Enter, TypeOK
<1>2. batch[w] \in Batch /\ batch[w].lost = 0
  BY DEF TypeOK, NothingLost
<1>3. /\ batch[w].size \in Nat /\ batch[w].attempted \in Nat /\ batch[w].age \in Age
      /\ Refunded(batch[w]) = batch[w].size - batch[w].attempted /\ Refunded(batch[w]) \in Nat
  BY <1>2 DEF Batch, Refunded
<1>4. logged[Horizon] - logged'[Horizon] <= Refunded(batch[w])
  BY <1>1, <1>3, NoMoreDeleted DEF TypeOK
<1>5. logged[Horizon] - logged'[Horizon] \in Int
  <2>1. Horizon \in Age /\ logged[Horizon] \in Nat /\ logged[batch[w].age] \in Nat
    BY <1>3, WindowInAge DEF Age, TypeOK, Rows
  <2>2. logged'[Horizon] \in Int
    BY <1>1, <1>3, <2>1 DEF WithoutRows, Greater
  <2> QED
    BY <2>1, <2>2
<1> QED
  BY <1>2, <1>3, <1>4, <1>5

(* As long as no reply is lost, refunding leaves a row of smtp_send_log for every message of
   the batch that was handed over, however many ticks write, refund and prune meanwhile. *)
THEOREM HandedOverAlwaysLogged ==
  ASSUME "reply" \notin FaultKinds
  PROVE  Spec => HandedOverStaysLogged
<1>1. Init => NothingLost
  BY DEF Init, NothingLost, NoBatch, NewBatch
<1>2. TypeOK /\ NothingLost /\ [Next]_vars => NothingLost'
  BY LosesNothing
<1>3. TypeOK /\ NothingLost /\ [Next]_vars =>
        [\A w \in Workers :
           /\ phase[w] = "send" /\ phase'[w] = "leaving"
           => batch[w].size - (logged[Horizon] - logged'[Horizon]) >= batch[w].attempted + batch[w].lost]_vars
  BY RefundSpares
<1> QED
  BY <1>1, <1>2, <1>3, TypeCorrect, PTL DEF Spec, HandedOverStaysLogged
=============================================================================
