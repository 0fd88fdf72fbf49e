--------------------------- MODULE BatchQueueProofs ---------------------------
(***************************************************************************)
(* What holds of BatchQueue for every set of rows, every batch and size    *)
(* limit and any number of flush calls.                                    *)
(***************************************************************************)
EXTENDS BatchQueue, SequenceTheorems, FiniteSetTheorems, WellFoundedInduction, TLAPS

-------------------------------------------------------------------------------
(* Finite sets of positions and the rows at them.                            *)

\* A nonempty finite set of positions has a last one.
LEMMA LastPosition ==
  ASSUME NEW I \in SUBSET Nat, IsFiniteSet(I), I # {}
  PROVE  \E m \in I : \A k \in I : k <= m
<1> DEFINE NoLast == {J \in FiniteSubsetsOf(Nat) :
                        J # {} /\ ~ \E m \in J : \A k \in J : k <= m}
<1>1. SUFFICES ASSUME NoLast # {} PROVE FALSE
  BY DEF FiniteSubsetsOf
<1>2. IsWellFoundedOn(StrictSubsetOrdering(Nat), FiniteSubsetsOf(Nat))
  BY FS_StrictSubsetOrderingWellFounded
<1>3. PICK J \in NoLast : \A K \in NoLast : <<K, J>> \notin StrictSubsetOrdering(Nat)
  <2> HIDE DEF NoLast
  <2>1. NoLast \subseteq FiniteSubsetsOf(Nat)
    BY DEF NoLast
  <2> QED
    BY <1>1, <1>2, <2>1, WFMin
<1>4. PICK x \in J : TRUE
  OBVIOUS
<1>5. J \in SUBSET Nat /\ IsFiniteSet(J)
  BY DEF FiniteSubsetsOf
<1>6. IsFiniteSet(J \ {x})
  BY <1>5, FS_RemoveElement
<1>7. <<J \ {x}, J>> \in StrictSubsetOrdering(Nat)
  BY <1>4, <1>5 DEF StrictSubsetOrdering
<1>8. J \ {x} \notin NoLast
  BY <1>3, <1>7
<1>9. CASE J \ {x} = {}
  BY <1>4, <1>5, <1>9
<1>10. CASE J \ {x} # {}
  <2>1. PICK m \in J \ {x} : \A k \in J \ {x} : k <= m
    BY <1>5, <1>6, <1>8, <1>10 DEF FiniteSubsetsOf
  <2>2. \A k \in J : k <= IF m <= x THEN x ELSE m
    BY <1>4, <1>5, <2>1
  <2> QED
    BY <1>3, <1>4, <1>5, <2>1, <2>2
<1> QED
  BY <1>9, <1>10

\* A finite set of positions can be listed in increasing order.
LEMMA OrderExists ==
  ASSUME NEW I \in SUBSET Nat, IsFiniteSet(I)
  PROVE  \E p \in [1 .. Cardinality(I) -> I] :
           \A a, b \in 1 .. Cardinality(I) : a < b => p[a] < p[b]
<1> DEFINE Listed(J) == \E p \in [1 .. Cardinality(J) -> J] :
                          \A a, b \in 1 .. Cardinality(J) : a < b => p[a] < p[b]
           Unlisted == {J \in FiniteSubsetsOf(Nat) : ~ Listed(J)}
<1>1. SUFFICES ASSUME Unlisted # {} PROVE FALSE
  BY DEF FiniteSubsetsOf
<1>2. IsWellFoundedOn(StrictSubsetOrdering(Nat), FiniteSubsetsOf(Nat))
  BY FS_StrictSubsetOrderingWellFounded
<1>3. PICK J \in Unlisted : \A K \in Unlisted : <<K, J>> \notin StrictSubsetOrdering(Nat)
  <2> HIDE DEF Unlisted
  <2>1. Unlisted \subseteq FiniteSubsetsOf(Nat)
    BY DEF Unlisted
  <2> QED
    BY <1>1, <1>2, <2>1, WFMin
<1>4. J \in SUBSET Nat /\ IsFiniteSet(J) /\ Cardinality(J) \in Nat
  BY FS_CardinalityType DEF FiniteSubsetsOf
<1>5. J # {}
  <2>1. SUFFICES ASSUME J = {} PROVE FALSE
    OBVIOUS
  <2>2. Cardinality(J) = 0 /\ 1 .. 0 = {}
    BY <2>1, FS_EmptySet
  <2>3. [k \in 1 .. 0 |-> 0] \in [1 .. Cardinality(J) -> J]
    BY <2>1, <2>2
  <2> QED
    BY <2>2, <2>3
<1>6. PICK m \in J : \A k \in J : k <= m
  BY <1>4, <1>5, LastPosition
<1> DEFINE K == J \ {m}
           n == Cardinality(K)
<1>7. K \in SUBSET Nat /\ IsFiniteSet(K) /\ Cardinality(J) = n + 1 /\ n \in Nat
  <2>1. IsFiniteSet(K) /\ n = Cardinality(J) - 1
    BY <1>4, FS_RemoveElement
  <2>2. n \in Nat
    BY <2>1, FS_CardinalityType
  <2> QED
    BY <1>4, <2>1, <2>2
<1>8. <<K, J>> \in StrictSubsetOrdering(Nat)
  BY <1>4 DEF StrictSubsetOrdering
<1>9. Listed(K)
  BY <1>3, <1>7, <1>8 DEF FiniteSubsetsOf
<1>10. PICK p \in [1 .. n -> K] : \A a, b \in 1 .. n : a < b => p[a] < p[b]
  BY <1>9
<1> DEFINE q == [k \in 1 .. (n + 1) |-> IF k = n + 1 THEN m ELSE p[k]]
<1> HIDE DEF n
<1>11. q \in [1 .. (n + 1) -> J]
  BY <1>7, <1>10
<1>12. \A a, b \in 1 .. (n + 1) : a < b => q[a] < q[b]
  <2> SUFFICES ASSUME NEW a \in 1 .. (n + 1), NEW b \in 1 .. (n + 1), a < b
               PROVE  q[a] < q[b]
    OBVIOUS
  <2>1. a \in 1 .. n /\ a # n + 1
    BY <1>7
  <2>2. p[a] \in J /\ p[a] # m /\ q[a] = p[a] /\ p[a] <= m
    BY <1>6, <1>10, <2>1
  <2>3. CASE b = n + 1
    <3>1. q[b] = m /\ m \in Nat /\ p[a] \in Nat
      BY <1>4, <1>6, <2>2, <2>3
    <3> QED
      BY <2>2, <3>1
  <2>4. CASE b # n + 1
    <3>1. b \in 1 .. n /\ q[b] = p[b]
      BY <1>7, <2>4
    <3> QED
      BY <1>10, <2>1, <2>2, <3>1
  <2> QED
    BY <2>3, <2>4
<1>13. Listed(J)
  BY <1>7, <1>11, <1>12
<1> QED
  BY <1>3, <1>13

\* InOrder(I) lists every member of I once, in increasing order.
LEMMA InOrderLists ==
  ASSUME NEW I \in SUBSET Nat, IsFiniteSet(I)
  PROVE  /\ Cardinality(I) \in Nat
         /\ InOrder(I) \in [1 .. Cardinality(I) -> I]
         /\ IsInjective(InOrder(I))
         /\ Range(InOrder(I)) = I
<1> DEFINE n == Cardinality(I)
           p == InOrder(I)
<1>1. n \in Nat
  BY FS_CardinalityType
<1>2. p \in [1 .. n -> I] /\ \A a, b \in 1 .. n : a < b => p[a] < p[b]
  BY OrderExists DEF InOrder
<1> HIDE DEF p
<1>3. \A a, b \in 1 .. n : p[a] = p[b] => a = b
  <2> SUFFICES ASSUME NEW a \in 1 .. n, NEW b \in 1 .. n, a # b
               PROVE  p[a] # p[b]
    OBVIOUS
  <2>1. p[a] \in Nat /\ p[b] \in Nat
    BY <1>2
  <2>2. a < b \/ b < a
    BY <1>1
  <2> QED
    BY <1>2, <2>1, <2>2
<1>4. IsInjective(p)
  BY <1>2, <1>3 DEF IsInjective
<1>5. ASSUME NEW x \in I, x \notin Range(p) PROVE FALSE
  <2>1. IsFiniteSet(I \ {x}) /\ Cardinality(I \ {x}) = n - 1
    BY FS_RemoveElement
  <2>2. p \in [1 .. n -> I \ {x}]
    BY <1>2, <1>5 DEF Range
  <2>3. IsFiniteSet(1 .. n) /\ Cardinality(1 .. n) = n
    BY <1>1, FS_Interval
  <2>4. Cardinality(I \ {x}) < Cardinality(1 .. n)
    BY <1>1, <2>1, <2>3
  <2>5. \E a, b \in 1 .. n : a # b /\ p[a] = p[b]
    <3> DEFINE S == 1 .. n
               T == I \ {x}
    <3> HIDE DEF S, T
    <3>1. IsFiniteSet(S) /\ IsFiniteSet(T) /\ Cardinality(T) < Cardinality(S) /\ p \in [S -> T]
      BY <2>1, <2>2, <2>3, <2>4 DEF S, T
    <3>2. \E a, b \in S : a # b /\ p[a] = p[b]
      BY <3>1, FS_PigeonHole
    <3> QED
      BY <3>2 DEF S
  <2> QED
    BY <1>3, <2>5
<1>6. Range(p) = I
  BY <1>2, <1>5 DEF Range
<1> QED
  BY <1>1, <1>2, <1>4, <1>6 DEF p

\* Pick(s, I) is a sequence of the rows of s at I, none of them twice if s has
\* none twice.
LEMMA PickRows ==
  ASSUME NEW s \in Seq(Items), NEW I \in SUBSET DOMAIN s
  PROVE  /\ IsFiniteSet(I)
         /\ Pick(s, I) \in Seq(Items)
         /\ Len(Pick(s, I)) = Cardinality(I)
         /\ Range(Pick(s, I)) = ItemsAt(s, I)
         /\ IsInjective(s) => IsInjective(Pick(s, I))
<1> DEFINE n == Cardinality(I)
           p == InOrder(I)
           t == [k \in 1 .. n |-> s[p[k]]]
<1>1. DOMAIN s = 1 .. Len(s) /\ Len(s) \in Nat /\ \A k \in DOMAIN s : s[k] \in Items
  BY LenProperties, ElementOfSeq
<1>2. IsFiniteSet(I) /\ I \in SUBSET Nat
  <2>1. IsFiniteSet(DOMAIN s) /\ DOMAIN s \in SUBSET Nat
    BY <1>1, FS_Interval
  <2> QED
    BY <2>1, FS_Subset
<1>3. n \in Nat /\ p \in [1 .. n -> I] /\ IsInjective(p) /\ Range(p) = I
  BY <1>2, InOrderLists
<1>4. Pick(s, I) = t
  BY DEF Pick
<1> HIDE DEF n, p
<1>5. t \in [1 .. n -> Items]
  BY <1>1, <1>3
<1>6. t \in Seq(Items) /\ Len(t) = n
  BY <1>3, <1>5, SeqDef
<1>7. Range(t) = ItemsAt(s, I)
  BY <1>3 DEF Range, ItemsAt
<1>8. IsInjective(s) => IsInjective(t)
  BY <1>1, <1>3 DEF IsInjective
<1> QED
  BY <1>2, <1>4, <1>6, <1>7, <1>8 DEF n

\* A batch consists of positions that were not tried yet.
LEMMA BatchIsUntried ==
  ASSUME NEW s, NEW done
  PROVE  NextBatch(s, done) \subseteq DOMAIN s \ done
BY DEF NextBatch

\* What the empty sequence, a push and a concatenation do to the rows of a queue.
LEMMA EmptyQueue == DOMAIN <<>> = {} /\ Range(<<>>) = {} /\ IsInjective(<<>>)
BY DEF Range, IsInjective

\* A push adds its row at the end and nothing else.
LEMMA PushRow ==
  ASSUME NEW s \in Seq(Items), NEW i \in Items
  PROVE  /\ Append(s, i) \in Seq(Items)
         /\ Range(Append(s, i)) = Range(s) \cup {i}
         /\ IsInjective(s) /\ i \notin Range(s) => IsInjective(Append(s, i))
<1> DEFINE t == Append(s, i)
<1>1. /\ t \in Seq(Items) /\ Len(t) = Len(s) + 1 /\ t[Len(s) + 1] = i
      /\ \A k \in 1 .. Len(s) : t[k] = s[k]
  BY AppendProperties
<1>2. DOMAIN s = 1 .. Len(s) /\ Len(s) \in Nat /\ DOMAIN t = 1 .. (Len(s) + 1)
  BY <1>1, LenProperties
<1> HIDE DEF t
<1>3. 1 .. (Len(s) + 1) = (1 .. Len(s)) \cup {Len(s) + 1}
  BY <1>2
<1>4. Range(t) = Range(s) \cup {i}
  BY <1>1, <1>2, <1>3 DEF Range
<1>5. IsInjective(s) /\ i \notin Range(s) => IsInjective(t)
  BY <1>1, <1>2, <1>3 DEF Range, IsInjective
<1> QED
  BY <1>1, <1>4, <1>5 DEF t

\* A concatenation of disjoint lists without repetition repeats no row.
LEMMA PushRows ==
  ASSUME NEW s \in Seq(Items), NEW t \in Seq(Items)
  PROVE  /\ s \o t \in Seq(Items)
         /\ Range(s \o t) = Range(s) \cup Range(t)
         /\ IsInjective(s) /\ IsInjective(t) /\ Range(s) \cap Range(t) = {}
              => IsInjective(s \o t)
<1> DEFINE u == s \o t
<1>1. /\ u \in Seq(Items) /\ Len(u) = Len(s) + Len(t)
      /\ \A k \in 1 .. Len(s) + Len(t) :
           u[k] = IF k <= Len(s) THEN s[k] ELSE t[k - Len(s)]
  BY ConcatProperties
<1>2. /\ DOMAIN s = 1 .. Len(s) /\ DOMAIN t = 1 .. Len(t) /\ DOMAIN u = 1 .. Len(u)
      /\ Len(s) \in Nat /\ Len(t) \in Nat
  BY <1>1, LenProperties
<1>3. Range(u) = Range(s) \cup Range(t)
  BY RangeConcatenation
<1> HIDE DEF u
<1>4. \A k \in DOMAIN u : k <= Len(s) =>
        k \in DOMAIN s /\ u[k] = s[k] /\ u[k] \in Range(s)
  <2> SUFFICES ASSUME NEW k \in DOMAIN u, k <= Len(s)
               PROVE  k \in DOMAIN s /\ u[k] = s[k]
    BY DEF Range
  <2> QED
    BY <1>1, <1>2
<1>5. \A k \in DOMAIN u : ~ k <= Len(s) =>
        k - Len(s) \in DOMAIN t /\ u[k] = t[k - Len(s)] /\ u[k] \in Range(t)
  <2> SUFFICES ASSUME NEW k \in DOMAIN u, ~ k <= Len(s)
               PROVE  k - Len(s) \in DOMAIN t /\ u[k] = t[k - Len(s)]
    BY DEF Range
  <2> QED
    BY <1>1, <1>2
<1>6. ASSUME IsInjective(s), IsInjective(t), Range(s) \cap Range(t) = {},
             NEW a \in DOMAIN u, NEW b \in DOMAIN u, u[a] = u[b]
      PROVE  a = b
  <2>1. CASE a <= Len(s) /\ b <= Len(s)
    BY <1>4, <1>6, <2>1 DEF IsInjective
  <2>2. CASE ~ a <= Len(s) /\ ~ b <= Len(s)
    <3>1. a - Len(s) = b - Len(s)
      BY <1>5, <1>6, <2>2 DEF IsInjective
    <3>2. a \in Nat /\ b \in Nat /\ Len(s) \in Nat
      BY <1>1, <1>2
    <3> QED
      BY <3>1, <3>2
  <2>3. CASE (a <= Len(s)) # (b <= Len(s))
    BY <1>4, <1>5, <1>6, <2>3
  <2> QED
    BY <2>1, <2>2, <2>3
<1> QED
  BY <1>1, <1>3, <1>6 DEF IsInjective, u

-------------------------------------------------------------------------------
(* The steps that touch the frames of the flushes.                           *)

\* Types of what a flush works on.
FlushTypes ==
  /\ queue \in Seq(Items)
  /\ queueSize \in Nat
  /\ processingPromise \in Flushers \cup {None}
  /\ pc \in [Flushers -> {"idle", "upserting", "returned"}]
  /\ itemsToProcess \in [Flushers -> Seq(Items)]
  /\ handled \in [Flushers -> SUBSET Nat]
  /\ failed \in [Flushers -> BOOLEAN]

\* The part of IInv that is about the queue and the frames alone.
FlushInv == FlushTypes /\ OneFlush /\ FramesOK /\ HeldOnce /\ SizeAccounted

\* Only the flush that owns processingPromise has rows outstanding.
LEMMA OnlyOwnerHolds ==
  ASSUME FlushInv, NEW f \in Flushers, processingPromise # f
  PROVE  pc[f] = "idle" /\ Outstanding(f) = {}
<1>1. pc[f] = "idle" /\ handled[f] = DOMAIN itemsToProcess[f]
  BY DEF FlushInv, FlushTypes, OneFlush, FramesOK
<1> QED
  BY <1>1 DEF Outstanding, ItemsAt

\* The bytes of a set of rows are a number.
LEMMA BytesOfRange ==
  ASSUME NEW s \in Seq(Items) PROVE Range(s) \in SUBSET Items /\ Bytes[Range(s)] \in Nat
<1>1. Range(s) \in SUBSET Items
  BY RangeOfSeq
<1> QED
  BY <1>1, ItemsAssumption

\* flush() on a queue that holds q keeps the flush state in order and neither
\* adds a row nor loses one: those of q are in the queue or in its snapshot.
LEMMA FlushKeeps ==
  ASSUME FlushInv,
         NEW q \in Seq(Items), IsInjective(q), NEW n, n = Bytes[Range(q)],
         \A f \in Flushers : Outstanding(f) \cap Range(q) = {},
         Flush(q, n)
  PROVE  /\ FlushInv'
         /\ Held' = Range(q) \cup UNION {Outstanding(f) : f \in Flushers}
<1>0. n \in Nat
  BY BytesOfRange
<1>1. CASE FlushInProgress \/ q = <<>>
  <2>1. queue' = q /\ queueSize' = n /\ UNCHANGED <<processingPromise, frameVars>>
    BY <1>1 DEF Flush
  <2>2. \A f \in Flushers : Outstanding(f)' = Outstanding(f)
    BY <2>1 DEF Outstanding, frameVars
  <2>3. FlushTypes' /\ OneFlush' /\ FramesOK'
    BY <1>0, <2>1 DEF FlushInv, FlushTypes, OneFlush, FramesOK, frameVars
  <2>4. HeldOnce'
    BY <2>1, <2>2 DEF FlushInv, HeldOnce, frameVars
  <2>5. SizeAccounted'
    BY <2>1 DEF SizeAccounted
  <2>6. Held' = Range(q) \cup UNION {Outstanding(f) : f \in Flushers}
    BY <2>1, <2>2 DEF Held
  <2> QED
    BY <2>3, <2>4, <2>5, <2>6 DEF FlushInv
<1>2. CASE ~ FlushInProgress /\ q # <<>>
  <2>1. PICK f \in Flushers : ProcessQueue(f, q, n)
    BY <1>2 DEF Flush
  <2>2. processingPromise = None /\ None \notin Flushers
    BY <1>2, FlushersAssumption DEF FlushInProgress
  <2>3. \A g \in Flushers : pc[g] = "idle" /\ Outstanding(g) = {}
    BY <2>2, OnlyOwnerHolds
  <2>4. \A g \in Flushers \ {f} : /\ pc'[g] = pc[g]
                                 /\ itemsToProcess'[g] = itemsToProcess[g]
                                 /\ handled'[g] = handled[g]
    BY <2>1 DEF ProcessQueue, FlushInv, FlushTypes
  <2>5. \A g \in Flushers \ {f} : Outstanding(g)' = {}
    BY <2>3, <2>4 DEF Outstanding
  <2>6. CASE sfmcClient
    <3>1. /\ queue' = <<>> /\ queueSize' = 0 /\ processingPromise' = f
          /\ pc'[f] = "upserting" /\ itemsToProcess'[f] = q /\ handled'[f] = {}
      BY <2>1, <2>6 DEF ProcessQueue, FlushInv, FlushTypes
    <3>2. Outstanding(f)' = Range(q)
      BY <3>1 DEF Outstanding, ItemsAt, Range
    <3>3. FlushTypes'
      BY <2>1, <2>6 DEF ProcessQueue, FlushInv, FlushTypes
    <3>4. OneFlush' /\ FramesOK'
      BY <2>2, <2>3, <2>4, <3>1 DEF FlushInv, OneFlush, FramesOK
    <3>5. HeldOnce'
      BY <2>4, <2>5, <3>1, <3>2, EmptyQueue DEF FlushInv, HeldOnce
    <3>6. SizeAccounted'
      BY <3>1, EmptyQueue, ItemsAssumption DEF SizeAccounted
    <3>7. Held' = Range(q) \cup UNION {Outstanding(g) : g \in Flushers}
      BY <2>3, <2>5, <3>1, <3>2, EmptyQueue DEF Held
    <3> QED
      BY <3>3, <3>4, <3>5, <3>6, <3>7 DEF FlushInv
  <2>7. CASE ~ sfmcClient
    <3>1. /\ queue' = q /\ queueSize' = n /\ processingPromise' = f
          /\ pc'[f] = "returned" /\ itemsToProcess'[f] = <<>> /\ handled'[f] = {}
      BY <2>1, <2>7 DEF ProcessQueue, FlushInv, FlushTypes
    <3>2. Outstanding(f)' = {}
      BY <3>1, EmptyQueue DEF Outstanding, ItemsAt
    <3>3. FlushTypes'
      BY <1>0, <2>1, <2>7 DEF ProcessQueue, FlushInv, FlushTypes
    <3>4. OneFlush' /\ FramesOK'
      BY <2>2, <2>3, <2>4, <3>1, EmptyQueue DEF FlushInv, OneFlush, FramesOK
    <3>5. HeldOnce'
      BY <2>4, <2>5, <3>1, <3>2, EmptyQueue DEF FlushInv, HeldOnce
    <3>6. SizeAccounted'
      BY <3>1 DEF SizeAccounted
    <3>7. Held' = Range(q) \cup UNION {Outstanding(g) : g \in Flushers}
      BY <2>3, <2>5, <3>1, <3>2 DEF Held
    <3> QED
      BY <3>3, <3>4, <3>5, <3>6, <3>7 DEF FlushInv
  <2> QED
    BY <2>6, <2>7
<1> QED
  BY <1>1, <1>2

\* A settled batch leaves the snapshot of its flush and disturbs no other.
LEMMA SettleKeeps ==
  ASSUME FlushInv, NEW f \in Flushers, NEW e \in BOOLEAN, pc[f] = "upserting",
         Settle(f, e), UNCHANGED processingPromise
  PROVE  LET B == Batch(f)
             rows == ItemsAt(itemsToProcess[f], B)
         IN  /\ B \subseteq DOMAIN itemsToProcess[f]
             /\ rows \subseteq Outstanding(f)
             /\ Outstanding(f)' = Outstanding(f) \ rows
             /\ \A g \in Flushers \ {f} : Outstanding(g)' = Outstanding(g)
             /\ pc' \in [Flushers -> {"idle", "upserting", "returned"}]
             /\ handled' \in [Flushers -> SUBSET Nat]
             /\ failed' \in [Flushers -> BOOLEAN]
             /\ OneFlush'
             /\ FramesOK'
<1> DEFINE B == Batch(f)
           s == itemsToProcess[f]
<1>1. B \subseteq DOMAIN s \ handled[f]
  BY BatchIsUntried DEF Batch
<1>2. /\ IsInjective(s) /\ s \in Seq(Items) /\ DOMAIN s \subseteq Nat
      /\ handled[f] \subseteq DOMAIN s
  <2>1. IsInjective(s) /\ s \in Seq(Items) /\ handled[f] \subseteq DOMAIN s
    BY DEF FlushInv, FlushTypes, HeldOnce, FramesOK
  <2>2. DOMAIN s = 1 .. Len(s)
    BY <2>1, LenProperties
  <2> QED
    BY <2>1, <2>2
<1> HIDE DEF B
<1>3. /\ handled' = [handled EXCEPT ![f] = handled[f] \cup B]
      /\ itemsToProcess' = itemsToProcess
      /\ failed' = [failed EXCEPT ![f] = failed[f] \/ e]
      /\ pc' = [pc EXCEPT ![f] = IF handled[f] \cup B = DOMAIN s
                                   THEN "returned" ELSE "upserting"]
  BY DEF Settle, Tried, B
<1>4. /\ handled'[f] = handled[f] \cup B
      /\ \A g \in Flushers \ {f} : handled'[g] = handled[g] /\ pc'[g] = pc[g]
  BY <1>3 DEF FlushInv, FlushTypes
<1>5. ItemsAt(s, B) \subseteq Outstanding(f)
  BY <1>1 DEF Outstanding, ItemsAt
<1>6. Outstanding(f)' = Outstanding(f) \ ItemsAt(s, B)
  BY <1>1, <1>2, <1>3, <1>4 DEF Outstanding, ItemsAt, IsInjective
<1>7. \A g \in Flushers \ {f} : Outstanding(g)' = Outstanding(g)
  BY <1>3, <1>4 DEF Outstanding
<1>8. /\ pc' \in [Flushers -> {"idle", "upserting", "returned"}]
      /\ failed' \in [Flushers -> BOOLEAN]
  BY <1>3 DEF FlushInv, FlushTypes
<1>9. handled' \in [Flushers -> SUBSET Nat]
  BY <1>1, <1>2, <1>3 DEF FlushInv, FlushTypes
<1>10. pc'[f] \in {"returned", "upserting"}
  BY <1>3 DEF FlushInv, FlushTypes
<1>11. OneFlush'
  BY <1>4, <1>10 DEF FlushInv, OneFlush
<1>12. pc'[f] # "upserting" => handled'[f] = DOMAIN s
  BY <1>3, <1>4 DEF FlushInv, FlushTypes
<1>13. FramesOK'
  BY <1>1, <1>2, <1>3, <1>4, <1>12 DEF FlushInv, FramesOK
<1> QED
  BY <1>1, <1>5, <1>6, <1>7, <1>8, <1>9, <1>11, <1>13 DEF B

\* A batch that SFMC took leaves memory.
LEMMA UpsertedKeeps ==
  ASSUME FlushInv, NEW f \in Flushers, BatchUpserted(f)
  PROVE  LET rows == ItemsAt(itemsToProcess[f], Batch(f))
         IN  FlushInv' /\ rows \subseteq Held /\ Held' = Held \ rows
<1> DEFINE rows == ItemsAt(itemsToProcess[f], Batch(f))
<1>1. /\ pc[f] = "upserting" /\ Settle(f, FALSE)
      /\ UNCHANGED <<queue, queueSize, processingPromise, itemsToProcess>>
  BY DEF BatchUpserted, queueVars, Settle
<1>2. /\ rows \subseteq Outstanding(f)
      /\ Outstanding(f)' = Outstanding(f) \ rows
      /\ \A g \in Flushers \ {f} : Outstanding(g)' = Outstanding(g)
      /\ pc' \in [Flushers -> {"idle", "upserting", "returned"}]
      /\ handled' \in [Flushers -> SUBSET Nat]
      /\ failed' \in [Flushers -> BOOLEAN]
      /\ OneFlush' /\ FramesOK'
  BY <1>1, SettleKeeps
<1> HIDE DEF rows
<1>3. FlushTypes'
  BY <1>1, <1>2 DEF FlushInv, FlushTypes
<1>4. HeldOnce'
  BY <1>1, <1>2 DEF FlushInv, HeldOnce
<1>5. SizeAccounted'
  BY <1>1 DEF FlushInv, SizeAccounted
<1>6. Held' = Held \ rows /\ rows \subseteq Held
  <2>1. Outstanding(f) \cap Range(queue) = {}
    BY DEF FlushInv, HeldOnce
  <2>2. \A g \in Flushers \ {f} : Outstanding(f) \cap Outstanding(g) = {}
    BY DEF FlushInv, HeldOnce
  <2> QED
    BY <1>1, <1>2, <2>1, <2>2 DEF Held
<1> QED
  BY <1>2, <1>3, <1>4, <1>5, <1>6 DEF FlushInv, rows

\* A batch that failed moves from its snapshot to the end of the queue.
LEMMA FailedKeeps ==
  ASSUME FlushInv, NEW f \in Flushers, BatchFailed(f)
  PROVE  /\ FlushInv'
         /\ Held' = Held
         /\ \E taken \in SUBSET Held : inserted' = inserted \cup taken
<1> DEFINE s == itemsToProcess[f]
           rows == ItemsAt(s, Batch(f))
           picked == Pick(s, Batch(f))
<1>1. /\ pc[f] = "upserting" /\ Settle(f, TRUE)
      /\ UNCHANGED <<processingPromise, itemsToProcess>>
      /\ queue' = queue \o picked
      /\ queueSize' = queueSize + Bytes[rows]
  BY DEF BatchFailed, Settle, Requeue, RequeueSize, BytesOf
<1>2. /\ Batch(f) \subseteq DOMAIN s
      /\ rows \subseteq Outstanding(f)
      /\ Outstanding(f)' = Outstanding(f) \ rows
      /\ \A g \in Flushers \ {f} : Outstanding(g)' = Outstanding(g)
      /\ pc' \in [Flushers -> {"idle", "upserting", "returned"}]
      /\ handled' \in [Flushers -> SUBSET Nat]
      /\ failed' \in [Flushers -> BOOLEAN]
      /\ OneFlush' /\ FramesOK'
  BY <1>1, SettleKeeps
<1>3. s \in Seq(Items) /\ IsInjective(s) /\ queue \in Seq(Items) /\ IsInjective(queue)
  BY DEF FlushInv, FlushTypes, HeldOnce
<1>4. picked \in Seq(Items) /\ Range(picked) = rows /\ IsInjective(picked)
  BY <1>2, <1>3, PickRows
<1>5. Outstanding(f) \cap Range(queue) = {}
  BY DEF FlushInv, HeldOnce
<1>6. \A g \in Flushers \ {f} : Outstanding(f) \cap Outstanding(g) = {}
  BY DEF FlushInv, HeldOnce
<1>7. rows \in SUBSET Items /\ Range(queue) \in SUBSET Items /\ rows \cap Range(queue) = {}
  BY <1>2, <1>3, <1>4, <1>5, RangeOfSeq
<1>8. \E taken \in SUBSET Held : inserted' = inserted \cup taken
  <2>1. PICK k \in 0 .. Len(picked) : inserted' = inserted \cup ItemsAt(picked, 1 .. k)
    BY DEF BatchFailed
  <2>2. DOMAIN picked = 1 .. Len(picked) /\ Len(picked) \in Nat
    BY <1>4, LenProperties
  <2>3. ItemsAt(picked, 1 .. k) \subseteq Range(picked)
    BY <2>2 DEF ItemsAt, Range
  <2> HIDE DEF picked
  <2>4. ItemsAt(picked, 1 .. k) \subseteq Held
    BY <1>2, <1>4, <2>3 DEF Held
  <2> QED
    BY <2>1, <2>4
<1> HIDE DEF rows, picked
<1>9. /\ queue' \in Seq(Items) /\ IsInjective(queue')
      /\ Range(queue') = Range(queue) \cup rows
  BY <1>1, <1>3, <1>4, <1>7, PushRows
<1>10. SizeAccounted' /\ queueSize' \in Nat
  <2>1. Bytes[Range(queue) \cup rows] = Bytes[Range(queue)] + Bytes[rows]
    BY <1>7, ItemsAssumption
  <2>2. Bytes[rows] \in Nat /\ queueSize \in Nat /\ queueSize = Bytes[Range(queue)]
    BY <1>7, ItemsAssumption DEF FlushInv, FlushTypes, SizeAccounted
  <2> QED
    BY <1>1, <1>9, <2>1, <2>2 DEF SizeAccounted
<1>11. FlushTypes'
  BY <1>1, <1>2, <1>9, <1>10 DEF FlushInv, FlushTypes
<1>12. HeldOnce'
  <2>1. /\ \A g \in Flushers : IsInjective(itemsToProcess'[g])
        /\ \A g \in Flushers : Outstanding(g) \cap Range(queue) = {}
        /\ \A g, h \in Flushers : g # h => Outstanding(g) \cap Outstanding(h) = {}
    BY <1>1 DEF FlushInv, HeldOnce
  <2>2. \A g \in Flushers : Outstanding(g)' \subseteq Outstanding(g)
    BY <1>2
  <2>3. \A g \in Flushers : Outstanding(g)' \cap Range(queue') = {}
    BY <1>2, <1>9, <2>1
  <2>4. \A g, h \in Flushers : g # h => Outstanding(g)' \cap Outstanding(h)' = {}
    BY <2>1, <2>2
  <2> QED
    BY <1>9, <2>1, <2>3, <2>4 DEF HeldOnce
<1>13. Held' = Held
  BY <1>2, <1>9 DEF Held
<1> QED
  BY <1>2, <1>8, <1>10, <1>11, <1>12, <1>13 DEF FlushInv

\* A flush that returns gives its slot back; its snapshot held nothing any more.
LEMMA ReturnsKeeps ==
  ASSUME FlushInv, NEW f \in Flushers, FlushReturns(f)
  PROVE  FlushInv' /\ Held' = Held
<1>1. /\ pc[f] = "returned" /\ pc' = [pc EXCEPT ![f] = "idle"]
      /\ itemsToProcess' = [itemsToProcess EXCEPT ![f] = <<>>]
      /\ handled' = [handled EXCEPT ![f] = {}]
      /\ failed' = [failed EXCEPT ![f] = FALSE]
      /\ processingPromise' = None
      /\ queue' = queue /\ queueSize' = queueSize
  BY DEF FlushReturns, Awaits, queueVars
<1>2. processingPromise = f /\ None \notin Flushers
  BY <1>1, FlushersAssumption DEF FlushInv, OneFlush
<1>3. \A g \in Flushers \ {f} : pc[g] = "idle" /\ Outstanding(g) = {}
  BY <1>2, OnlyOwnerHolds
<1>4. /\ pc'[f] = "idle" /\ itemsToProcess'[f] = <<>> /\ handled'[f] = {}
      /\ \A g \in Flushers \ {f} : /\ pc'[g] = pc[g] /\ handled'[g] = handled[g]
                                  /\ itemsToProcess'[g] = itemsToProcess[g]
  BY <1>1 DEF FlushInv, FlushTypes
<1>5. Outstanding(f) = {}
  BY <1>1 DEF FlushInv, FramesOK, Outstanding, ItemsAt
<1>6. \A g \in Flushers : Outstanding(g)' = {} /\ Outstanding(g) = {}
  <2>1. Outstanding(f)' = {}
    BY <1>4, EmptyQueue DEF Outstanding, ItemsAt
  <2>2. \A g \in Flushers \ {f} : Outstanding(g)' = Outstanding(g)
    BY <1>4 DEF Outstanding
  <2> QED
    BY <1>3, <1>5, <2>1, <2>2
<1>7. FlushTypes'
  BY <1>1 DEF FlushInv, FlushTypes
<1>8. OneFlush' /\ FramesOK'
  BY <1>1, <1>2, <1>3, <1>4, EmptyQueue DEF FlushInv, OneFlush, FramesOK
<1>9. HeldOnce' /\ SizeAccounted'
  BY <1>1, <1>4, <1>6, EmptyQueue DEF FlushInv, HeldOnce, SizeAccounted
<1>10. Held' = Held
  BY <1>1, <1>6 DEF Held
<1> QED
  BY <1>7, <1>8, <1>9, <1>10 DEF FlushInv

-------------------------------------------------------------------------------
(* The inductive invariant.                                                  *)

\* Types of the state a flush does not work on.
OtherTypes ==
  /\ flushTimer \in BOOLEAN
  /\ sfmcClient \in BOOLEAN
  /\ stats \in [totalQueued : Nat, totalProcessed : Nat]
  /\ process \in {"up", "exited", "crashed"}
  /\ shutdown \in {"no", "flushing", "returned"}
  /\ shutdownOk \in BOOLEAN
  /\ accepted \subseteq Items
  /\ atSignal \subseteq Items
  /\ busyAtSignal \in BOOLEAN
  /\ inserted \subseteq Items

\* The conjuncts of IInv that the steps reason about together.
LEMMA IInvParts ==
  IInv <=> /\ FlushInv
           /\ OtherTypes
           /\ HeldAccepted
           /\ NothingForgotten
BY DEF IInv, TypeOK, FlushInv, FlushTypes, OtherTypes

\* The inductive invariant holds before initQueue().
LEMMA InitIInv == Init => IInv
<1> SUFFICES ASSUME Init PROVE IInv
  OBVIOUS
<1>1. \A f \in Flushers : Outstanding(f) = {}
  BY DEF Init, Outstanding, ItemsAt
<1>2. Held = {}
  BY <1>1, EmptyQueue DEF Init, Held
<1>3. FlushTypes
  BY DEF Init, FlushTypes
<1>4. OneFlush /\ FramesOK
  BY EmptyQueue, FlushersAssumption DEF Init, OneFlush, FramesOK
<1>5. HeldOnce
  BY <1>1, EmptyQueue DEF Init, HeldOnce
<1>6. SizeAccounted
  BY EmptyQueue, ItemsAssumption DEF Init, SizeAccounted
<1>7. OtherTypes
  BY DEF Init, OtherTypes
<1> QED
  BY <1>2, <1>3, <1>4, <1>5, <1>6, <1>7, IInvParts
     DEF Init, FlushInv, HeldAccepted, NothingForgotten

\* flush() called on the queue as it is.
LEMMA FlushInPlace ==
  ASSUME IInv, Flush(queue, queueSize)
  PROVE  FlushInv' /\ Held' = Held
<1>1. /\ FlushInv /\ queue \in Seq(Items) /\ IsInjective(queue)
      /\ queueSize = Bytes[Range(queue)]
      /\ \A f \in Flushers : Outstanding(f) \cap Range(queue) = {}
  BY IInvParts DEF FlushInv, FlushTypes, HeldOnce, SizeAccounted
<1> QED
  BY <1>1, FlushKeeps DEF Held

\* enqueue() adds its row to what is held.
LEMMA EnqueueKeeps ==
  ASSUME IInv, NEW i \in Items, Enqueue(i)
  PROVE  FlushInv' /\ i \notin Held /\ Held' = Held \cup {i}
<1> DEFINE q == Append(queue, i)
           n == queueSize + Bytes[{i}]
<1>1. /\ FlushInv /\ queue \in Seq(Items) /\ IsInjective(queue)
      /\ queueSize = Bytes[Range(queue)]
      /\ \A f \in Flushers : Outstanding(f) \cap Range(queue) = {}
  BY IInvParts DEF FlushInv, FlushTypes, HeldOnce, SizeAccounted
<1>2. i \notin Held
  BY IInvParts DEF Enqueue, HeldAccepted
<1>3. i \notin Range(queue) /\ \A f \in Flushers : i \notin Outstanding(f)
  BY <1>2 DEF Held
<1>4. q \in Seq(Items) /\ Range(q) = Range(queue) \cup {i} /\ IsInjective(q)
  BY <1>1, <1>3, PushRow
<1>5. n = Bytes[Range(q)]
  <2>1. Range(queue) \in SUBSET Items /\ {i} \in SUBSET Items
    BY <1>1, RangeOfSeq
  <2>2. Range(queue) \cap {i} = {}
    BY <1>3
  <2> QED
    BY <1>1, <1>4, <2>1, <2>2, ItemsAssumption
<1>6. \A f \in Flushers : Outstanding(f) \cap Range(q) = {}
  BY <1>1, <1>3, <1>4
<1>7. /\ \/ Flush(q, n)
         \/ queue' = q /\ queueSize' = n /\ UNCHANGED <<processingPromise, frameVars>>
  BY DEF Enqueue
<1> HIDE DEF q, n
<1>8. FlushInv' /\ Held' = Range(q) \cup UNION {Outstanding(f) : f \in Flushers}
  <2>1. CASE Flush(q, n)
    BY <1>1, <1>4, <1>5, <1>6, <2>1, FlushKeeps
  <2>2. CASE queue' = q /\ queueSize' = n /\ UNCHANGED <<processingPromise, frameVars>>
    <3>1. \A f \in Flushers : Outstanding(f)' = Outstanding(f)
      BY <2>2 DEF Outstanding, frameVars
    <3>2. FlushTypes' /\ OneFlush' /\ FramesOK'
      BY <1>1, <1>4, <1>5, <2>2, BytesOfRange
         DEF FlushInv, FlushTypes, OneFlush, FramesOK, frameVars
    <3>3. HeldOnce' /\ SizeAccounted'
      BY <1>1, <1>4, <1>5, <1>6, <2>2, <3>1
         DEF FlushInv, HeldOnce, SizeAccounted, frameVars
    <3> QED
      BY <2>2, <3>1, <3>2, <3>3 DEF FlushInv, Held
  <2> QED
    BY <1>7, <2>1, <2>2
<1> QED
  BY <1>2, <1>4, <1>8 DEF Held

\* Steps that leave the queue and the flushes alone.
LEMMA OthersKeep ==
  ASSUME IInv, UNCHANGED <<queueVars, processingPromise, frameVars>>
  PROVE  FlushInv' /\ Held' = Held
<1>1. \A f \in Flushers : Outstanding(f)' = Outstanding(f)
  BY DEF Outstanding, frameVars
<1>2. Held' = Held
  BY <1>1 DEF Held, queueVars
<1>3. FlushInv
  BY IInvParts
<1>4. FlushTypes' /\ OneFlush' /\ FramesOK'
  BY <1>3 DEF FlushInv, FlushTypes, OneFlush, FramesOK, frameVars, queueVars
<1>5. HeldOnce' /\ SizeAccounted'
  BY <1>1, <1>3 DEF FlushInv, HeldOnce, SizeAccounted, frameVars, queueVars
<1> QED
  BY <1>2, <1>4, <1>5 DEF FlushInv

\* Every step of the queue keeps the flush state and the types, and is a step (or
\* a stutter) of the abstract buffer.
LEMMA StepRefines ==
  ASSUME IInv, [Next]_vars
  PROVE  FlushInv' /\ OtherTypes' /\ [Buffer!Next]_(Buffer!vars)
<1> USE DEF Buffer!Next, Buffer!Accept, Buffer!Deliver, Buffer!Stop, Buffer!vars
<1>0. FlushInv /\ OtherTypes /\ HeldAccepted /\ NothingForgotten
  BY IInvParts
<1>1. CASE InitQueue
  <2>1. FlushInv' /\ Held' = Held
    BY <1>1, OthersKeep DEF InitQueue
  <2>2. OtherTypes'
    BY <1>0, <1>1 DEF InitQueue, OtherTypes, shutdownVars
  <2> QED
    BY <1>1, <2>1, <2>2 DEF InitQueue
<1>2. ASSUME NEW i \in Items, Enqueue(i)
      PROVE  FlushInv' /\ OtherTypes' /\ [Buffer!Next]_(Buffer!vars)
  <2>1. FlushInv' /\ Held' = Held \cup {i}
    BY <1>2, EnqueueKeeps
  <2>2. /\ i \notin accepted /\ accepted' = accepted \cup {i} /\ process = "up"
        /\ stats' = [stats EXCEPT !.totalQueued = @ + 1]
        /\ UNCHANGED <<flushTimer, sfmcClient, process, shutdownVars, inserted>>
    BY <1>2 DEF Enqueue
  <2>3. OtherTypes'
    BY <1>0, <2>2 DEF OtherTypes, shutdownVars
  <2>4. Buffer!Accept(i)
    BY <2>1, <2>2
  <2> QED
    BY <2>1, <2>3, <2>4
<1>3. CASE TimerFlush \/ AdminFlush
  <2>1. Flush(queue, queueSize) /\ UNCHANGED <<flushTimer, sfmcClient, stats, process,
                                             shutdownVars, accepted, inserted>>
    BY <1>3 DEF TimerFlush, AdminFlush
  <2>2. FlushInv' /\ Held' = Held
    BY <2>1, FlushInPlace
  <2>3. OtherTypes'
    BY <1>0, <2>1 DEF OtherTypes, shutdownVars
  <2> QED
    BY <2>1, <2>2, <2>3
<1>4. ASSUME NEW f \in Flushers, BatchUpserted(f)
      PROVE  FlushInv' /\ OtherTypes' /\ [Buffer!Next]_(Buffer!vars)
  <2> DEFINE rows == ItemsAt(itemsToProcess[f], Batch(f))
  <2>1. FlushInv' /\ rows \subseteq Held /\ Held' = Held \ rows
    BY <1>0, <1>4, UpsertedKeeps
  <2>2. IsFiniteSet(Batch(f)) /\ Cardinality(Batch(f)) \in Nat
    <3>1. itemsToProcess[f] \in Seq(Items) /\ Batch(f) \subseteq DOMAIN itemsToProcess[f]
      BY <1>0, BatchIsUntried DEF Batch, FlushInv, FlushTypes
    <3> QED
      BY <3>1, PickRows, FS_CardinalityType
  <2>3. /\ inserted' = inserted \cup rows /\ process = "up"
        /\ stats' = [stats EXCEPT !.totalProcessed = @ + Cardinality(Batch(f))]
        /\ UNCHANGED <<flushTimer, sfmcClient, process, shutdownVars, accepted>>
    BY <1>4 DEF BatchUpserted, Processed
  <2> HIDE DEF rows
  <2>4. OtherTypes'
    BY <1>0, <2>1, <2>2, <2>3 DEF OtherTypes, shutdownVars, HeldAccepted
  <2>5. Buffer!Deliver(rows, rows)
    BY <2>1, <2>3
  <2> QED
    BY <2>1, <2>4, <2>5
<1>5. ASSUME NEW f \in Flushers, BatchFailed(f)
      PROVE  FlushInv' /\ OtherTypes' /\ [Buffer!Next]_(Buffer!vars)
  <2>1. FlushInv' /\ Held' = Held /\ \E taken \in SUBSET Held : inserted' = inserted \cup taken
    BY <1>0, <1>5, FailedKeeps
  <2>2. PICK taken \in SUBSET Held : inserted' = inserted \cup taken
    BY <2>1
  <2>3. process = "up" /\ UNCHANGED <<flushTimer, sfmcClient, stats, process,
                                     shutdownVars, accepted>>
    BY <1>5 DEF BatchFailed
  <2>4. OtherTypes'
    BY <1>0, <2>2, <2>3 DEF OtherTypes, shutdownVars, HeldAccepted
  <2>5. Buffer!Deliver(taken, {}) /\ {} \in SUBSET Held
    BY <2>1, <2>2, <2>3
  <2>6. Buffer!Next
    BY <2>2, <2>5
  <2> QED
    BY <2>1, <2>4, <2>6
<1>6. ASSUME NEW f \in Flushers, FlushReturns(f)
      PROVE  FlushInv' /\ OtherTypes' /\ [Buffer!Next]_(Buffer!vars)
  <2>1. FlushInv' /\ Held' = Held
    BY <1>0, <1>6, ReturnsKeeps
  <2>2. OtherTypes'
    BY <1>0, <1>6 DEF FlushReturns, Awaits, ResultOk, OtherTypes, FlushInv, FlushTypes
  <2> QED
    BY <1>6, <2>1, <2>2 DEF FlushReturns, Awaits
<1>7. CASE Shutdown
  <2>1. FlushInv' /\ Held' = Held
    BY <1>7, FlushInPlace DEF Shutdown
  <2>2. OtherTypes'
    BY <1>0, <1>7 DEF Shutdown, OtherTypes, FlushInProgress
  <2> QED
    BY <1>7, <2>1, <2>2 DEF Shutdown
<1>8. CASE Exit \/ Crash
  <2>1. /\ process = "up" /\ process' \in {"exited", "crashed"}
        /\ UNCHANGED <<queueVars, processingPromise, frameVars, flushTimer, sfmcClient,
                      stats, shutdownVars, accepted, inserted>>
    BY <1>8 DEF Exit, Crash
  <2>2. FlushInv' /\ Held' = Held
    BY <2>1, OthersKeep
  <2>3. OtherTypes'
    BY <1>0, <2>1 DEF OtherTypes, shutdownVars
  <2>4. Buffer!Stop
    BY <2>1, <2>2
  <2> QED
    BY <2>2, <2>3, <2>4
<1>9. CASE UNCHANGED vars
  <2>1. UNCHANGED <<queueVars, processingPromise, frameVars, flushTimer, sfmcClient,
                    stats, process, shutdownVars, accepted, inserted>>
    BY <1>9 DEF vars, queueVars
  <2>2. FlushInv' /\ Held' = Held
    BY <2>1, OthersKeep
  <2>3. OtherTypes'
    BY <1>0, <2>1 DEF OtherTypes, shutdownVars
  <2> QED
    BY <2>1, <2>2, <2>3
<1> QED
  BY <1>1, <1>2, <1>3, <1>4, <1>5, <1>6, <1>7, <1>8, <1>9
     DEF Next, FlushStep, Terminated

\* What the abstract buffer keeps: what it holds was accepted, and what was
\* accepted is held or is a row of the Data Extension.
LEMMA BufferKeeps ==
  ASSUME HeldAccepted, NothingForgotten, [Buffer!Next]_(Buffer!vars)
  PROVE  HeldAccepted' /\ NothingForgotten'
<1> USE DEF HeldAccepted, NothingForgotten
<1>1. ASSUME NEW i \in Items, Buffer!Accept(i) PROVE HeldAccepted' /\ NothingForgotten'
  BY <1>1 DEF Buffer!Accept
<1>2. ASSUME NEW written \in SUBSET Held, NEW confirmed \in SUBSET Held,
             Buffer!Deliver(written, confirmed)
      PROVE  HeldAccepted' /\ NothingForgotten'
  BY <1>2 DEF Buffer!Deliver
<1>3. CASE Buffer!Stop \/ UNCHANGED Buffer!vars
  BY <1>3 DEF Buffer!Stop, Buffer!vars
<1> QED
  BY <1>1, <1>2, <1>3 DEF Buffer!Next

\* The inductive invariant holds in every reachable state.
THEOREM InductiveInvariant == Spec => []IInv
<1>1. Init => IInv
  BY InitIInv
<1>2. IInv /\ [Next]_vars => IInv'
  <2> SUFFICES ASSUME IInv, [Next]_vars PROVE IInv'
    OBVIOUS
  <2>1. FlushInv' /\ OtherTypes' /\ HeldAccepted' /\ NothingForgotten'
    BY StepRefines, BufferKeeps, IInvParts
  <2> QED
    BY <2>1 DEF IInv, TypeOK, FlushInv, FlushTypes, OtherTypes
<1> QED
  BY <1>1, <1>2, PTL DEF Spec

\* Type correctness of the queue's state.
THEOREM TypeCorrect == Spec => []TypeOK
BY InductiveInvariant, PTL DEF IInv

\* Mutual exclusion of flushes: processingPromise lets one processQueue() at a
\* time run, however many callers of flush() there are.
THEOREM MutualExclusion == Spec => []OneFlush
BY InductiveInvariant, PTL DEF IInv

\* No interleaving of pushes, flushes and failures forgets an accepted row.
THEOREM NoRowForgotten == Spec => []NothingForgotten
BY InductiveInvariant, PTL DEF IInv

\* No row is held twice, so no two requests carry it at the same time.
THEOREM NoRowTwice == Spec => []HeldOnce
BY InductiveInvariant, PTL DEF IInv

\* queueSize is the bytes of the rows in the queue.
THEOREM SizeIsRight == Spec => []SizeAccounted
BY InductiveInvariant, PTL DEF IInv

\* lib/queue.js implements the at-least-once buffer.
THEOREM ImplementsBuffer == Spec => BufferSpec
<1>1. Init => Buffer!Init
  <2> SUFFICES ASSUME Init PROVE Buffer!Init
    OBVIOUS
  <2>1. \A f \in Flushers : Outstanding(f) = {}
    BY DEF Init, Outstanding, ItemsAt
  <2>2. Held = {}
    BY <2>1, EmptyQueue DEF Init, Held
  <2> QED
    BY <2>2 DEF Init, Buffer!Init
<1>2. IInv /\ [Next]_vars => [Buffer!Next]_(Buffer!vars)
  BY StepRefines
<1> QED
  BY <1>1, <1>2, InductiveInvariant, PTL DEF Spec, BufferSpec, Buffer!Spec

\* What SFMC confirmed is never sent again.
THEOREM ConfirmedStays == Spec => ConfirmedForGood
<1>1. IInv /\ [Next]_vars => [accepted \ Held \subseteq accepted' \ Held']_vars
  <2> SUFFICES ASSUME IInv, [Next]_vars
               PROVE  accepted \ Held \subseteq accepted' \ Held'
    OBVIOUS
  <2>1. [Buffer!Next]_(Buffer!vars)
    BY StepRefines
  <2>2. ASSUME NEW i \in Items, Buffer!Accept(i)
        PROVE  accepted \ Held \subseteq accepted' \ Held'
    BY <2>2 DEF Buffer!Accept
  <2>3. ASSUME NEW written \in SUBSET Held, NEW confirmed \in SUBSET Held,
               Buffer!Deliver(written, confirmed)
        PROVE  accepted \ Held \subseteq accepted' \ Held'
    BY <2>3 DEF Buffer!Deliver
  <2>4. CASE Buffer!Stop \/ UNCHANGED Buffer!vars
    BY <2>4 DEF Buffer!Stop, Buffer!vars
  <2> QED
    BY <2>1, <2>2, <2>3, <2>4 DEF Buffer!Next
<1> QED
  BY <1>1, InductiveInvariant, PTL DEF Spec, ConfirmedForGood

-------------------------------------------------------------------------------
(* The statistics.                                                           *)

StatsInv == IsFiniteSet(Held) /\ StatsBalance

\* As many rows as positions.
LEMMA RowsOfBatch ==
  ASSUME NEW s \in Seq(Items), IsInjective(s), NEW I \in SUBSET DOMAIN s
  PROVE  IsFiniteSet(ItemsAt(s, I)) /\ Cardinality(ItemsAt(s, I)) = Cardinality(I)
<1> DEFINE rows == ItemsAt(s, I)
           b == [k \in I |-> s[k]]
<1>1. IsFiniteSet(I)
  BY PickRows
<1>2. b \in [I -> rows] /\ IsInjective(b) /\ \A r \in rows : \E k \in I : b[k] = r
  BY DEF ItemsAt, IsInjective
<1>3. b \in Bijection(I, rows)
  BY <1>2 DEF Bijection, Injection, Surjection
<1> HIDE DEF rows
<1>4. ExistsBijection(I, rows)
  BY <1>3 DEF ExistsBijection
<1> QED
  BY <1>1, <1>4, FS_Bijection DEF rows

\* Every step of the queue keeps the statistics balanced.
LEMMA StatsStep ==
  ASSUME IInv, StatsInv, [Next]_vars
  PROVE  StatsInv'
<1> USE DEF StatsInv, StatsBalance
<1>0. /\ FlushInv /\ stats \in [totalQueued : Nat, totalProcessed : Nat]
      /\ IsFiniteSet(Held) /\ Cardinality(Held) \in Nat
  BY IInvParts, FS_CardinalityType DEF OtherTypes
<1>1. ASSUME NEW i \in Items, Enqueue(i) PROVE StatsInv'
  <2>1. i \notin Held /\ Held' = Held \cup {i}
    BY <1>1, EnqueueKeeps
  <2>2. IsFiniteSet(Held') /\ Cardinality(Held') = Cardinality(Held) + 1
    BY <1>0, <2>1, FS_AddElement
  <2>3. stats' = [stats EXCEPT !.totalQueued = @ + 1]
    BY <1>1 DEF Enqueue
  <2> QED
    BY <1>0, <2>2, <2>3
<1>2. ASSUME NEW f \in Flushers, BatchUpserted(f) PROVE StatsInv'
  <2> DEFINE rows == ItemsAt(itemsToProcess[f], Batch(f))
  <2>1. rows \subseteq Held /\ Held' = Held \ rows
    BY <1>0, <1>2, UpsertedKeeps
  <2>2. Cardinality(rows) = Cardinality(Batch(f)) /\ IsFiniteSet(rows)
    <3>1. /\ itemsToProcess[f] \in Seq(Items) /\ IsInjective(itemsToProcess[f])
          /\ Batch(f) \subseteq DOMAIN itemsToProcess[f]
      BY <1>0, BatchIsUntried DEF Batch, FlushInv, FlushTypes, HeldOnce
    <3> QED
      BY <3>1, RowsOfBatch
  <2> HIDE DEF rows
  <2>3. /\ IsFiniteSet(Held') /\ Cardinality(rows) \in Nat
        /\ Cardinality(Held') = Cardinality(Held) - Cardinality(rows)
    <3>1. IsFiniteSet(Held \ rows)
          /\ Cardinality(Held \ rows) = Cardinality(Held) - Cardinality(Held \cap rows)
      BY <1>0, FS_Difference
    <3>2. Held \cap rows = rows
      BY <2>1
    <3> QED
      BY <2>1, <2>2, <3>1, <3>2, FS_CardinalityType
  <2>4. stats' = [stats EXCEPT !.totalProcessed = @ + Cardinality(rows)]
    BY <1>2, <2>2 DEF BatchUpserted, Processed
  <2> QED
    BY <1>0, <2>3, <2>4
<1>3. ASSUME NEW f \in Flushers, BatchFailed(f) PROVE StatsInv'
  BY <1>0, <1>3, FailedKeeps DEF BatchFailed
<1>4. ASSUME NEW f \in Flushers, FlushReturns(f) PROVE StatsInv'
  BY <1>0, <1>4, ReturnsKeeps DEF FlushReturns, Awaits
<1>5. CASE TimerFlush \/ AdminFlush \/ Shutdown
  BY <1>0, <1>5, FlushInPlace DEF TimerFlush, AdminFlush, Shutdown
<1>6. CASE InitQueue \/ Exit \/ Crash
  BY <1>0, <1>6, OthersKeep DEF InitQueue, Exit, Crash
<1>7. CASE UNCHANGED vars
  <2>1. UNCHANGED <<queueVars, processingPromise, frameVars, stats>>
    BY <1>7 DEF vars, queueVars
  <2> QED
    BY <1>0, <2>1, OthersKeep
<1> QED
  BY <1>1, <1>2, <1>3, <1>4, <1>5, <1>6, <1>7 DEF Next, FlushStep, Terminated

\* The counters getQueueStats() reports balance: what was queued was processed or
\* is held, also while batches fail and are re-queued.
THEOREM StatsAreRight == Spec => []StatsBalance
<1>1. Init => StatsInv
  <2> SUFFICES ASSUME Init PROVE StatsInv
    OBVIOUS
  <2>1. \A f \in Flushers : Outstanding(f) = {}
    BY DEF Init, Outstanding, ItemsAt
  <2>2. Held = {}
    BY <2>1, EmptyQueue DEF Init, Held
  <2> QED
    BY <2>2, FS_EmptySet DEF Init, StatsInv, StatsBalance
<1>2. IInv /\ StatsInv /\ [Next]_vars => StatsInv'
  BY StatsStep
<1>3. StatsInv => StatsBalance
  BY DEF StatsInv
<1> QED
  BY <1>1, <1>2, <1>3, InductiveInvariant, PTL DEF Spec

-------------------------------------------------------------------------------
(* A shutdown() that finds no flush in progress.                             *)

\* While such a shutdown() waits, the flush it waits for has every row accepted
\* before the signal that is not in SFMC, unless a batch of it failed.
QuietInv ==
  /\ shutdown # "returned" => ~ shutdownOk
  /\ shutdown = "flushing" /\ ~ busyAtSignal =>
       /\ processingPromise \in Flushers
       /\ ~ failed[processingPromise] =>
            atSignal \subseteq inserted \cup Outstanding(processingPromise)
  /\ QuietShutdownDelivers

\* Steps that leave the flushes and shutdown() alone keep QuietInv.
LEMMA QuietFlushUnchanged ==
  ASSUME QuietInv, UNCHANGED <<shutdownVars, processingPromise, frameVars>>,
         inserted \subseteq inserted'
  PROVE  QuietInv'
<1>1. Outstanding(processingPromise)' = Outstanding(processingPromise)
  BY DEF Outstanding, frameVars
<1> QED
  BY <1>1 DEF QuietInv, QuietShutdownDelivers, shutdownVars, frameVars

\* A flush() of another caller while shutdown() waits starts nothing.
LEMMA QuietFlush ==
  ASSUME QuietInv, NEW q, NEW n, Flush(q, n), UNCHANGED <<shutdownVars, inserted>>
  PROVE  QuietInv'
<1>1. CASE UNCHANGED <<processingPromise, frameVars>>
  BY <1>1, QuietFlushUnchanged
<1>2. CASE ~ UNCHANGED <<processingPromise, frameVars>>
  <2>1. processingPromise = None
    BY <1>2 DEF Flush, FlushInProgress
  <2>2. ~ (shutdown = "flushing" /\ ~ busyAtSignal)
    BY <2>1, FlushersAssumption DEF QuietInv
  <2> QED
    BY <2>2 DEF QuietInv, QuietShutdownDelivers, shutdownVars
<1> QED
  BY <1>1, <1>2

\* Every step keeps the rows accepted before a quiet shutdown on their way.
LEMMA QuietStep ==
  ASSUME IInv, QuietInv, [Next]_vars
  PROVE  QuietInv'
<1>0. FlushInv /\ OtherTypes /\ NothingForgotten
  BY IInvParts
<1>1. ASSUME NEW i \in Items, Enqueue(i) PROVE QuietInv'
  <2>1. UNCHANGED <<shutdownVars, inserted>>
    BY <1>1 DEF Enqueue
  <2>2. \/ UNCHANGED <<processingPromise, frameVars>>
        \/ Flush(Append(queue, i), queueSize + Bytes[{i}])
    BY <1>1 DEF Enqueue
  <2> QED
    BY <2>1, <2>2, QuietFlush, QuietFlushUnchanged
<1>2. CASE TimerFlush \/ AdminFlush
  BY <1>2, QuietFlush DEF TimerFlush, AdminFlush
<1>3. ASSUME NEW f \in Flushers, BatchUpserted(f) \/ BatchFailed(f) PROVE QuietInv'
  <2> DEFINE rows == ItemsAt(itemsToProcess[f], Batch(f))
  <2>1. /\ processingPromise = f /\ UNCHANGED <<shutdownVars, processingPromise>>
        /\ inserted \subseteq inserted'
    BY <1>0, <1>3 DEF FlushInv, OneFlush, BatchUpserted, BatchFailed
  <2>2. CASE BatchUpserted(f)
    <3>1. /\ pc[f] = "upserting" /\ Settle(f, FALSE)
          /\ inserted' = inserted \cup rows
      BY <2>2 DEF BatchUpserted
    <3>2. Outstanding(f)' = Outstanding(f) \ rows
      BY <1>0, <2>1, <3>1, SettleKeeps
    <3>3. failed'[f] = failed[f]
      BY <1>0, <3>1 DEF Settle, FlushInv, FlushTypes
    <3> HIDE DEF rows
    <3> QED
      BY <2>1, <3>1, <3>2, <3>3 DEF QuietInv, QuietShutdownDelivers, shutdownVars
  <2>3. CASE BatchFailed(f)
    <3>1. failed'[f]
      BY <1>0, <2>3 DEF BatchFailed, Settle, FlushInv, FlushTypes
    <3> QED
      BY <2>1, <3>1 DEF QuietInv, QuietShutdownDelivers, shutdownVars
  <2> QED
    BY <1>3, <2>2, <2>3
<1>4. ASSUME NEW f \in Flushers, FlushReturns(f) PROVE QuietInv'
  <2>1. processingPromise = f /\ UNCHANGED <<inserted, atSignal, busyAtSignal>>
    BY <1>0, <1>4 DEF FlushInv, OneFlush, FlushReturns, Awaits
  <2>2. Outstanding(f) = {}
    BY <1>0, <1>4 DEF FlushReturns, Awaits, FlushInv, FramesOK, Outstanding, ItemsAt
  <2>3. CASE shutdown = "flushing"
    <3>1. shutdown' = "returned" /\ shutdownOk' = ~ failed[f]
      BY <1>4, <2>3 DEF FlushReturns, Awaits, ResultOk
    <3> QED
      BY <2>1, <2>2, <2>3, <3>1 DEF QuietInv, QuietShutdownDelivers
  <2>4. CASE shutdown # "flushing"
    <3>1. UNCHANGED <<shutdown, shutdownOk>>
      BY <1>4, <2>4 DEF FlushReturns, Awaits
    <3> QED
      BY <2>1, <2>4, <3>1 DEF QuietInv, QuietShutdownDelivers
  <2> QED
    BY <2>3, <2>4
<1>5. CASE Shutdown
  <2>1. /\ shutdown = "no" /\ ~ shutdownOk /\ Flush(queue, queueSize)
        /\ atSignal' = accepted /\ inserted' = inserted
        /\ busyAtSignal' = FlushInProgress
    BY <1>5 DEF Shutdown, QuietInv
  <2>2. queue \in Seq(Items) /\ Len(queue) \in Nat /\ (Len(queue) > 0 <=> queue # <<>>)
    <3>1. queue \in Seq(Items) /\ Len(queue) \in Nat
      BY <1>0, LenProperties DEF FlushInv, FlushTypes
    <3> QED
      BY <3>1, EmptySeq
  <2>3. CASE FlushInProgress
    BY <1>5, <2>1, <2>3 DEF QuietInv, QuietShutdownDelivers, Shutdown
  <2>4. CASE ~ FlushInProgress
    <3>1. processingPromise = None
      BY <2>4 DEF FlushInProgress
    <3>2. \A g \in Flushers : pc[g] = "idle" /\ Outstanding(g) = {}
      BY <1>0, <3>1, FlushersAssumption, OnlyOwnerHolds
    <3>3. accepted \subseteq Range(queue) \cup inserted
      BY <1>0, <3>2 DEF NothingForgotten, Held
    <3>4. CASE queue = <<>>
      <4>1. shutdown' = "returned" /\ accepted \subseteq inserted
        BY <1>5, <2>2, <3>3, <3>4, EmptyQueue DEF Shutdown
      <4> QED
        BY <2>1, <4>1 DEF QuietInv, QuietShutdownDelivers
    <3>5. CASE queue # <<>>
      <4>1. shutdown' = "flushing" /\ shutdownOk' = shutdownOk
        BY <1>5, <2>2, <3>5 DEF Shutdown
      <4>2. PICK f \in Flushers : ProcessQueue(f, queue, queueSize)
        BY <2>1, <2>4, <3>5 DEF Flush
      <4>3. /\ processingPromise' = f /\ failed'[f] = ~ sfmcClient
            /\ sfmcClient => itemsToProcess'[f] = queue /\ handled'[f] = {}
        BY <1>0, <4>2 DEF ProcessQueue, FlushInv, FlushTypes
      <4>4. sfmcClient => Outstanding(f)' = Range(queue)
        BY <4>3 DEF Outstanding, ItemsAt, Range
      <4>5. ~ failed'[f] => atSignal' \subseteq inserted' \cup Outstanding(f)'
        BY <2>1, <3>3, <4>3, <4>4
      <4> QED
        BY <2>1, <4>1, <4>3, <4>5 DEF QuietInv, QuietShutdownDelivers
    <3> QED
      BY <3>4, <3>5
  <2> QED
    BY <2>3, <2>4
<1>6. CASE InitQueue \/ Exit \/ Crash
  BY <1>6, QuietFlushUnchanged DEF InitQueue, Exit, Crash
<1>7. CASE UNCHANGED vars
  BY <1>7, QuietFlushUnchanged DEF vars
<1> QED
  BY <1>1, <1>2, <1>3, <1>4, <1>5, <1>6, <1>7 DEF Next, FlushStep, Terminated

\* shutdown() keeps its promise when no flush is in progress at the signal.
THEOREM QuietShutdown == Spec => []QuietShutdownDelivers
<1>1. Init => QuietInv
  BY DEF Init, QuietInv, QuietShutdownDelivers
<1>2. IInv /\ QuietInv /\ [Next]_vars => QuietInv'
  BY QuietStep
<1>3. QuietInv => QuietShutdownDelivers
  BY DEF QuietInv
<1> QED
  BY <1>1, <1>2, <1>3, InductiveInvariant, PTL DEF Spec

-------------------------------------------------------------------------------
(* What a request of a flush holds.                                          *)

\* A flush that waits for SFMC has a batch left to send.
UpsertingInv ==
  \A f \in Flushers : pc[f] = "upserting" => handled[f] # DOMAIN itemsToProcess[f]

\* flush() starts waiting with all of a nonempty queue ahead of it.
LEMMA FlushHasRows ==
  ASSUME IInv, UpsertingInv, NEW q \in Seq(Items), NEW n, Flush(q, n)
  PROVE  UpsertingInv'
<1>0. FlushTypes
  BY IInvParts DEF FlushInv
<1>1. CASE UNCHANGED frameVars
  BY <1>1 DEF UpsertingInv, frameVars
<1>2. ASSUME NEW f \in Flushers, ProcessQueue(f, q, n), q # <<>>
      PROVE  UpsertingInv'
  <2>1. 1 \in DOMAIN q
    <3>1. Len(q) \in Nat /\ Len(q) # 0 /\ DOMAIN q = 1 .. Len(q)
      BY <1>2, LenProperties, EmptySeq
    <3>2. QED
      BY <3>1
  <2>2. ASSUME NEW g \in Flushers, pc'[g] = "upserting"
        PROVE  handled'[g] # DOMAIN itemsToProcess'[g]
    <3>1. CASE g = f
      <4>1. pc' = [pc EXCEPT ![f] = IF sfmcClient THEN "upserting" ELSE "returned"]
        BY <1>2 DEF ProcessQueue
      <4>2. sfmcClient
        BY <1>0, <2>2, <3>1, <4>1 DEF FlushTypes
      <4>3. handled'[f] = {} /\ itemsToProcess'[f] = q
        BY <1>0, <1>2, <4>2 DEF ProcessQueue, FlushTypes
      <4>4. QED
        BY <2>1, <3>1, <4>3
    <3>2. CASE g # f
      <4>1. /\ pc'[g] = pc[g] /\ handled'[g] = handled[g]
            /\ itemsToProcess'[g] = itemsToProcess[g]
        BY <1>0, <1>2, <3>2 DEF ProcessQueue, FlushTypes
      <4>2. QED
        BY <2>2, <4>1 DEF UpsertingInv
    <3>3. QED
      BY <3>1, <3>2
  <2>3. QED
    BY <2>2 DEF UpsertingInv
<1>3. QED
  BY <1>1, <1>2 DEF Flush, FlushInProgress

\* A settled batch ends the wait of its flush when it was the last one.
LEMMA SettleHasRows ==
  ASSUME IInv, UpsertingInv, NEW f \in Flushers, NEW e, Settle(f, e)
  PROVE  UpsertingInv'
<1>0. FlushTypes
  BY IInvParts DEF FlushInv
<1>1. SUFFICES ASSUME NEW g \in Flushers, pc'[g] = "upserting"
               PROVE  handled'[g] # DOMAIN itemsToProcess'[g]
  BY DEF UpsertingInv
<1>2. /\ pc' = [pc EXCEPT ![f] = IF Tried(f, e) = DOMAIN itemsToProcess[f]
                                   THEN "returned" ELSE "upserting"]
      /\ handled' = [handled EXCEPT ![f] = Tried(f, e)]
      /\ itemsToProcess' = itemsToProcess
  BY DEF Settle
<1>3. CASE g = f
  BY <1>0, <1>1, <1>2, <1>3 DEF FlushTypes
<1>4. CASE g # f
  BY <1>0, <1>1, <1>2, <1>4 DEF FlushTypes, UpsertingInv
<1>5. QED
  BY <1>3, <1>4

\* Every step leaves a flush that waits with a batch to send.
LEMMA UpsertingStep ==
  ASSUME IInv, UpsertingInv, [Next]_vars
  PROVE  UpsertingInv'
<1>0. FlushTypes
  BY IInvParts DEF FlushInv
<1>1. ASSUME NEW i \in Items, Enqueue(i) PROVE UpsertingInv'
  <2>1. Append(queue, i) \in Seq(Items)
    BY <1>0, AppendProperties DEF FlushTypes
  <2>2. CASE UNCHANGED frameVars
    BY <2>2 DEF UpsertingInv, frameVars
  <2>3. CASE Flush(Append(queue, i), queueSize + Bytes[{i}])
    BY <2>1, <2>3, FlushHasRows
  <2>4. QED
    BY <1>1, <2>2, <2>3 DEF Enqueue
<1>2. CASE TimerFlush \/ AdminFlush \/ Shutdown
  <2>1. Flush(queue, queueSize) /\ queue \in Seq(Items)
    BY <1>0, <1>2 DEF TimerFlush, AdminFlush, Shutdown, FlushTypes
  <2>2. QED
    BY <2>1, FlushHasRows
<1>3. ASSUME NEW f \in Flushers, BatchUpserted(f) \/ BatchFailed(f)
      PROVE  UpsertingInv'
  <2>1. \E e \in BOOLEAN : Settle(f, e)
    BY <1>3 DEF BatchUpserted, BatchFailed
  <2>2. QED
    BY <2>1, SettleHasRows
<1>4. ASSUME NEW f \in Flushers, FlushReturns(f) PROVE UpsertingInv'
  <2>1. SUFFICES ASSUME NEW g \in Flushers, pc'[g] = "upserting"
                 PROVE  handled'[g] # DOMAIN itemsToProcess'[g]
    BY DEF UpsertingInv
  <2>2. /\ pc' = [pc EXCEPT ![f] = "idle"]
        /\ itemsToProcess' = [itemsToProcess EXCEPT ![f] = <<>>]
        /\ handled' = [handled EXCEPT ![f] = {}]
    BY <1>4 DEF FlushReturns
  <2>3. g # f
    BY <1>0, <2>1, <2>2 DEF FlushTypes
  <2>4. QED
    BY <1>0, <2>1, <2>2, <2>3 DEF FlushTypes, UpsertingInv
<1>5. CASE InitQueue \/ Exit \/ Crash \/ UNCHANGED vars
  <2>1. UNCHANGED frameVars
    BY <1>5 DEF InitQueue, Exit, Crash, vars
  <2>2. QED
    BY <2>1 DEF UpsertingInv, frameVars
<1>6. QED
  BY <1>1, <1>2, <1>3, <1>4, <1>5 DEF Next, FlushStep, Terminated

\* A nonempty set of positions has a first one.
LEMMA FirstPosition ==
  ASSUME NEW I \in SUBSET Nat, I # {}
  PROVE  \E m \in I : \A k \in I : m <= k
<1>1. PICK R : R = {p \in Nat \X Nat : p[1] < p[2]}
  OBVIOUS
<1>2. IsWellFoundedOn(R, Nat)
  BY <1>1, NatLessThanWellFounded DEF OpToRel
<1>3. PICK m \in I : \A k \in I : <<k, m>> \notin R
  BY <1>2, WFMin
<1>4. ASSUME NEW k \in I PROVE m <= k
  <2>1. ~ (k < m)
    BY <1>1, <1>3
  <2>2. QED
    BY <2>1
<1>5. QED
  BY <1>4

\* More rows have at least as many bytes.
LEMMA BytesGrow ==
  ASSUME NEW S \in SUBSET Items, NEW T \in SUBSET S
  PROVE  Bytes[T] \in Nat /\ Bytes[S] \in Nat /\ Bytes[T] <= Bytes[S]
<1>1. /\ T \in SUBSET Items /\ S \ T \in SUBSET Items
      /\ T \cap (S \ T) = {} /\ T \cup (S \ T) = S
  OBVIOUS
<1>2. Bytes[S] = Bytes[T] + Bytes[S \ T]
  BY <1>1, ItemsAssumption
<1>3. Bytes[S] \in Nat /\ Bytes[T] \in Nat /\ Bytes[S \ T] \in Nat
  BY <1>1, ItemsAssumption
<1>4. QED
  BY <1>2, <1>3

\* The batch createBatches() cuts from the untried rows: rows of one Data
\* Extension, at least one, and no more than fit unless it is a single one.
LEMMA NextBatchLimits ==
  ASSUME NEW s \in Seq(Items), NEW done \in SUBSET DOMAIN s, done # DOMAIN s
  PROVE  LET B == NextBatch(s, done)
         IN  /\ B \in SUBSET DOMAIN s
             /\ B # {}
             /\ \A i, j \in B : DeKeyOf[s[i]] = DeKeyOf[s[j]]
             /\ Cardinality(B) = 1 \/ FitsInRequest(s, B)
<1> DEFINE left     == DOMAIN s \ done
           keys     == {DeKeyOf[s[k]] : k \in left}
           ahead    == CHOOSE k \in DOMAIN s :
                         /\ DeKeyOf[s[k]] \in keys
                         /\ \A j \in 1 .. k - 1 : DeKeyOf[s[j]] \notin keys
           items    == {k \in left : DeKeyOf[s[k]] = DeKeyOf[s[ahead]]}
           upto(k)  == {j \in items : j <= k}
           B == NextBatch(s, done)
<1>1. DOMAIN s \in SUBSET Nat /\ IsFiniteSet(DOMAIN s)
      /\ \A k \in DOMAIN s : s[k] \in Items
  <2>1. DOMAIN s = 1 .. Len(s) /\ Len(s) \in Nat
    BY LenProperties
  <2>2. IsFiniteSet(1 .. Len(s))
    BY <2>1, FS_Interval
  <2>3. \A k \in 1 .. Len(s) : s[k] \in Items
    BY ElementOfSeq
  <2>4. QED
    BY <2>1, <2>2, <2>3
<1>2. left \in SUBSET Nat /\ left # {} /\ left \in SUBSET DOMAIN s
  BY <1>1
<1>3. DeKeyOf[s[ahead]] \in keys
  <2> DEFINE open == {k \in DOMAIN s : DeKeyOf[s[k]] \in keys}
  <2>1. open \in SUBSET Nat /\ open # {}
    BY <1>1, <1>2
  <2>2. PICK i \in open : \A j \in open : i <= j
    BY <2>1, FirstPosition
  <2>3. \A j \in 1 .. i - 1 : j \in DOMAIN s /\ ~(i <= j)
    BY <2>2, LenProperties
  <2>4. \A j \in 1 .. i - 1 : DeKeyOf[s[j]] \notin keys
    BY <2>2, <2>3
  <2>5. QED
    BY <2>2, <2>4
<1>4. B = {k \in items : upto(k) = {k} \/ FitsInRequest(s, upto(k))}
  BY DEF NextBatch
<1>5. /\ items \in SUBSET left /\ items \in SUBSET Nat /\ items # {}
      /\ \A i, j \in items : DeKeyOf[s[i]] = DeKeyOf[s[j]]
  BY <1>2, <1>3
<1> HIDE DEF B, left, items
<1> PICK first \in items : \A j \in items : first <= j
  BY <1>5, FirstPosition
<1>6. B \in SUBSET items /\ first \in B /\ \A k \in B : k = first \/ FitsInRequest(s, upto(k))
  <2>1. upto(first) = {first}
    BY <1>5
  <2>2. \A k \in items : first \in upto(k)
    BY <1>5
  <2>3. \A k \in items : upto(k) = {k} => k = first
    BY <2>2
  <2>4. QED
    BY <1>4, <2>1, <2>3
<1>7. B \in SUBSET DOMAIN s /\ B # {} /\ IsFiniteSet(B) /\ B \in SUBSET Nat
  <2>1. B \in SUBSET DOMAIN s /\ B # {}
    BY <1>2, <1>5, <1>6
  <2>2. QED
    BY <1>1, <2>1, FS_Subset
<1>8. \A i, j \in B : DeKeyOf[s[i]] = DeKeyOf[s[j]]
  BY <1>5, <1>6
<1>9. PICK m \in B : \A k \in B : k <= m
  BY <1>7, LastPosition
<1>10. ASSUME B = {first} PROVE Cardinality(B) = 1
  <2>1. Cardinality({first}) = 1
    BY FS_Singleton
  <2>2. QED
    BY <1>10, <2>1
<1>11. ASSUME B # {first} PROVE FitsInRequest(s, B)
  <2>1. m # first
    <3>1. SUFFICES ASSUME m = first PROVE FALSE
      OBVIOUS
    <3>2. PICK k \in B : k # first
      BY <1>6, <1>11
    <3>3. k \in items /\ k < first
      BY <1>5, <1>6, <1>7, <1>9, <3>1, <3>2
    <3>4. QED
      BY <1>5, <3>3
  <2>2. FitsInRequest(s, upto(m))
    BY <1>6, <2>1
  <2> DEFINE U == upto(m)
  <2>3. B \in SUBSET U /\ U \in SUBSET DOMAIN s
    BY <1>2, <1>5, <1>6, <1>9
  <2>4. FitsInRequest(s, U)
    BY <2>2
  <2> HIDE DEF U
  <2>5. Cardinality(B) <= BATCH_SIZE
    <3>1. IsFiniteSet(U) /\ Cardinality(U) \in Nat /\ Cardinality(B) \in Nat
          /\ Cardinality(B) <= Cardinality(U)
      BY <1>1, <1>7, <2>3, FS_Subset, FS_CardinalityType
    <3>2. QED
      BY <2>4, <3>1, LimitsAssumption DEF FitsInRequest
  <2>6. BytesOf(s, B) < SIZE_LIMIT
    <3>1. ItemsAt(s, U) \in SUBSET Items /\ ItemsAt(s, B) \in SUBSET ItemsAt(s, U)
      BY <1>1, <2>3 DEF ItemsAt
    <3>2. /\ BytesOf(s, B) \in Nat /\ BytesOf(s, U) \in Nat
          /\ BytesOf(s, B) <= BytesOf(s, U)
      BY <3>1, BytesGrow DEF BytesOf
    <3>3. QED
      BY <2>4, <3>2, LimitsAssumption DEF FitsInRequest
  <2>7. QED
    BY <2>5, <2>6 DEF FitsInRequest
<1>12. QED
  BY <1>7, <1>8, <1>10, <1>11 DEF B

\* createBatches(): every request holds rows of one Data Extension and keeps to
\* both limits, unless a single row is too large for one.
THEOREM RequestsAreWithinLimits == Spec => []RequestWithinLimits
<1>1. Init => UpsertingInv
  BY DEF Init, UpsertingInv
<1>2. IInv /\ UpsertingInv /\ [Next]_vars => UpsertingInv'
  BY UpsertingStep
<1>3. IInv /\ UpsertingInv => RequestWithinLimits
  <2>1. SUFFICES ASSUME IInv, UpsertingInv, NEW f \in Flushers, pc[f] = "upserting"
                 PROVE  LET rows == ItemsAt(itemsToProcess[f], Batch(f))
                        IN  /\ Cardinality(rows) \in 1 .. BATCH_SIZE
                            /\ \A i, j \in rows : DeKeyOf[i] = DeKeyOf[j]
                            /\ Cardinality(rows) = 1 \/ Bytes[rows] < SIZE_LIMIT
    BY DEF RequestWithinLimits
  <2> DEFINE s == itemsToProcess[f]
             B == Batch(f)
             rows == ItemsAt(s, B)
  <2>2. s \in Seq(Items) /\ IsInjective(s) /\ handled[f] \in SUBSET DOMAIN s
        /\ handled[f] # DOMAIN s
    BY <2>1, IInvParts DEF FlushInv, FlushTypes, HeldOnce, FramesOK, UpsertingInv
  <2> HIDE DEF s
  <2>3. B = NextBatch(s, handled[f])
    BY DEF Batch, s
  <2> HIDE DEF B
  <2>4. /\ B \in SUBSET DOMAIN s /\ B # {}
        /\ \A i, j \in B : DeKeyOf[s[i]] = DeKeyOf[s[j]]
        /\ Cardinality(B) = 1 \/ FitsInRequest(s, B)
    BY <2>2, <2>3, NextBatchLimits
  <2>5. IsFiniteSet(B) /\ Cardinality(rows) = Cardinality(B)
    BY <2>2, <2>4, RowsOfBatch, PickRows
  <2>6. \A i, j \in rows : DeKeyOf[i] = DeKeyOf[j]
    BY <2>4 DEF ItemsAt
  <2>7. Cardinality(B) \in Nat /\ Cardinality(B) # 0
    BY <2>4, <2>5, FS_CardinalityType, FS_EmptySet
  <2>8. Cardinality(rows) \in 1 .. BATCH_SIZE
    BY <2>4, <2>5, <2>7, LimitsAssumption DEF FitsInRequest
  <2>9. Cardinality(rows) = 1 \/ Bytes[rows] < SIZE_LIMIT
    BY <2>4, <2>5 DEF FitsInRequest, BytesOf
  <2>10. QED
    BY <2>6, <2>8, <2>9 DEF s, B
<1>4. QED
  BY <1>1, <1>2, <1>3, InductiveInvariant, PTL DEF Spec

===============================================================================
