------------------------ MODULE PayloadValidatorProofs ------------------------
(***************************************************************************)
(* What splitIntoBatches() and validateAndSplit() compute, for every       *)
(* sequence of rows and all limits.                                        *)
(*                                                                         *)
(* The loops are folds.  A fold is a function on the sets of positions; it *)
(* exists, and it goes through the positions one by one, by induction on   *)
(* the number of rows.                                                     *)
(***************************************************************************)
EXTENDS PayloadValidator, SequenceTheorems, WellFoundedInduction, TLAPS

-------------------------------------------------------------------------------
(* Induction over the natural numbers, and folds.                            *)

\* A set of numbers that has 0, and the successor of each of its members, is Nat.
LEMMA NaturalsBySuccessor ==
  ASSUME NEW T, T \subseteq Nat, 0 \in T, \A n \in T : n + 1 \in T
  PROVE  T = Nat
<1>1. SUFFICES ASSUME Nat \ T # {} PROVE FALSE
  OBVIOUS
<1>2. PICK R : R = {p \in Nat \X Nat : p[1] < p[2]}
  OBVIOUS
<1>3. IsWellFoundedOn(R, Nat)
  BY <1>2, NatLessThanWellFounded DEF OpToRel
<1>4. PICK x \in Nat \ T : \A y \in Nat \ T : <<y, x>> \notin R
  <2>1. Nat \ T \subseteq Nat
    OBVIOUS
  <2>2. QED
    BY <1>1, <1>3, <2>1, WFMin
<1>5. x - 1 \in Nat /\ <<x - 1, x>> \in R
  BY <1>2, x # 0
<1>6. x - 1 \in T
  BY <1>4, <1>5
<1>7. QED
  BY <1>6

\* g is the fold of F over the values of seq at each set of positions up to n.
IsFold(g, n, F, base, seq) ==
  \A s \in SUBSET (1 .. n) :
    g[s] = IF s = {} THEN base ELSE F[<<g[s \ {Max(s)}], seq[Max(s)]>>]

\* The largest position is the last one.
LEMMA MaxIsLast ==
  ASSUME NEW n \in Nat, NEW s \in SUBSET (1 .. n), n \in s
  PROVE  Max(s) = n
<1>1. \A y \in s : n >= y
  OBVIOUS
<1>2. \A x \in s : (\A y \in s : x >= y) => x = n
  OBVIOUS
<1>3. QED
  BY <1>1, <1>2 DEF Max

LEMMA FoldExists ==
  ASSUME NEW S, NEW V, NEW F \in [S \X V -> S], NEW base \in S,
         NEW N \in Nat, NEW seq \in [1 .. N -> V]
  PROVE  \E g \in [SUBSET (1 .. N) -> S] : IsFold(g, N, F, base, seq)
<1>1. PICK T : T = {n \in Nat : n <= N =>
                      \E g \in [SUBSET (1 .. n) -> S] : IsFold(g, n, F, base, seq)}
  OBVIOUS
<1>2. T \subseteq Nat
  BY <1>1, Zenon
<1>3. 0 \in T
  <2>1. PICK g : g = [s \in SUBSET (1 .. 0) |-> base]
    OBVIOUS
  <2>2. g \in [SUBSET (1 .. 0) -> S]
    BY <2>1
  <2>3. \A s \in SUBSET (1 .. 0) : s = {} /\ g[s] = base
    <3>1. 1 .. 0 = {}
      OBVIOUS
    <3>2. QED
      BY <2>1, <3>1
  <2>4. IsFold(g, 0, F, base, seq)
    BY <2>3 DEF IsFold
  <2>5. \E h \in [SUBSET (1 .. 0) -> S] : IsFold(h, 0, F, base, seq)
    BY <2>2, <2>4
  <2>6. 0 \in Nat
    OBVIOUS
  <2>7. QED
    BY <1>1, <2>5, <2>6, Zenon
<1>4. ASSUME NEW n \in Nat, n + 1 <= N, NEW g \in [SUBSET (1 .. n) -> S],
             IsFold(g, n, F, base, seq)
      PROVE  \E h \in [SUBSET (1 .. n + 1) -> S] : IsFold(h, n + 1, F, base, seq)
  <2>1. PICK v \in V : v = seq[n + 1]
    <3>1. n + 1 \in 1 .. N
      BY <1>4
    <3>2. QED
      BY <3>1
  <2>2. PICK h : h = [s \in SUBSET (1 .. n + 1) |->
                        IF n + 1 \in s THEN F[<<g[s \ {n + 1}], v>>] ELSE g[s]]
    OBVIOUS
  <2>3. ASSUME NEW s \in SUBSET (1 .. n + 1)
        PROVE  /\ n + 1 \in s => s \ {n + 1} \in SUBSET (1 .. n)
               /\ n + 1 \notin s => s \in SUBSET (1 .. n)
    OBVIOUS
  <2>4. h \in [SUBSET (1 .. n + 1) -> S]
    <3>1. ASSUME NEW s \in SUBSET (1 .. n + 1)
          PROVE  (IF n + 1 \in s THEN F[<<g[s \ {n + 1}], v>>] ELSE g[s]) \in S
      BY <2>3
    <3>2. QED
      BY <2>2, <3>1
  <2>5. ASSUME NEW s \in SUBSET (1 .. n)
        PROVE  s \in SUBSET (1 .. n + 1) /\ h[s] = g[s]
    BY <2>2
  <2>6. ASSUME NEW s \in SUBSET (1 .. n + 1)
        PROVE  h[s] = IF s = {} THEN base ELSE F[<<h[s \ {Max(s)}], seq[Max(s)]>>]
    <3>1. CASE n + 1 \in s
      <4>1. Max(s) = n + 1
        BY <3>1, MaxIsLast
      <4>2. h[s \ {n + 1}] = g[s \ {n + 1}]
        BY <2>3, <2>5, <3>1
      <4>3. h[s] = F[<<g[s \ {n + 1}], v>>]
        BY <2>2, <3>1
      <4>4. QED
        BY <2>1, <3>1, <4>1, <4>2, <4>3
    <3>2. CASE n + 1 \notin s
      <4>1. s \in SUBSET (1 .. n) /\ s \ {Max(s)} \in SUBSET (1 .. n)
        BY <2>3, <3>2
      <4>2. h[s] = g[s] /\ h[s \ {Max(s)}] = g[s \ {Max(s)}]
        BY <2>5, <4>1
      <4>3. QED
        BY <1>4, <4>1, <4>2 DEF IsFold
    <3>3. QED
      BY <3>1, <3>2
  <2>7. QED
    BY <2>4, <2>6 DEF IsFold
<1>5. ASSUME NEW n \in T PROVE n + 1 \in T
  <2>1. n \in Nat
    BY <1>2
  <2>2. n + 1 \in Nat
    BY <2>1
  <2>3. ASSUME n + 1 <= N
        PROVE  \E h \in [SUBSET (1 .. n + 1) -> S] : IsFold(h, n + 1, F, base, seq)
    <3>1. n <= N /\ n + 1 \in 1 .. N
      BY <2>1, <2>3
    <3>2. PICK g \in [SUBSET (1 .. n) -> S] : IsFold(g, n, F, base, seq)
      BY <1>1, <3>1, Zenon
    <3>3. QED
      BY <1>4, <2>1, <2>3, <3>2
  <2>4. QED
    BY <1>1, <2>2, <2>3, Zenon
<1>6. T = Nat
  BY <1>2, <1>3, <1>5, NaturalsBySuccessor
<1>7. N \in T /\ N <= N
  BY <1>6
<1>8. QED
  BY <1>1, <1>7, Zenon

\* A set of positions that is not empty has a largest one.
LEMMA MaxIsMember ==
  ASSUME NEW N \in Nat
  PROVE  \A s \in SUBSET (1 .. N) : s # {} => Max(s) \in s
<1>1. PICK T : T = {n \in Nat : \A s \in SUBSET (1 .. n) : s # {} => \E x \in s : \A y \in s : x >= y}
  OBVIOUS
<1>2. T \subseteq Nat
  BY <1>1, Zenon
<1>3. 0 \in T
  <2>1. 1 .. 0 = {} /\ 0 \in Nat
    OBVIOUS
  <2>2. QED
    BY <1>1, <2>1
<1>4. ASSUME NEW n \in T PROVE n + 1 \in T
  <2>1. n \in Nat /\ n + 1 \in Nat
    BY <1>2
  <2>2. ASSUME NEW s \in SUBSET (1 .. n + 1), s # {}
        PROVE  \E x \in s : \A y \in s : x >= y
    <3>1. CASE n + 1 \in s
      BY <2>1, <3>1
    <3>2. CASE n + 1 \notin s
      <4>1. s \in SUBSET (1 .. n)
        BY <2>1, <3>2
      <4>2. QED
        BY <1>1, <2>2, <4>1, Zenon
    <3>3. QED
      BY <3>1, <3>2
  <2>3. QED
    BY <1>1, <2>1, <2>2, Zenon
<1>5. T = Nat
  BY <1>2, <1>3, <1>4, NaturalsBySuccessor
<1>6. ASSUME NEW s \in SUBSET (1 .. N), s # {} PROVE Max(s) \in s
  <2>1. \E x \in s : \A y \in s : x >= y
    BY <1>1, <1>5, <1>6
  <2>2. QED
    BY <2>1 DEF Max
<1>7. QED
  BY <1>6

-------------------------------------------------------------------------------
(* The loop of splitIntoBatches().                                           *)

Parts == [batches : Seq(Seq(Rows)), batch : Seq(Rows)]
Start == [batches |-> <<>>, batch |-> <<>>]

LEMMA StartType == Start \in Parts
<1>1. <<>> \in Seq(Seq(Rows)) /\ <<>> \in Seq(Rows)
  BY EmptySeq
<1>2. QED
  BY <1>1 DEF Start, Parts

LEMMA AddRecordType ==
  ASSUME NEW s \in Parts, NEW r \in Rows
  PROVE  AddRecord(s, r) \in Parts
<1>1. /\ s.batches \in Seq(Seq(Rows)) /\ s.batch \in Seq(Rows)
      /\ s = [batches |-> s.batches, batch |-> s.batch]
  BY DEF Parts
<1>2. /\ Append(s.batches, s.batch) \in Seq(Seq(Rows)) /\ <<r>> \in Seq(Rows)
      /\ Append(s.batch, r) \in Seq(Rows)
  BY <1>1, AppendProperties
<1>3. [s EXCEPT !.batch = Append(@, r)] = [batches |-> s.batches, batch |-> Append(s.batch, r)]
  <2>1. PICK b, c : s = [batches |-> b, batch |-> c] /\ b = s.batches /\ c = s.batch
    BY <1>1
  <2>2. [[batches |-> b, batch |-> c] EXCEPT !.batch = Append(c, r)]
          = [batches |-> b, batch |-> Append(c, r)]
    OBVIOUS
  <2>3. QED
    BY <2>1, <2>2
<1>4. QED
  BY <1>1, <1>2, <1>3 DEF AddRecord, Parts

\* The parts after each record of rows.
IsSplit(t, rows) ==
  /\ t[0] = Start
  /\ \A k \in 1 .. Len(rows) : t[k] = AddRecord(t[k - 1], rows[k])

LEMMA SplitHasTrace ==
  ASSUME NEW rows \in Seq(Rows)
  PROVE  \E t \in [0 .. Len(rows) -> Parts] :
           IsSplit(t, rows) /\ t[Len(rows)] = FoldLeft(AddRecord, Start, rows)
<1>1. PICK N \in Nat : N = Len(rows) /\ DOMAIN rows = 1 .. N /\ rows \in [1 .. N -> Rows]
  OBVIOUS
<1>2. PICK F : F = [p \in Parts \X Rows |-> AddRecord(p[1], p[2])]
  OBVIOUS
<1>3. F \in [Parts \X Rows -> Parts]
  <2>1. ASSUME NEW p \in Parts \X Rows PROVE AddRecord(p[1], p[2]) \in Parts
    BY AddRecordType
  <2>2. QED
    BY <1>2, <2>1
<1>4. PICK g \in [SUBSET (1 .. N) -> Parts] : IsFold(g, N, F, Start, rows)
  BY <1>1, <1>3, StartType, FoldExists
<1>5. g = [s \in SUBSET (1 .. N) |->
             IF s = {} THEN Start ELSE AddRecord(g[s \ {Max(s)}], rows[Max(s)])]
  <2>1. ASSUME NEW s \in SUBSET (1 .. N), s # {}
        PROVE  g[s] = AddRecord(g[s \ {Max(s)}], rows[Max(s)])
    <3>1. Max(s) \in 1 .. N
      BY <2>1, MaxIsMember
    <3>2. g[s \ {Max(s)}] \in Parts /\ rows[Max(s)] \in Rows
      BY <1>1, <3>1
    <3>3. g[s] = F[<<g[s \ {Max(s)}], rows[Max(s)]>>]
      BY <1>4, <2>1 DEF IsFold
    <3>4. QED
      BY <1>2, <3>2, <3>3
  <2>2. {} \in SUBSET (1 .. N) => g[{}] = Start
    BY <1>4 DEF IsFold
  <2>3. QED
    BY <2>1, <2>2
<1>6. PICK h : /\ h = [s \in SUBSET (1 .. N) |->
                         IF s = {} THEN Start ELSE AddRecord(h[s \ {Max(s)}], rows[Max(s)])]
               /\ h[1 .. N] = FoldLeft(AddRecord, Start, rows)
  <2>1. PICK h : h = CHOOSE f :
                       f = [s \in SUBSET (1 .. N) |->
                              IF s = {} THEN Start
                              ELSE AddRecord(f[s \ {Max(s)}], rows[Max(s)])]
    OBVIOUS
  <2>2. h = [s \in SUBSET (1 .. N) |->
               IF s = {} THEN Start ELSE AddRecord(h[s \ {Max(s)}], rows[Max(s)])]
    BY <1>5, <2>1
  <2>3. h[1 .. N] = FoldLeft(AddRecord, Start, rows)
    BY <1>1, <2>1 DEF FoldLeft, MapThenFoldSet
  <2>4. QED
    BY <2>2, <2>3
<1>7. PICK t : t = [k \in 0 .. N |-> h[1 .. k]]
  OBVIOUS
<1>8. t[0] = Start
  <2>1. 1 .. 0 = {} /\ 0 \in 0 .. N
    OBVIOUS
  <2>2. QED
    BY <1>6, <1>7, <2>1
<1>9. ASSUME NEW k \in 1 .. N PROVE t[k] = AddRecord(t[k - 1], rows[k])
  <2>1. 1 .. k \in SUBSET (1 .. N) /\ 1 .. k # {} /\ (1 .. k) \ {k} = 1 .. (k - 1)
    <3>1. k \in Nat /\ 1 <= k /\ k <= N
      OBVIOUS
    <3>2. 1 .. k \in SUBSET (1 .. N) /\ k \in 1 .. k
      BY <3>1
    <3>3. (1 .. k) \ {k} = 1 .. (k - 1)
      BY <3>1
    <3>4. QED
      BY <3>2, <3>3
  <2>2. Max(1 .. k) = k
    BY MaxIsLast
  <2>3. h[1 .. k] = AddRecord(h[1 .. (k - 1)], rows[k])
    BY <1>6, <2>1, <2>2
  <2>4. t[k] = h[1 .. k] /\ t[k - 1] = h[1 .. (k - 1)]
    BY <1>7
  <2>5. QED
    BY <2>3, <2>4
<1>10. ASSUME NEW k \in 0 .. N PROVE t[k] \in Parts
  <2>1. PICK T : T = {n \in Nat : n <= N => t[n] \in Parts}
    OBVIOUS
  <2>2. 0 \in T /\ T \subseteq Nat
    BY <1>8, <2>1, StartType
  <2>3. ASSUME NEW n \in T PROVE n + 1 \in T
    <3>1. n \in Nat /\ n + 1 \in Nat
      BY <2>2
    <3>2. ASSUME n + 1 <= N PROVE t[n + 1] \in Parts
      <4>1. n + 1 \in 1 .. N /\ (n + 1) - 1 = n /\ n <= N
        BY <3>1, <3>2
      <4>2. t[n + 1] = AddRecord(t[n], rows[n + 1])
        BY <1>9, <4>1
      <4>3. t[n] \in Parts /\ rows[n + 1] \in Rows
        BY <1>1, <2>1, <4>1
      <4>4. QED
        BY <4>2, <4>3, AddRecordType
    <3>3. QED
      BY <2>1, <3>1, <3>2
  <2>4. T = Nat
    BY <2>2, <2>3, NaturalsBySuccessor
  <2>5. QED
    BY <2>1, <2>4
<1>11. QED
  <2>1. t \in [0 .. N -> Parts]
    BY <1>7, <1>10
  <2>2. t[N] = h[1 .. N]
    BY <1>7
  <2>3. QED
    BY <1>1, <1>6, <1>8, <1>9, <2>1, <2>2 DEF IsSplit

-------------------------------------------------------------------------------
(* The size of a part.                                                       *)

\* The size of the records up to each position.
IsSum(t, rows) ==
  /\ t[0] = 0
  /\ \A k \in 1 .. Len(rows) : t[k] = t[k - 1] + SizeOf[rows[k]]

LEMMA SumHasTrace ==
  ASSUME NEW rows \in Seq(Rows)
  PROVE  \E t \in [0 .. Len(rows) -> Nat] : IsSum(t, rows) /\ t[Len(rows)] = SumOfSizes(rows)
<1>1. PICK N \in Nat : N = Len(rows) /\ DOMAIN rows = 1 .. N /\ rows \in [1 .. N -> Rows]
  OBVIOUS
<1>2. PICK F : F = [p \in Nat \X Rows |-> p[1] + SizeOf[p[2]]]
  OBVIOUS
<1>3. F \in [Nat \X Rows -> Nat] /\ 0 \in Nat
  <2>1. ASSUME NEW p \in Nat \X Rows PROVE p[1] + SizeOf[p[2]] \in Nat
    BY SizesAssumption
  <2>2. QED
    BY <1>2, <2>1
<1>4. PICK g \in [SUBSET (1 .. N) -> Nat] : IsFold(g, N, F, 0, rows)
  BY <1>1, <1>3, FoldExists
<1>5. g = [s \in SUBSET (1 .. N) |->
             IF s = {} THEN 0 ELSE g[s \ {Max(s)}] + SizeOf[rows[Max(s)]]]
  <2>1. ASSUME NEW s \in SUBSET (1 .. N), s # {}
        PROVE  g[s] = g[s \ {Max(s)}] + SizeOf[rows[Max(s)]]
    <3>1. Max(s) \in 1 .. N
      BY <2>1, MaxIsMember
    <3>2. g[s \ {Max(s)}] \in Nat /\ rows[Max(s)] \in Rows
      BY <1>1, <3>1
    <3>3. g[s] = F[<<g[s \ {Max(s)}], rows[Max(s)]>>]
      BY <1>4, <2>1 DEF IsFold
    <3>4. QED
      BY <1>2, <3>2, <3>3
  <2>2. {} \in SUBSET (1 .. N) => g[{}] = 0
    BY <1>4 DEF IsFold
  <2>3. QED
    BY <2>1, <2>2
<1>6. PICK h : /\ h = [s \in SUBSET (1 .. N) |->
                         IF s = {} THEN 0 ELSE h[s \ {Max(s)}] + SizeOf[rows[Max(s)]]]
               /\ h[1 .. N] = SumOfSizes(rows)
  <2>1. PICK h : h = CHOOSE f :
                       f = [s \in SUBSET (1 .. N) |->
                              IF s = {} THEN 0
                              ELSE f[s \ {Max(s)}] + SizeOf[rows[Max(s)]]]
    OBVIOUS
  <2>2. h = [s \in SUBSET (1 .. N) |->
               IF s = {} THEN 0 ELSE h[s \ {Max(s)}] + SizeOf[rows[Max(s)]]]
    BY <1>5, <2>1
  <2>3. h[1 .. N] = SumOfSizes(rows)
    BY <1>1, <2>1 DEF SumOfSizes, FoldLeft, MapThenFoldSet
  <2>4. QED
    BY <2>2, <2>3
<1>7. PICK t : t = [k \in 0 .. N |-> h[1 .. k]]
  OBVIOUS
<1>8. t[0] = 0
  <2>1. 1 .. 0 = {} /\ 0 \in 0 .. N
    OBVIOUS
  <2>2. QED
    BY <1>6, <1>7, <2>1
<1>9. ASSUME NEW k \in 1 .. N PROVE t[k] = t[k - 1] + SizeOf[rows[k]]
  <2>1. 1 .. k \in SUBSET (1 .. N) /\ 1 .. k # {} /\ (1 .. k) \ {k} = 1 .. (k - 1)
    <3>1. k \in Nat /\ 1 <= k /\ k <= N
      OBVIOUS
    <3>2. 1 .. k \in SUBSET (1 .. N) /\ k \in 1 .. k
      BY <3>1
    <3>3. (1 .. k) \ {k} = 1 .. (k - 1)
      BY <3>1
    <3>4. QED
      BY <3>2, <3>3
  <2>2. Max(1 .. k) = k
    BY MaxIsLast
  <2>3. h[1 .. k] = h[1 .. (k - 1)] + SizeOf[rows[k]]
    BY <1>6, <2>1, <2>2
  <2>4. t[k] = h[1 .. k] /\ t[k - 1] = h[1 .. (k - 1)]
    BY <1>7
  <2>5. QED
    BY <2>3, <2>4
<1>10. ASSUME NEW k \in 0 .. N PROVE t[k] \in Nat
  <2>1. PICK T : T = {n \in Nat : n <= N => t[n] \in Nat}
    OBVIOUS
  <2>2. 0 \in T /\ T \subseteq Nat
    BY <1>8, <2>1
  <2>3. ASSUME NEW n \in T PROVE n + 1 \in T
    <3>1. n \in Nat /\ n + 1 \in Nat
      BY <2>2
    <3>2. ASSUME n + 1 <= N PROVE t[n + 1] \in Nat
      <4>1. n + 1 \in 1 .. N /\ (n + 1) - 1 = n /\ n <= N
        BY <3>1, <3>2
      <4>2. t[n + 1] = t[n] + SizeOf[rows[n + 1]]
        BY <1>9, <4>1
      <4>3. t[n] \in Nat /\ rows[n + 1] \in Rows
        BY <1>1, <2>1, <4>1
      <4>4. SizeOf[rows[n + 1]] \in Nat
        BY <4>3, SizesAssumption
      <4>5. QED
        BY <4>2, <4>3, <4>4
    <3>3. QED
      BY <2>1, <3>1, <3>2
  <2>4. T = Nat
    BY <2>2, <2>3, NaturalsBySuccessor
  <2>5. QED
    BY <2>1, <2>4
<1>11. QED
  <2>1. t \in [0 .. N -> Nat]
    BY <1>7, <1>10
  <2>2. t[N] = h[1 .. N]
    BY <1>7
  <2>3. QED
    BY <1>1, <1>6, <1>8, <1>9, <2>1, <2>2 DEF IsSum

\* A record more adds its size.
LEMMA SumOfAppend ==
  ASSUME NEW s \in Seq(Rows), NEW r \in Rows
  PROVE  /\ SumOfSizes(s) \in Nat
         /\ SumOfSizes(Append(s, r)) = SumOfSizes(s) + SizeOf[r]
<1>1. PICK N \in Nat : N = Len(s)
  OBVIOUS
<1>2. PICK u \in Seq(Rows) : /\ u = Append(s, r) /\ Len(u) = N + 1 /\ u[N + 1] = r
                             /\ \A k \in 1 .. N : u[k] = s[k]
  <2>1. /\ Append(s, r) \in Seq(Rows) /\ Len(Append(s, r)) = Len(s) + 1
        /\ \A k \in 1 .. Len(s) : Append(s, r)[k] = s[k]
        /\ Append(s, r)[Len(s) + 1] = r
    BY AppendProperties
  <2>2. QED
    BY <1>1, <2>1
<1>3. PICK t \in [0 .. N -> Nat] : IsSum(t, s) /\ t[N] = SumOfSizes(s)
  BY <1>1, SumHasTrace
<1>4. PICK v \in [0 .. N + 1 -> Nat] : IsSum(v, u) /\ v[N + 1] = SumOfSizes(u)
  BY <1>2, SumHasTrace
<1>5. v[N] = t[N]
  <2>1. PICK T : T = {n \in Nat : n <= N => v[n] = t[n]}
    OBVIOUS
  <2>2. 0 \in T /\ T \subseteq Nat
    BY <1>3, <1>4, <2>1 DEF IsSum
  <2>3. ASSUME NEW n \in T PROVE n + 1 \in T
    <3>1. n \in Nat /\ n + 1 \in Nat
      BY <2>2
    <3>2. ASSUME n + 1 <= N PROVE v[n + 1] = t[n + 1]
      <4>1. n + 1 \in 1 .. N /\ n + 1 \in 1 .. N + 1 /\ (n + 1) - 1 = n /\ n <= N
        BY <3>1, <3>2
      <4>2. v[n] = t[n] /\ u[n + 1] = s[n + 1]
        BY <1>2, <2>1, <4>1
      <4>3. t[n + 1] = t[n] + SizeOf[s[n + 1]] /\ v[n + 1] = v[n] + SizeOf[u[n + 1]]
        BY <1>1, <1>2, <1>3, <1>4, <4>1 DEF IsSum
      <4>4. QED
        BY <4>2, <4>3
    <3>3. QED
      BY <2>1, <3>1, <3>2
  <2>4. T = Nat
    BY <2>2, <2>3, NaturalsBySuccessor
  <2>5. N \in T /\ N <= N
    BY <2>4
  <2>6. QED
    BY <2>1, <2>5
<1>6. v[N + 1] = v[N] + SizeOf[r]
  <2>1. N + 1 \in 1 .. Len(u) /\ (N + 1) - 1 = N
    BY <1>2
  <2>2. QED
    BY <1>2, <1>4, <2>1 DEF IsSum
<1>7. QED
  BY <1>2, <1>3, <1>4, <1>5, <1>6

LEMMA SumOfOne ==
  ASSUME NEW r \in Rows
  PROVE  SumOfSizes(<<>>) = 0 /\ SumOfSizes(<<r>>) = SizeOf[r]
<1>1. PICK e \in Seq(Rows) : e = <<>> /\ Len(e) = 0
  BY EmptySeq
<1>2. SumOfSizes(e) = 0
  BY <1>1, SumHasTrace DEF IsSum
<1>3. Append(e, r) = <<r>>
  BY <1>1
<1>4. SumOfSizes(Append(e, r)) = 0 + SizeOf[r] /\ SizeOf[r] \in Nat
  BY <1>2, SumOfAppend, SizesAssumption
<1>5. QED
  BY <1>1, <1>2, <1>3, <1>4

-------------------------------------------------------------------------------
(* The rows of the parts.                                                    *)

\* The rows of the parts up to each position.
IsConcat(t, ss) ==
  /\ t[0] = <<>>
  /\ \A k \in 1 .. Len(ss) : t[k] = t[k - 1] \o ss[k]

LEMMA FlattenHasTrace ==
  ASSUME NEW ss \in Seq(Seq(Rows))
  PROVE  \E t \in [0 .. Len(ss) -> Seq(Rows)] : IsConcat(t, ss) /\ t[Len(ss)] = FlattenSeq(ss)
<1>1. PICK N \in Nat : N = Len(ss) /\ DOMAIN ss = 1 .. N /\ ss \in [1 .. N -> Seq(Rows)]
  OBVIOUS
<1>2. PICK F : F = [p \in Seq(Rows) \X Seq(Rows) |-> p[1] \o p[2]]
  OBVIOUS
<1>3. F \in [Seq(Rows) \X Seq(Rows) -> Seq(Rows)] /\ <<>> \in Seq(Rows)
  <2>1. ASSUME NEW p \in Seq(Rows) \X Seq(Rows) PROVE p[1] \o p[2] \in Seq(Rows)
    BY ConcatProperties
  <2>2. QED
    BY <1>2, <2>1, EmptySeq
<1>4. PICK g \in [SUBSET (1 .. N) -> Seq(Rows)] : IsFold(g, N, F, <<>>, ss)
  BY <1>1, <1>3, FoldExists
<1>5. PICK f : f = [k \in 1 .. N |-> g[1 .. k]]
  OBVIOUS
<1>6. ASSUME NEW k \in 1 .. N
      PROVE  g[1 .. k] = g[1 .. (k - 1)] \o ss[k] /\ g[1 .. (k - 1)] \in Seq(Rows)
  <2>1. k \in Nat /\ 1 <= k /\ k <= N
    OBVIOUS
  <2>2. 1 .. k \in SUBSET (1 .. N) /\ k \in 1 .. k /\ 1 .. (k - 1) \in SUBSET (1 .. N)
    BY <2>1
  <2>3. (1 .. k) \ {k} = 1 .. (k - 1)
    BY <2>1
  <2>4. Max(1 .. k) = k
    BY MaxIsLast
  <2>5. g[1 .. k] = F[<<g[1 .. (k - 1)], ss[k]>>]
    BY <1>4, <2>2, <2>3, <2>4 DEF IsFold
  <2>6. g[1 .. (k - 1)] \in Seq(Rows) /\ ss[k] \in Seq(Rows)
    BY <1>1, <2>2
  <2>7. QED
    BY <1>2, <2>5, <2>6
<1>7. g[1 .. 0] = <<>>
  <2>1. 1 .. 0 = {} /\ {} \in SUBSET (1 .. N)
    OBVIOUS
  <2>2. QED
    BY <1>4, <2>1 DEF IsFold
<1>8. f = [k \in 1 .. N |-> IF k = 1 THEN ss[k] ELSE f[k - 1] \o ss[k]]
  <2>1. ASSUME NEW k \in 1 .. N PROVE f[k] = IF k = 1 THEN ss[k] ELSE f[k - 1] \o ss[k]
    <3>1. CASE k = 1
      <4>1. g[1 .. k] = <<>> \o ss[k] /\ ss[k] \in Seq(Rows)
        <5>1. k - 1 = 0 /\ g[1 .. 0] = g[1 .. (k - 1)]
          BY <3>1
        <5>2. g[1 .. k] = g[1 .. (k - 1)] \o ss[k]
          BY <1>6
        <5>3. QED
          BY <1>1, <1>7, <5>1, <5>2
      <4>2. QED
        BY <1>5, <3>1, <4>1, ConcatEmptySeq
    <3>2. CASE k # 1
      <4>1. k - 1 \in 1 .. N
        BY <3>2
      <4>2. QED
        BY <1>5, <1>6, <3>2, <4>1
    <3>3. QED
      BY <3>1, <3>2
  <2>2. QED
    BY <1>5, <2>1
<1>9. PICK h : /\ h = [k \in 1 .. N |-> IF k = 1 THEN ss[k] ELSE h[k - 1] \o ss[k]]
               /\ N # 0 => h[N] = FlattenSeq(ss)
  <2>1. PICK h : h = CHOOSE ff :
                       ff = [k \in 1 .. N |-> IF k = 1 THEN ss[k] ELSE ff[k - 1] \o ss[k]]
    OBVIOUS
  <2>2. h = [k \in 1 .. N |-> IF k = 1 THEN ss[k] ELSE h[k - 1] \o ss[k]]
    BY <1>8, <2>1
  <2>3. N # 0 => h[N] = FlattenSeq(ss)
    BY <1>1, <2>1 DEF FlattenSeq
  <2>4. QED
    BY <2>2, <2>3
<1>10. PICK t : t = [k \in 0 .. N |-> IF k = 0 THEN <<>> ELSE h[k]]
  OBVIOUS
<1>11. t[0] = <<>>
  BY <1>10
<1>12. ASSUME NEW k \in 1 .. N PROVE t[k] = t[k - 1] \o ss[k]
  <2>1. CASE k = 1
    <3>1. t[k] = ss[k] /\ t[k - 1] = <<>> /\ ss[k] \in Seq(Rows)
      BY <1>1, <1>9, <1>10, <2>1
    <3>2. QED
      BY <3>1, ConcatEmptySeq
  <2>2. CASE k # 1
    <3>1. k - 1 \in 1 .. N /\ k - 1 \in 0 .. N /\ k \in 0 .. N /\ k - 1 # 0 /\ k # 0
      BY <2>2
    <3>2. t[k] = h[k] /\ t[k - 1] = h[k - 1]
      BY <1>10, <3>1
    <3>3. QED
      BY <1>9, <2>2, <3>2
  <2>3. QED
    BY <2>1, <2>2
<1>13. ASSUME NEW k \in 0 .. N PROVE t[k] \in Seq(Rows)
  <2>1. PICK T : T = {n \in Nat : n <= N => t[n] \in Seq(Rows)}
    OBVIOUS
  <2>2. 0 \in T /\ T \subseteq Nat
    BY <1>3, <1>11, <2>1
  <2>3. ASSUME NEW n \in T PROVE n + 1 \in T
    <3>1. n \in Nat /\ n + 1 \in Nat
      BY <2>2
    <3>2. ASSUME n + 1 <= N PROVE t[n + 1] \in Seq(Rows)
      <4>1. n + 1 \in 1 .. N /\ (n + 1) - 1 = n /\ n <= N
        BY <3>1, <3>2
      <4>2. t[n + 1] = t[n] \o ss[n + 1]
        BY <1>12, <4>1
      <4>3. t[n] \in Seq(Rows) /\ ss[n + 1] \in Seq(Rows)
        BY <1>1, <2>1, <4>1
      <4>4. QED
        BY <4>2, <4>3, ConcatProperties
    <3>3. QED
      BY <2>1, <3>1, <3>2
  <2>4. T = Nat
    BY <2>2, <2>3, NaturalsBySuccessor
  <2>5. QED
    BY <2>1, <2>4
<1>14. t[N] = FlattenSeq(ss)
  <2>1. CASE N = 0
    <3>1. ss = <<>> /\ FlattenSeq(ss) = ss
      BY <1>1, <2>1 DEF FlattenSeq
    <3>2. QED
      BY <1>11, <2>1, <3>1
  <2>2. CASE N # 0
    <3>1. N \in 0 .. N
      OBVIOUS
    <3>2. t[N] = h[N]
      BY <1>10, <2>2, <3>1
    <3>3. QED
      BY <1>9, <2>2, <3>2
  <2>3. QED
    BY <2>1, <2>2
<1>15. QED
  <2>1. t \in [0 .. N -> Seq(Rows)]
    BY <1>10, <1>13
  <2>2. QED
    BY <1>1, <1>11, <1>12, <1>14, <2>1 DEF IsConcat

\* A part more adds its rows at the end.
LEMMA FlattenOfAppend ==
  ASSUME NEW ss \in Seq(Seq(Rows)), NEW s \in Seq(Rows)
  PROVE  /\ FlattenSeq(ss) \in Seq(Rows)
         /\ FlattenSeq(Append(ss, s)) = FlattenSeq(ss) \o s
<1>1. PICK N \in Nat : N = Len(ss)
  OBVIOUS
<1>2. PICK u \in Seq(Seq(Rows)) : /\ u = Append(ss, s) /\ Len(u) = N + 1 /\ u[N + 1] = s
                                  /\ \A k \in 1 .. N : u[k] = ss[k]
  <2>1. /\ Append(ss, s) \in Seq(Seq(Rows)) /\ Len(Append(ss, s)) = Len(ss) + 1
        /\ \A k \in 1 .. Len(ss) : Append(ss, s)[k] = ss[k]
        /\ Append(ss, s)[Len(ss) + 1] = s
    BY AppendProperties
  <2>2. QED
    BY <1>1, <2>1
<1>3. PICK t \in [0 .. N -> Seq(Rows)] : IsConcat(t, ss) /\ t[N] = FlattenSeq(ss)
  BY <1>1, FlattenHasTrace
<1>4. PICK v \in [0 .. N + 1 -> Seq(Rows)] : IsConcat(v, u) /\ v[N + 1] = FlattenSeq(u)
  BY <1>2, FlattenHasTrace
<1>5. v[N] = t[N]
  <2>1. PICK T : T = {n \in Nat : n <= N => v[n] = t[n]}
    OBVIOUS
  <2>2. 0 \in T /\ T \subseteq Nat
    BY <1>3, <1>4, <2>1 DEF IsConcat
  <2>3. ASSUME NEW n \in T PROVE n + 1 \in T
    <3>1. n \in Nat /\ n + 1 \in Nat
      BY <2>2
    <3>2. ASSUME n + 1 <= N PROVE v[n + 1] = t[n + 1]
      <4>1. n + 1 \in 1 .. N /\ n + 1 \in 1 .. N + 1 /\ (n + 1) - 1 = n /\ n <= N
        BY <3>1, <3>2
      <4>2. v[n] = t[n] /\ u[n + 1] = ss[n + 1]
        BY <1>2, <2>1, <4>1
      <4>3. t[n + 1] = t[n] \o ss[n + 1] /\ v[n + 1] = v[n] \o u[n + 1]
        BY <1>1, <1>2, <1>3, <1>4, <4>1 DEF IsConcat
      <4>4. QED
        BY <4>2, <4>3
    <3>3. QED
      BY <2>1, <3>1, <3>2
  <2>4. T = Nat
    BY <2>2, <2>3, NaturalsBySuccessor
  <2>5. N \in T /\ N <= N
    BY <2>4
  <2>6. QED
    BY <2>1, <2>5
<1>6. v[N + 1] = v[N] \o s
  <2>1. N + 1 \in 1 .. Len(u) /\ (N + 1) - 1 = N
    BY <1>2
  <2>2. QED
    BY <1>2, <1>4, <2>1 DEF IsConcat
<1>7. QED
  BY <1>2, <1>3, <1>4, <1>5, <1>6

\* The rows of the parts and of the one that is being filled.
RowsOf(s) == FlattenSeq(s.batches) \o s.batch

\* The loop body puts the record behind the rows it had.
LEMMA AddRecordRows ==
  ASSUME NEW s \in Parts, NEW r \in Rows
  PROVE  RowsOf(s) \in Seq(Rows) /\ RowsOf(AddRecord(s, r)) = Append(RowsOf(s), r)
<1>1. PICK bs \in Seq(Seq(Rows)), b \in Seq(Rows) :
        bs = s.batches /\ b = s.batch /\ s = [batches |-> bs, batch |-> b]
  BY DEF Parts
<1>2. PICK f \in Seq(Rows) : f = FlattenSeq(bs)
  BY FlattenOfAppend
<1>3. FlattenSeq(Append(bs, b)) = f \o b
  BY <1>2, FlattenOfAppend
<1>4. RowsOf(s) = f \o b /\ f \o b \in Seq(Rows)
  BY <1>1, <1>2, ConcatProperties DEF RowsOf
<1>5. Append(f \o b, r) = (f \o b) \o <<r>> /\ Append(b, r) = b \o <<r>> /\ <<r>> \in Seq(Rows)
  BY <1>4, AppendIsConcat
<1>6. (f \o b) \o <<r>> = f \o (b \o <<r>>)
  BY <1>5, ConcatAssociative
<1>7. CASE AddRecord(s, r) = [batches |-> Append(bs, b), batch |-> <<r>>]
  <2>1. RowsOf(AddRecord(s, r)) = FlattenSeq(Append(bs, b)) \o <<r>>
    BY <1>7 DEF RowsOf
  <2>2. QED
    BY <1>3, <1>4, <1>5, <2>1
<1>8. CASE AddRecord(s, r) = [batches |-> bs, batch |-> Append(b, r)]
  <2>1. RowsOf(AddRecord(s, r)) = f \o Append(b, r)
    <3>1. AddRecord(s, r).batches = bs /\ AddRecord(s, r).batch = Append(b, r)
      BY <1>8
    <3>2. QED
      BY <1>2, <3>1 DEF RowsOf
  <2>2. QED
    BY <1>4, <1>5, <1>6, <2>1
<1>9. \/ AddRecord(s, r) = [batches |-> Append(bs, b), batch |-> <<r>>]
      \/ AddRecord(s, r) = [batches |-> bs, batch |-> Append(b, r)]
  BY <1>1 DEF AddRecord
<1>10. QED
  BY <1>4, <1>7, <1>8, <1>9

\* One position more.
LEMMA SubSeqAppend ==
  ASSUME NEW rows \in Seq(Rows), NEW n \in Nat, n + 1 <= Len(rows)
  PROVE  /\ SubSeq(rows, 1, n) \in Seq(Rows) /\ rows[n + 1] \in Rows
         /\ SubSeq(rows, 1, n + 1) = Append(SubSeq(rows, 1, n), rows[n + 1])
<1>1. PICK u \in Seq(Rows) : /\ u = SubSeq(rows, 1, n) /\ Len(u) = n
                             /\ \A k \in 1 .. n : u[k] = rows[k]
  <2>1. /\ SubSeq(rows, 1, n) \in Seq(Rows) /\ Len(SubSeq(rows, 1, n)) = n
        /\ \A k \in 1 .. n : SubSeq(rows, 1, n)[k] = rows[k]
    OBVIOUS
  <2>2. QED
    BY <2>1
<1>2. PICK v \in Seq(Rows) : /\ v = SubSeq(rows, 1, n + 1) /\ Len(v) = n + 1
                             /\ \A k \in 1 .. n + 1 : v[k] = rows[k]
  <2>1. /\ SubSeq(rows, 1, n + 1) \in Seq(Rows) /\ Len(SubSeq(rows, 1, n + 1)) = n + 1
        /\ \A k \in 1 .. n + 1 : SubSeq(rows, 1, n + 1)[k] = rows[k]
    OBVIOUS
  <2>2. QED
    BY <2>1
<1>3. rows[n + 1] \in Rows
  OBVIOUS
<1>4. PICK w \in Seq(Rows) : /\ w = Append(u, rows[n + 1]) /\ Len(w) = n + 1
                             /\ w[n + 1] = rows[n + 1] /\ \A k \in 1 .. n : w[k] = u[k]
  <2>1. /\ Append(u, rows[n + 1]) \in Seq(Rows) /\ Len(Append(u, rows[n + 1])) = Len(u) + 1
        /\ \A k \in 1 .. Len(u) : Append(u, rows[n + 1])[k] = u[k]
        /\ Append(u, rows[n + 1])[Len(u) + 1] = rows[n + 1]
    BY <1>3, AppendProperties
  <2>2. QED
    BY <1>1, <2>1
<1>5. ASSUME NEW k \in 1 .. n + 1 PROVE v[k] = w[k]
  <2>1. CASE k = n + 1
    BY <1>2, <1>4, <2>1
  <2>2. CASE k # n + 1
    <3>1. k \in 1 .. n
      BY <2>2
    <3>2. QED
      BY <1>1, <1>2, <1>4, <3>1
  <2>3. QED
    BY <2>1, <2>2
<1>6. v = w
  BY <1>2, <1>4, <1>5, SeqEqual
<1>7. QED
  BY <1>1, <1>2, <1>3, <1>4, <1>6

\* splitIntoBatches() puts every record in one part, in order.
THEOREM SplitKeepsTheRows ==
  ASSUME NEW rows \in Seq(Rows)
  PROVE  /\ SplitIntoBatches(rows) \in Seq(Seq(Rows))
         /\ FlattenSeq(SplitIntoBatches(rows)) = rows
<1>1. PICK N \in Nat : N = Len(rows)
  OBVIOUS
<1>2. PICK t \in [0 .. N -> Parts] : IsSplit(t, rows) /\ t[N] = FoldLeft(AddRecord, Start, rows)
  BY <1>1, SplitHasTrace
<1>3. RowsOf(t[N]) = SubSeq(rows, 1, N)
  <2>1. PICK T : T = {n \in Nat : n <= N => RowsOf(t[n]) = SubSeq(rows, 1, n)}
    OBVIOUS
  <2>2. 0 \in T /\ T \subseteq Nat
    <3>1. t[0] = Start
      BY <1>2 DEF IsSplit
    <3>2. FlattenSeq(<<>>) = <<>> /\ <<>> \o <<>> = <<>>
      BY EmptySeq, ConcatEmptySeq DEF FlattenSeq
    <3>3. RowsOf(t[0]) = <<>>
      BY <3>1, <3>2 DEF RowsOf, Start
    <3>4. SubSeq(rows, 1, 0) = <<>>
      OBVIOUS
    <3>5. QED
      BY <2>1, <3>3, <3>4
  <2>3. ASSUME NEW n \in T PROVE n + 1 \in T
    <3>1. n \in Nat /\ n + 1 \in Nat
      BY <2>2
    <3>2. ASSUME n + 1 <= N PROVE RowsOf(t[n + 1]) = SubSeq(rows, 1, n + 1)
      <4>1. n + 1 \in 1 .. N /\ (n + 1) - 1 = n /\ n <= N /\ n \in 0 .. N
        BY <3>1, <3>2
      <4>2. t[n + 1] = AddRecord(t[n], rows[n + 1])
        BY <1>1, <1>2, <4>1 DEF IsSplit
      <4>3. RowsOf(t[n]) = SubSeq(rows, 1, n) /\ t[n] \in Parts
        BY <2>1, <4>1
      <4>4. rows[n + 1] \in Rows
            /\ SubSeq(rows, 1, n + 1) = Append(SubSeq(rows, 1, n), rows[n + 1])
        BY <1>1, <3>1, <3>2, SubSeqAppend
      <4>5. RowsOf(AddRecord(t[n], rows[n + 1])) = Append(RowsOf(t[n]), rows[n + 1])
        BY <4>3, <4>4, AddRecordRows
      <4>6. QED
        BY <4>2, <4>3, <4>4, <4>5
    <3>3. QED
      BY <2>1, <3>1, <3>2
  <2>4. T = Nat
    BY <2>2, <2>3, NaturalsBySuccessor
  <2>5. N \in T /\ N <= N
    BY <2>4
  <2>6. QED
    BY <2>1, <2>5
<1>4. SubSeq(rows, 1, N) = rows
  BY <1>1
<1>5. PICK bs \in Seq(Seq(Rows)), b \in Seq(Rows) :
        t[N].batches = bs /\ t[N].batch = b
  BY DEF Parts
<1>6. SplitIntoBatches(rows) = IF b = <<>> THEN bs ELSE Append(bs, b)
  BY <1>2, <1>5 DEF SplitIntoBatches, Start
<1>7. FlattenSeq(bs) \o b = rows
  BY <1>3, <1>4, <1>5 DEF RowsOf
<1>8. FlattenSeq(bs) \in Seq(Rows) /\ FlattenSeq(Append(bs, b)) = FlattenSeq(bs) \o b
      /\ Append(bs, b) \in Seq(Seq(Rows))
  BY FlattenOfAppend, AppendProperties
<1>9. CASE b = <<>>
  BY <1>6, <1>7, <1>8, <1>9, ConcatEmptySeq
<1>10. CASE b # <<>>
  BY <1>6, <1>7, <1>8, <1>10
<1>11. QED
  BY <1>9, <1>10

-------------------------------------------------------------------------------
(* The limits of the parts.                                                  *)

Small(p) ==
  /\ p \in Seq(Rows)
  /\ Len(p) \in 1 .. SPLIT_SIZE
  /\ SumOfSizes(p) <= SPLIT_PAYLOAD
  /\ \A k \in 1 .. Len(p) : SizeOf[p[k]] <= RECORD_SIZE

SmallParts(s) ==
  /\ \A k \in 1 .. Len(s.batches) : Small(s.batches[k])
  /\ s.batch = <<>> \/ Small(s.batch)

\* The margins of splitIntoBatches() are enough for validateBatch().
LEMMA SmallIsValid ==
  ASSUME NEW p, Small(p)
  PROVE  ValidBatch(p)
<1>1. /\ SPLIT_SIZE \in Nat /\ BATCH_SIZE_ASYNC \in Nat /\ PAYLOAD_SIZE_BYTES \in Nat
      /\ SPLIT_PAYLOAD \in Nat
      /\ SPLIT_SIZE <= BATCH_SIZE_ASYNC
      /\ SPLIT_PAYLOAD + SPLIT_SIZE + 1 <= PAYLOAD_SIZE_BYTES
  BY SizesAssumption
<1>2. p \in Seq(Rows) /\ Len(p) \in 1 .. SPLIT_SIZE /\ SumOfSizes(p) <= SPLIT_PAYLOAD
  BY DEF Small
<1>3. SumOfSizes(p) \in Nat
  BY <1>2, SumHasTrace
<1>4. PayloadSize(p) <= PAYLOAD_SIZE_BYTES
  BY <1>1, <1>2, <1>3 DEF PayloadSize
<1>5. Len(p) \in 1 .. BATCH_SIZE_ASYNC
  BY <1>1, <1>2
<1>6. QED
  BY <1>2, <1>4, <1>5 DEF ValidBatch, Small

\* A part that has got one more record.
LEMMA SmallAppend ==
  ASSUME NEW b \in Seq(Rows), NEW r \in Rows, b = <<>> \/ Small(b),
         Len(b) < SPLIT_SIZE, SumOfSizes(b) + SizeOf[r] <= SPLIT_PAYLOAD,
         SizeOf[r] <= RECORD_SIZE
  PROVE  Small(Append(b, r))
<1>1. PICK w \in Seq(Rows) : /\ w = Append(b, r) /\ Len(w) = Len(b) + 1
                             /\ w[Len(b) + 1] = r /\ \A k \in 1 .. Len(b) : w[k] = b[k]
  <2>1. /\ Append(b, r) \in Seq(Rows) /\ Len(Append(b, r)) = Len(b) + 1
        /\ \A k \in 1 .. Len(b) : Append(b, r)[k] = b[k]
        /\ Append(b, r)[Len(b) + 1] = r
    BY AppendProperties
  <2>2. QED
    BY <2>1
<1>2. SumOfSizes(w) = SumOfSizes(b) + SizeOf[r]
  BY <1>1, SumOfAppend
<1>3. Len(w) \in 1 .. SPLIT_SIZE
  <2>1. SPLIT_SIZE \in Nat /\ Len(b) \in Nat
    BY SizesAssumption
  <2>2. QED
    BY <1>1, <2>1
<1>4. ASSUME NEW k \in 1 .. Len(w) PROVE SizeOf[w[k]] <= RECORD_SIZE
  <2>1. CASE k = Len(b) + 1
    BY <1>1, <2>1
  <2>2. CASE k # Len(b) + 1
    <3>1. k \in 1 .. Len(b) /\ b # <<>>
      BY <1>1, <2>2
    <3>2. QED
      BY <1>1, <3>1 DEF Small
  <2>3. QED
    BY <2>1, <2>2
<1>5. QED
  BY <1>1, <1>2, <1>3, <1>4 DEF Small

LEMMA AddRecordLimits ==
  ASSUME NEW s \in Parts, NEW r \in Rows, SmallParts(s), SizeOf[r] <= RECORD_SIZE
  PROVE  SmallParts(AddRecord(s, r))
<1>1. PICK bs \in Seq(Seq(Rows)), b \in Seq(Rows) :
        bs = s.batches /\ b = s.batch /\ s = [batches |-> bs, batch |-> b]
  BY DEF Parts
<1>2. /\ \A k \in 1 .. Len(bs) : Small(bs[k])
      /\ b = <<>> \/ Small(b)
  BY <1>1 DEF SmallParts
<1>3. /\ SPLIT_SIZE \in Nat \ {0} /\ SPLIT_PAYLOAD \in Nat /\ RECORD_SIZE \in Nat
      /\ RECORD_SIZE <= SPLIT_PAYLOAD /\ SizeOf[r] \in Nat
  BY SizesAssumption
<1>4. SumOfSizes(b) \in Nat /\ Len(b) \in Nat
  BY SumOfAppend
<1>5. CASE b # <<>> /\ (Len(b) >= SPLIT_SIZE \/ SumOfSizes(b) + SizeOf[r] > SPLIT_PAYLOAD)
  <2>1. AddRecord(s, r) = [batches |-> Append(bs, b), batch |-> <<r>>]
    BY <1>1, <1>5 DEF AddRecord
  <2>2. Small(<<r>>)
    <3>1. PICK w \in Seq(Rows) : w = <<r>> /\ Len(w) = 1 /\ w[1] = r
      <4>1. <<r>> \in Seq(Rows) /\ Len(<<r>>) = 1 /\ <<r>>[1] = r
        OBVIOUS
      <4>2. QED
        BY <4>1
    <3>2. SumOfSizes(w) = SizeOf[r]
      BY <3>1, SumOfOne
    <3>3. \A k \in 1 .. Len(w) : w[k] = r
      BY <3>1
    <3>4. QED
      BY <1>3, <3>1, <3>2, <3>3 DEF Small
  <2>3. PICK u \in Seq(Seq(Rows)) : /\ u = Append(bs, b) /\ Len(u) = Len(bs) + 1
                                    /\ u[Len(bs) + 1] = b
                                    /\ \A k \in 1 .. Len(bs) : u[k] = bs[k]
    <3>1. /\ Append(bs, b) \in Seq(Seq(Rows)) /\ Len(Append(bs, b)) = Len(bs) + 1
          /\ \A k \in 1 .. Len(bs) : Append(bs, b)[k] = bs[k]
          /\ Append(bs, b)[Len(bs) + 1] = b
      BY AppendProperties
    <3>2. QED
      BY <3>1
  <2>4. ASSUME NEW k \in 1 .. Len(u) PROVE Small(u[k])
    <3>1. CASE k = Len(bs) + 1
      BY <1>2, <1>5, <2>3, <3>1
    <3>2. CASE k # Len(bs) + 1
      <4>1. k \in 1 .. Len(bs)
        BY <2>3, <3>2
      <4>2. QED
        BY <1>2, <2>3, <4>1
    <3>3. QED
      BY <3>1, <3>2
  <2>5. AddRecord(s, r).batches = u /\ AddRecord(s, r).batch = <<r>>
    BY <2>1, <2>3
  <2>6. QED
    BY <2>2, <2>4, <2>5 DEF SmallParts
<1>6. CASE ~(b # <<>> /\ (Len(b) >= SPLIT_SIZE \/ SumOfSizes(b) + SizeOf[r] > SPLIT_PAYLOAD))
  <2>1. AddRecord(s, r) = [batches |-> bs, batch |-> Append(b, r)]
    BY <1>1, <1>6 DEF AddRecord
  <2>2. Len(b) < SPLIT_SIZE /\ SumOfSizes(b) + SizeOf[r] <= SPLIT_PAYLOAD
    <3>1. CASE b = <<>>
      <4>1. Len(b) = 0 /\ SumOfSizes(b) = 0
        BY <3>1, SumOfOne
      <4>2. QED
        BY <1>3, <4>1
    <3>2. CASE b # <<>>
      BY <1>3, <1>4, <1>6, <3>2
    <3>3. QED
      BY <3>1, <3>2
  <2>3. Small(Append(b, r))
    BY <1>2, <2>2, SmallAppend
  <2>4. AddRecord(s, r).batches = bs /\ AddRecord(s, r).batch = Append(b, r)
    BY <2>1
  <2>5. QED
    BY <1>2, <2>3, <2>4 DEF SmallParts
<1>7. QED
  BY <1>5, <1>6

\* The parts of rows that are small by themselves are within the limits.
THEOREM SplitFindsValidParts ==
  ASSUME NEW rows \in Seq(Rows), \A k \in 1 .. Len(rows) : SizeOf[rows[k]] <= RECORD_SIZE
  PROVE  \A k \in 1 .. Len(SplitIntoBatches(rows)) : ValidBatch(SplitIntoBatches(rows)[k])
<1>1. PICK N \in Nat : N = Len(rows)
  OBVIOUS
<1>2. PICK t \in [0 .. N -> Parts] : IsSplit(t, rows) /\ t[N] = FoldLeft(AddRecord, Start, rows)
  BY <1>1, SplitHasTrace
<1>3. SmallParts(t[N])
  <2>1. PICK T : T = {n \in Nat : n <= N => SmallParts(t[n])}
    OBVIOUS
  <2>2. 0 \in T /\ T \subseteq Nat
    <3>1. t[0] = Start
      BY <1>2 DEF IsSplit
    <3>2. SmallParts(t[0])
      BY <3>1 DEF SmallParts, Start
    <3>3. QED
      BY <2>1, <3>2
  <2>3. ASSUME NEW n \in T PROVE n + 1 \in T
    <3>1. n \in Nat /\ n + 1 \in Nat
      BY <2>2
    <3>2. ASSUME n + 1 <= N PROVE SmallParts(t[n + 1])
      <4>1. n + 1 \in 1 .. N /\ (n + 1) - 1 = n /\ n <= N /\ n \in 0 .. N
        BY <3>1, <3>2
      <4>2. t[n + 1] = AddRecord(t[n], rows[n + 1])
        BY <1>1, <1>2, <4>1 DEF IsSplit
      <4>3. SmallParts(t[n]) /\ t[n] \in Parts
        BY <2>1, <4>1
      <4>4. rows[n + 1] \in Rows /\ SizeOf[rows[n + 1]] <= RECORD_SIZE
        BY <1>1, <4>1
      <4>5. QED
        BY <4>2, <4>3, <4>4, AddRecordLimits
    <3>3. QED
      BY <2>1, <3>1, <3>2
  <2>4. T = Nat
    BY <2>2, <2>3, NaturalsBySuccessor
  <2>5. N \in T /\ N <= N
    BY <2>4
  <2>6. QED
    BY <2>1, <2>5
<1>4. PICK bs \in Seq(Seq(Rows)), b \in Seq(Rows) :
        t[N].batches = bs /\ t[N].batch = b
  BY DEF Parts
<1>5. SplitIntoBatches(rows) = IF b = <<>> THEN bs ELSE Append(bs, b)
  BY <1>2, <1>4 DEF SplitIntoBatches, Start
<1>6. (\A k \in 1 .. Len(bs) : Small(bs[k])) /\ (b = <<>> \/ Small(b))
  BY <1>3, <1>4 DEF SmallParts
<1>7. PICK u \in Seq(Seq(Rows)) : /\ u = Append(bs, b) /\ Len(u) = Len(bs) + 1
                                  /\ u[Len(bs) + 1] = b
                                  /\ \A k \in 1 .. Len(bs) : u[k] = bs[k]
  <2>1. /\ Append(bs, b) \in Seq(Seq(Rows)) /\ Len(Append(bs, b)) = Len(bs) + 1
        /\ \A k \in 1 .. Len(bs) : Append(bs, b)[k] = bs[k]
        /\ Append(bs, b)[Len(bs) + 1] = b
    BY AppendProperties
  <2>2. QED
    BY <2>1
<1>8. ASSUME NEW k \in 1 .. Len(SplitIntoBatches(rows)) PROVE Small(SplitIntoBatches(rows)[k])
  <2>1. CASE b = <<>>
    BY <1>5, <1>6, <2>1
  <2>2. CASE b # <<>>
    <3>1. SplitIntoBatches(rows) = u
      BY <1>5, <1>7, <2>2
    <3>2. k \in 1 .. Len(u)
      BY <3>1
    <3>3. CASE k = Len(bs) + 1
      BY <1>6, <1>7, <2>2, <3>1, <3>3
    <3>4. CASE k # Len(bs) + 1
      <4>1. k \in 1 .. Len(bs)
        BY <1>7, <3>2, <3>4
      <4>2. QED
        BY <1>6, <1>7, <3>1, <4>1
    <3>5. QED
      BY <3>3, <3>4
  <2>3. QED
    BY <2>1, <2>2
<1>9. QED
  BY <1>8, SmallIsValid

-------------------------------------------------------------------------------
(* validateAndSplit().                                                       *)

\* The parts are sequences of rows, each within the limits of a request, and have
\* all the rows in order, unless the rows are refused.
THEOREM PartsOrRefusal ==
  ASSUME NEW rows \in Seq(Rows)
  PROVE  /\ ValidateAndSplit(rows) \in Seq(Seq(Rows))
         /\ \A k \in 1 .. Len(ValidateAndSplit(rows)) : ValidBatch(ValidateAndSplit(rows)[k])
         /\ ValidateAndSplit(rows) = <<>> \/ FlattenSeq(ValidateAndSplit(rows)) = rows
<1>1. CASE ValidBatch(rows)
  <2>1. PICK p \in Seq(Seq(Rows)) : p = <<rows>> /\ Len(p) = 1 /\ p[1] = rows
    <3>1. <<rows>> \in Seq(Seq(Rows)) /\ Len(<<rows>>) = 1 /\ <<rows>>[1] = rows
      OBVIOUS
    <3>2. QED
      BY <3>1
  <2>2. FlattenSeq(p) = rows
    <3>1. PICK e \in Seq(Seq(Rows)) : e = <<>> /\ Append(e, rows) = <<rows>>
      <4>1. <<>> \in Seq(Seq(Rows)) /\ Append(<<>>, rows) = <<rows>>
        BY EmptySeq
      <4>2. QED
        BY <4>1
    <3>2. FlattenSeq(e) = <<>>
      BY <3>1, EmptySeq DEF FlattenSeq
    <3>3. FlattenSeq(Append(e, rows)) = <<>> \o rows
      BY <3>2, FlattenOfAppend
    <3>4. QED
      BY <2>1, <3>1, <3>3, ConcatEmptySeq
  <2>3. ValidateAndSplit(rows) = p
    BY <1>1, <2>1 DEF ValidateAndSplit
  <2>4. \A k \in 1 .. Len(p) : ValidBatch(p[k])
    BY <1>1, <2>1
  <2>5. QED
    BY <2>2, <2>3, <2>4
<1>2. CASE ~ValidBatch(rows)
  <2>1. PICK p \in Seq(Seq(Rows)) : p = SplitIntoBatches(rows) /\ FlattenSeq(p) = rows
    BY SplitKeepsTheRows
  <2>2. CASE ValidateAndSplit(rows) = <<>>
    BY <2>2, EmptySeq
  <2>3. CASE ValidateAndSplit(rows) # <<>>
    <3>1. ValidateAndSplit(rows) = p /\ \A k \in DOMAIN p : ValidBatch(p[k])
      BY <1>2, <2>1, <2>3 DEF ValidateAndSplit
    <3>2. DOMAIN p = 1 .. Len(p)
      OBVIOUS
    <3>3. QED
      BY <2>1, <3>1, <3>2
  <2>4. QED
    BY <2>2, <2>3
<1>3. QED
  BY <1>1, <1>2

\* Rows are refused only for a record that is over the limit of one record.
THEOREM OnlyLargeRecordsRefused ==
  ASSUME NEW rows \in Seq(Rows), rows # <<>>, ValidateAndSplit(rows) = <<>>
  PROVE  \E k \in DOMAIN rows : SizeOf[rows[k]] > RECORD_SIZE
<1>1. SUFFICES ASSUME \A k \in 1 .. Len(rows) : SizeOf[rows[k]] <= RECORD_SIZE
               PROVE  FALSE
  <2>1. ASSUME NEW k \in 1 .. Len(rows), ~(SizeOf[rows[k]] <= RECORD_SIZE)
        PROVE  k \in DOMAIN rows /\ SizeOf[rows[k]] > RECORD_SIZE
    <3>1. SizeOf[rows[k]] \in Nat /\ RECORD_SIZE \in Nat
      BY SizesAssumption
    <3>2. QED
      BY <2>1, <3>1
  <2>2. QED
    BY <2>1
<1>2. PICK p \in Seq(Seq(Rows)) : p = SplitIntoBatches(rows) /\ FlattenSeq(p) = rows
  BY SplitKeepsTheRows
<1>3. \A k \in 1 .. Len(p) : ValidBatch(p[k])
  BY <1>1, <1>2, SplitFindsValidParts
<1>4. ~ValidBatch(rows)
  BY DEF ValidateAndSplit
<1>5. p # <<>>
  BY <1>2 DEF FlattenSeq
<1>6. Len(p) = 1 /\ Len(p[1]) = Len(rows)
  <2>1. DOMAIN p = 1 .. Len(p)
    OBVIOUS
  <2>2. QED
    BY <1>2, <1>3, <1>4, <1>5, <2>1 DEF ValidateAndSplit
<1>7. p[1] = rows
  <2>1. PICK q \in Seq(Rows) : q = p[1]
    <3>1. 1 \in 1 .. Len(p)
      BY <1>6
    <3>2. QED
      BY <3>1
  <2>2. PICK e \in Seq(Seq(Rows)) : e = <<>> /\ Append(e, q) = <<q>>
    <3>1. <<>> \in Seq(Seq(Rows)) /\ Append(<<>>, q) = <<q>>
      BY EmptySeq
    <3>2. QED
      BY <3>1
  <2>3. p = <<q>>
    BY <1>6, <2>1
  <2>4. FlattenSeq(e) = <<>>
    BY <2>2, EmptySeq DEF FlattenSeq
  <2>5. FlattenSeq(Append(e, q)) = <<>> \o q
    BY <2>4, FlattenOfAppend
  <2>6. QED
    BY <1>2, <2>1, <2>2, <2>3, <2>5, ConcatEmptySeq
<1>8. QED
  BY <1>3, <1>4, <1>6, <1>7

===============================================================================
