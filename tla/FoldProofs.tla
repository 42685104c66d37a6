----------------------------- MODULE FoldProofs -----------------------------
(***************************************************************************)
(* Induction and folds, stated so that they can be used: every parameter   *)
(* is a set or a function, never an operator.  A property to be proved for *)
(* all numbers is given as the set of the numbers that have it; what a     *)
(* fold does in a step, as a function.                                     *)
(***************************************************************************)
EXTENDS Integers, Sequences, SequencesExt, FiniteSetTheorems,
        WellFoundedInduction, TLAPS

LEMMA SmallestOf ==
  ASSUME NEW T \in SUBSET Nat, T # {}
  PROVE  \E m \in T : \A k \in T : m <= k
<1> DEFINE R == OpToRel(<, Nat)
<1>1. IsWellFoundedOn(R, Nat)
  BY NatLessThanWellFounded
<1> HIDE DEF R
<1>2. PICK m \in T : \A k \in T : ~(<<k, m>> \in R)
  BY <1>1, WFMin
<1>3. \A k \in T : <<k, m>> \in R <=> k < m
  BY DEF OpToRel, R
<1>4. \A k \in T : k \in Nat
  OBVIOUS
<1>5. \A k \in T : ~(k < m)
  BY <1>2, <1>3
<1>6. \A k \in T : m <= k
  BY <1>4, <1>5
<1> QED
  BY <1>6

LEMMA Induction ==
  ASSUME NEW S, 0 \in S, \A n \in Nat : n \in S => n + 1 \in S
  PROVE  \A n \in Nat : n \in S
<1> SUFFICES ASSUME Nat \ S # {} PROVE FALSE
  OBVIOUS
<1>1. PICK m \in Nat \ S : \A k \in Nat \ S : m <= k
  BY SmallestOf
<1>2. m # 0 /\ m - 1 \in Nat
  BY <1>1
<1>3. m - 1 \in S
  BY <1>1, <1>2
<1> QED
  BY <1>1, <1>2, <1>3

(* The same up to a bound.                                                 *)
LEMMA InductionTo ==
  ASSUME NEW n \in Nat, NEW S, 0 \in S,
         \A k \in 1 .. n : k - 1 \in S => k \in S
  PROVE  \A k \in 0 .. n : k \in S
<1> DEFINE P == {k \in Nat : k <= n => k \in S}
<1>1. 0 \in P
  OBVIOUS
<1>2. ASSUME NEW k \in Nat, k \in P PROVE k + 1 \in P
  <2> SUFFICES ASSUME k + 1 <= n PROVE k + 1 \in S
    OBVIOUS
  <2>1. k \in S
    BY <1>2
  <2>2. k + 1 \in 1 .. n /\ (k + 1) - 1 = k
    OBVIOUS
  <2> QED
    BY <2>1, <2>2
<1> HIDE DEF P
<1>3. \A k \in Nat : k \in P
  BY <1>1, <1>2, Induction
<1> QED
  BY <1>3 DEF P

(* Downwards from n to 1.                                                  *)
LEMMA InductionDown ==
  ASSUME NEW n \in Nat, NEW S, n \in S,
         \A k \in 1 .. n : k \in S => k - 1 \in S
  PROVE  \A k \in 0 .. n : k \in S
<1> DEFINE P == {k \in Nat : k <= n => n - k \in S}
<1>1. 0 \in P
  OBVIOUS
<1>2. ASSUME NEW k \in Nat, k \in P PROVE k + 1 \in P
  <2> SUFFICES ASSUME k + 1 <= n PROVE n - (k + 1) \in S
    OBVIOUS
  <2>1. n - k \in S
    BY <1>2
  <2>2. n - k \in 1 .. n /\ (n - k) - 1 = n - (k + 1)
    OBVIOUS
  <2> QED
    BY <2>1, <2>2
<1> HIDE DEF P
<1>3. \A k \in Nat : k \in P
  BY <1>1, <1>2, Induction
<1>4. ASSUME NEW k \in 0 .. n PROVE k \in S
  <2>1. n - k \in Nat /\ n - k <= n /\ n - (n - k) = k
    OBVIOUS
  <2>2. n - k \in P
    BY <1>3, <2>1
  <2> QED
    BY <2>1, <2>2 DEF P
<1> QED
  BY <1>4

LEMMA LargestIn ==
  ASSUME NEW n \in Nat, NEW T \in SUBSET (1 .. n), T # {}
  PROVE  Max(T) \in T /\ \A k \in T : k <= Max(T)
<1> DEFINE D == {n - k : k \in T}
<1>1. D \in SUBSET Nat /\ D # {}
  OBVIOUS
<1> HIDE DEF D
<1>2. PICK d \in D : \A k \in D : d <= k
  BY <1>1, SmallestOf
<1>3. PICK m \in T : d = n - m
  BY DEF D
<1>4. \A k \in T : m >= k
  <2> SUFFICES ASSUME NEW k \in T PROVE m >= k
    OBVIOUS
  <2>1. n - k \in D
    BY DEF D
  <2>2. n - m <= n - k
    BY <1>2, <1>3, <2>1
  <2> QED
    BY <2>2
<1>5. Max(T) \in T /\ \A k \in T : Max(T) >= k
  BY <1>3, <1>4, Zenon DEF Max
<1>6. \A k \in T : k \in Int
  OBVIOUS
<1> QED
  BY <1>5, <1>6

LEMMA LeastIn ==
  ASSUME NEW n \in Nat, NEW T \in SUBSET (1 .. n), T # {}
  PROVE  Min(T) \in T /\ \A k \in T : Min(T) <= k
<1>1. T \in SUBSET Nat
  OBVIOUS
<1>2. PICK m \in T : \A k \in T : m <= k
  BY <1>1, SmallestOf
<1> QED
  BY <1>2, Zenon DEF Min
-----------------------------------------------------------------------------
(* A fold over a finite set, as Folds defines it: there is a function that *)
(* obeys its equation.  pick chooses the next element, step is what is     *)
(* done with it.                                                           *)
FoldStep(iter, base, pick, step, T) ==
  IF T = {} THEN base ELSE step[<<pick[T], iter[T \ {pick[T]}]>>]

HasFold(S, V, base, pick, step) ==
  \E iter \in [SUBSET S -> V] :
    \A T \in SUBSET S : iter[T] = FoldStep(iter, base, pick, step, T)

LEMMA FoldExists ==
  ASSUME NEW S, IsFiniteSet(S), NEW V, NEW base \in V, NEW pick,
         \A T \in SUBSET S : T # {} => pick[T] \in T,
         NEW step \in [S \X V -> V]
  PROVE  HasFold(S, V, base, pick, step)
<1> DEFINE Small(n) == {T \in SUBSET S : Cardinality(T) <= n}
           Folds(iter, n) == \A T \in Small(n) :
                               iter[T] = FoldStep(iter, base, pick, step, T)
           Good == {n \in Nat : \E iter \in [Small(n) -> V] : Folds(iter, n)}
<1>1. \A T \in SUBSET S : IsFiniteSet(T) /\ Cardinality(T) \in Nat
  BY FS_Subset, FS_CardinalityType
<1>2. 0 \in Good
  <2> DEFINE iter == [T \in Small(0) |-> base]
  <2>1. \A T \in Small(0) : T = {}
    BY <1>1, FS_EmptySet
  <2>2. iter \in [Small(0) -> V] /\ Folds(iter, 0)
    BY <2>1 DEF FoldStep
  <2> QED
    BY <2>2
<1>3. ASSUME NEW n \in Nat, n \in Good PROVE n + 1 \in Good
  <2>1. PICK f \in [Small(n) -> V] : Folds(f, n)
    BY <1>3
  <2> DEFINE g == [T \in Small(n + 1) |-> FoldStep(f, base, pick, step, T)]
  <2>2. ASSUME NEW T \in Small(n + 1), T # {}
        PROVE  T \ {pick[T]} \in Small(n) /\ pick[T] \in S
    <3>1. pick[T] \in T /\ T \in SUBSET S
      BY <2>2
    <3>2. Cardinality(T \ {pick[T]}) = Cardinality(T) - 1
      BY <3>1, <1>1, FS_RemoveElement
    <3>3. T \ {pick[T]} \in SUBSET S /\ Cardinality(T) \in Nat
      BY <3>1, <1>1
    <3>4. Cardinality(T) <= n + 1
      OBVIOUS
    <3> QED
      BY <3>1, <3>2, <3>3, <3>4
  <2>3. \A T \in Small(n) : T \in Small(n + 1)
    BY <1>1
  <2>4. \A T \in Small(n) : g[T] = f[T]
    BY <2>1, <2>3
  <2> HIDE DEF Small
  <2>5. g \in [Small(n + 1) -> V]
    <3> SUFFICES ASSUME NEW T \in Small(n + 1)
                 PROVE  FoldStep(f, base, pick, step, T) \in V
      BY Zenon
    <3>1. CASE T = {}
      BY <3>1 DEF FoldStep
    <3>2. CASE T # {}
      <4>1. f[T \ {pick[T]}] \in V
        BY <2>1, <2>2, <3>2
      <4> QED
        BY <2>2, <3>2, <4>1 DEF FoldStep
    <3> QED
      BY <3>1, <3>2
  <2>6. Folds(g, n + 1)
    <3> SUFFICES ASSUME NEW T \in Small(n + 1)
                 PROVE  g[T] = FoldStep(g, base, pick, step, T)
      OBVIOUS
    <3>1. g[T] = FoldStep(f, base, pick, step, T)
      OBVIOUS
    <3>2. T # {} => g[T \ {pick[T]}] = f[T \ {pick[T]}]
      BY <2>2, <2>4
    <3> QED
      BY <3>1, <3>2 DEF FoldStep
  <2> HIDE DEF g, Folds
  <2> QED
    BY <2>5, <2>6
<1> HIDE DEF Good
<1>4. Cardinality(S) \in Good
  BY <1>1, <1>2, <1>3, Induction, FS_CardinalityType
<1>5. Small(Cardinality(S)) = SUBSET S
  BY FS_Subset
<1> QED
  BY <1>4, <1>5 DEF Good, HasFold

(* The two ways FoldLeft and FoldRight choose, for the indices of a        *)
(* sequence of n elements.                                                 *)
HasLeftFold(n, V, base, step) ==
  \E iter \in [SUBSET (1 .. n) -> V] :
    iter = [T \in SUBSET (1 .. n) |->
              IF T = {} THEN base ELSE step[<<iter[T \ {Max(T)}], Max(T)>>]]

LEMMA FoldLeftExists ==
  ASSUME NEW n \in Nat, NEW V, NEW base \in V, NEW step \in [V \X (1 .. n) -> V]
  PROVE  HasLeftFold(n, V, base, step)
<1> DEFINE S == 1 .. n
           pick == [T \in SUBSET S |-> Max(T)]
           swapped == [x \in S \X V |-> step[<<x[2], x[1]>>]]
<1>1. \A T \in SUBSET S : T # {} => pick[T] \in T
  BY LargestIn
<1>2. IsFiniteSet(S)
  BY FS_Interval
<1>3. swapped \in [S \X V -> V]
  OBVIOUS
<1>e. /\ \A T \in SUBSET S : pick[T] = Max(T)
      /\ \A k \in S, v \in V : swapped[<<k, v>>] = step[<<v, k>>]
  OBVIOUS
<1> HIDE DEF S, pick, swapped
<1>h. HasFold(S, V, base, pick, swapped)
  BY <1>1, <1>2, <1>3, FoldExists
<1>4. PICK iter \in [SUBSET S -> V] :
        \A T \in SUBSET S : iter[T] = FoldStep(iter, base, pick, swapped, T)
  BY <1>h DEF HasFold
<1>5. ASSUME NEW T \in SUBSET S
      PROVE  iter[T] = IF T = {} THEN base
                       ELSE step[<<iter[T \ {Max(T)}], Max(T)>>]
  <2>1. CASE T = {}
    BY <1>4, <2>1 DEF FoldStep
  <2>2. CASE T # {}
    <3>1. pick[T] = Max(T) /\ Max(T) \in S /\ iter[T \ {Max(T)}] \in V
      BY <1>1, <1>e, <2>2
    <3>2. iter[T] = swapped[<<Max(T), iter[T \ {Max(T)}]>>]
      BY <1>4, <2>2, <3>1 DEF FoldStep
    <3> QED
      BY <1>e, <2>2, <3>1, <3>2
  <2> QED
    BY <2>1, <2>2
<1>6. iter = [T \in SUBSET S |-> IF T = {} THEN base
                       ELSE step[<<iter[T \ {Max(T)}], Max(T)>>]]
  BY <1>5
<1> QED
  BY <1>6 DEF S, HasLeftFold

HasRightFold(n, V, base, step) ==
  \E iter \in [SUBSET (1 .. n) -> V] :
    iter = [T \in SUBSET (1 .. n) |->
              IF T = {} THEN base ELSE step[<<Min(T), iter[T \ {Min(T)}]>>]]

LEMMA FoldRightExists ==
  ASSUME NEW n \in Nat, NEW V, NEW base \in V, NEW step \in [(1 .. n) \X V -> V]
  PROVE  HasRightFold(n, V, base, step)
<1> DEFINE S == 1 .. n
           pick == [T \in SUBSET S |-> Min(T)]
<1>1. \A T \in SUBSET S : T # {} => pick[T] \in T
  BY LeastIn
<1>2. IsFiniteSet(S)
  BY FS_Interval
<1>3. step \in [S \X V -> V]
  OBVIOUS
<1>e. \A T \in SUBSET S : pick[T] = Min(T)
  OBVIOUS
<1> HIDE DEF S, pick
<1>h. HasFold(S, V, base, pick, step)
  BY <1>1, <1>2, <1>3, FoldExists
<1>4. PICK iter \in [SUBSET S -> V] :
        \A T \in SUBSET S : iter[T] = FoldStep(iter, base, pick, step, T)
  BY <1>h DEF HasFold
<1>5. ASSUME NEW T \in SUBSET S
      PROVE  iter[T] = IF T = {} THEN base
                       ELSE step[<<Min(T), iter[T \ {Min(T)}]>>]
  BY <1>4, <1>e DEF FoldStep
<1>6. iter = [T \in SUBSET S |-> IF T = {} THEN base
                       ELSE step[<<Min(T), iter[T \ {Min(T)}]>>]]
  BY <1>5
<1> QED
  BY <1>6 DEF S, HasRightFold

(* The sets such a fold meets are the prefixes, or the suffixes.           *)
LEMMA Prefix ==
  ASSUME NEW n \in Nat, NEW k \in 1 .. n
  PROVE  /\ 1 .. k \in SUBSET (1 .. n) /\ 1 .. k # {}
         /\ Max(1 .. k) = k
         /\ (1 .. k) \ {Max(1 .. k)} = 1 .. (k - 1)
<1>1. 1 .. k \in SUBSET (1 .. n) /\ k \in 1 .. k
  OBVIOUS
<1>2. Max(1 .. k) \in 1 .. k /\ k <= Max(1 .. k)
  BY <1>1, LargestIn
<1>3. Max(1 .. k) = k
  BY <1>2
<1>4. (1 .. k) \ {k} = 1 .. (k - 1)
  OBVIOUS
<1> QED
  BY <1>1, <1>3, <1>4

LEMMA Suffix ==
  ASSUME NEW n \in Nat, NEW k \in 1 .. n
  PROVE  /\ k .. n \in SUBSET (1 .. n) /\ k .. n # {}
         /\ Min(k .. n) = k
         /\ (k .. n) \ {Min(k .. n)} = (k + 1) .. n
<1>1. k .. n \in SUBSET (1 .. n) /\ k \in k .. n
  OBVIOUS
<1>2. Min(k .. n) \in k .. n /\ Min(k .. n) <= k
  BY <1>1, LeastIn
<1>3. Min(k .. n) = k
  BY <1>2
<1>4. (k .. n) \ {k} = (k + 1) .. n
  OBVIOUS
<1> QED
  BY <1>1, <1>3, <1>4

LEMMA Ends ==
  ASSUME NEW n \in Nat
  PROVE  /\ 1 .. 0 = {} /\ {} \in SUBSET (1 .. n)
         /\ (n + 1) .. n = {} /\ 1 .. n \in SUBSET (1 .. n)
OBVIOUS

(* The values such a fold passes through, from the base to the result.     *)
LeftTrace(c, base, step, n) ==
  c[0] = base /\ \A k \in 1 .. n : c[k] = step[<<c[k - 1], k>>]

FoldsLeft(iter, n, V, base, step) ==
  /\ iter[{}] = base
  /\ \A T \in SUBSET (1 .. n) :
       T # {} /\ iter[T \ {Max(T)}] \in V
         => iter[T] = step[<<iter[T \ {Max(T)}], Max(T)>>]

TracedLeft(iter, n, V, base, step) ==
  \E c \in [0 .. n -> V] : LeftTrace(c, base, step, n) /\ iter[1 .. n] = c[n]

LEMMA LeftTraceOf ==
  ASSUME NEW n \in Nat, NEW V, NEW base \in V, NEW step \in [V \X (1 .. n) -> V],
         NEW iter, FoldsLeft(iter, n, V, base, step)
  PROVE  TracedLeft(iter, n, V, base, step)
<1> USE DEF FoldsLeft
<1> DEFINE c == [k \in 0 .. n |-> iter[1 .. k]]
           S == {k \in 0 .. n : iter[1 .. k] \in V}
<1>1. c[0] = base /\ 0 \in S
  BY Ends
<1>2. ASSUME NEW k \in 1 .. n, k - 1 \in S
      PROVE  k \in S /\ c[k] = step[<<c[k - 1], k>>]
  <2>1. iter[1 .. k] = step[<<iter[1 .. (k - 1)], k>>]
    BY <1>2, Prefix
  <2>2. iter[1 .. (k - 1)] \in V
    BY <1>2
  <2>3. iter[1 .. k] \in V
    BY <2>1, <2>2
  <2>4. c[k] = iter[1 .. k] /\ c[k - 1] = iter[1 .. (k - 1)]
    OBVIOUS
  <2> QED
    BY <2>1, <2>3, <2>4, SMTT(60)
<1> HIDE DEF S
<1>3. \A k \in 0 .. n : k \in S
  BY <1>1, <1>2, InductionTo
<1>4. c \in [0 .. n -> V]
  BY <1>3 DEF S
<1>6. iter[1 .. n] = c[n]
  OBVIOUS
<1> HIDE DEF c
<1>5. \A k \in 1 .. n : c[k] = step[<<c[k - 1], k>>]
  BY <1>2, <1>3
<1> QED
  BY <1>1, <1>4, <1>5, <1>6 DEF LeftTrace, TracedLeft

RightTrace(c, base, step, n) ==
  c[n] = base /\ \A k \in 1 .. n : c[k - 1] = step[<<k, c[k]>>]

FoldsRight(iter, n, V, base, step) ==
  /\ iter[{}] = base
  /\ \A T \in SUBSET (1 .. n) :
       T # {} /\ iter[T \ {Min(T)}] \in V
         => iter[T] = step[<<Min(T), iter[T \ {Min(T)}]>>]

TracedRight(iter, n, V, base, step) ==
  \E c \in [0 .. n -> V] : RightTrace(c, base, step, n) /\ iter[1 .. n] = c[0]

LEMMA RightTraceOf ==
  ASSUME NEW n \in Nat, NEW V, NEW base \in V, NEW step \in [(1 .. n) \X V -> V],
         NEW iter, FoldsRight(iter, n, V, base, step)
  PROVE  TracedRight(iter, n, V, base, step)
<1> USE DEF FoldsRight
<1> DEFINE c == [k \in 0 .. n |-> iter[(k + 1) .. n]]
           S == {k \in 0 .. n : iter[(k + 1) .. n] \in V}
<1>1. c[n] = base /\ n \in S
  BY Ends
<1>2. ASSUME NEW k \in 1 .. n, k \in S
      PROVE  k - 1 \in S /\ c[k - 1] = step[<<k, c[k]>>]
  <2>1. iter[k .. n] = step[<<k, iter[(k + 1) .. n]>>]
    BY <1>2, Suffix
  <2>2. iter[(k + 1) .. n] \in V
    BY <1>2
  <2>3. iter[k .. n] \in V
    BY <2>1, <2>2
  <2>4. c[k - 1] = iter[k .. n] /\ c[k] = iter[(k + 1) .. n]
    OBVIOUS
  <2>5. k - 1 \in S
    <3>1. (k - 1) + 1 = k /\ k - 1 \in 0 .. n
      OBVIOUS
    <3> QED
      BY <2>3, <3>1
  <2> QED
    BY <2>1, <2>4, <2>5
<1> HIDE DEF S
<1>3. \A k \in 0 .. n : k \in S
  BY <1>1, <1>2, InductionDown
<1>4. c \in [0 .. n -> V]
  BY <1>3 DEF S
<1>6. iter[1 .. n] = c[0]
  OBVIOUS
<1> HIDE DEF c
<1>5. \A k \in 1 .. n : c[k - 1] = step[<<k, c[k]>>]
  BY <1>2, <1>3
<1> QED
  BY <1>1, <1>4, <1>5, <1>6 DEF RightTrace, TracedRight

HasLeftTrace(n, V, base, step) ==
  \E c \in [0 .. n -> V] : LeftTrace(c, base, step, n)

LEMMA LeftTraceExists ==
  ASSUME NEW n \in Nat, NEW V, NEW base \in V, NEW step \in [V \X (1 .. n) -> V]
  PROVE  HasLeftTrace(n, V, base, step)
<1>1. HasLeftFold(n, V, base, step)
  BY FoldLeftExists
<1>2. PICK iter \in [SUBSET (1 .. n) -> V] :
        iter = [T \in SUBSET (1 .. n) |->
                  IF T = {} THEN base ELSE step[<<iter[T \ {Max(T)}], Max(T)>>]]
  BY <1>1 DEF HasLeftFold
<1>3. FoldsLeft(iter, n, V, base, step)
  <2>1. iter[{}] = base
    BY <1>2, Ends
  <2>2. \A T \in SUBSET (1 .. n) :
          T # {} => iter[T] = step[<<iter[T \ {Max(T)}], Max(T)>>]
    BY <1>2
  <2> QED
    BY <2>1, <2>2 DEF FoldsLeft
<1>4. TracedLeft(iter, n, V, base, step)
  BY <1>3, LeftTraceOf
<1> QED
  BY <1>4 DEF TracedLeft, HasLeftTrace
-----------------------------------------------------------------------------
(* FlattenSeq, one sequence after the other.                               *)
Flattening(f, seqs, n) ==
  f[0] = <<>> /\ \A k \in 1 .. n : f[k] = f[k - 1] \o seqs[k]

Flattened(seqs, n, S) ==
  \E f \in [0 .. n -> Seq(S)] : Flattening(f, seqs, n) /\ FlattenSeq(seqs) = f[n]

LEMMA FlattenedIs ==
  ASSUME NEW S, NEW n \in Nat, NEW seqs \in [1 .. n -> Seq(S)]
  PROVE  Flattened(seqs, n, S)
<1> DEFINE V == Seq(S)
           step == [x \in V \X (1 .. n) |-> x[1] \o seqs[x[2]]]
           Obeys(g) == g = [k \in 1 .. n |->
                              IF k = 1 THEN seqs[k] ELSE g[k - 1] \o seqs[k]]
           found == CHOOSE g : Obeys(g)
<1>1. step \in [V \X (1 .. n) -> V] /\ <<>> \in V
  OBVIOUS
<1>2. \A v \in V, k \in 1 .. n : step[<<v, k>>] = v \o seqs[k]
  OBVIOUS
<1>3. Len(seqs) = n
  OBVIOUS
<1> HIDE DEF step
<1>4. PICK f \in [0 .. n -> V] : LeftTrace(f, <<>>, step, n)
  <2>1. HasLeftTrace(n, V, <<>>, step)
    BY <1>1, LeftTraceExists
  <2> QED
    BY <2>1 DEF HasLeftTrace
<1>5. f[0] = <<>> /\ \A k \in 1 .. n : f[k - 1] \in V /\ f[k] = f[k - 1] \o seqs[k]
  <2> SUFFICES ASSUME NEW k \in 1 .. n
               PROVE  f[k - 1] \in V /\ f[k] = f[k - 1] \o seqs[k]
    BY <1>4 DEF LeftTrace
  <2>1. f[k - 1] \in V
    OBVIOUS
  <2>2. f[k] = step[<<f[k - 1], k>>]
    BY <1>4 DEF LeftTrace
  <2> QED
    BY <1>2, <2>1, <2>2
<1>6. CASE n = 0
  <2>1. FlattenSeq(seqs) = seqs /\ seqs = <<>>
    BY <1>3, <1>6 DEF FlattenSeq
  <2> QED
    BY <1>5, <1>6, <2>1 DEF Flattening, Flattened
<1>7. CASE n # 0
  <2> DEFINE g == [k \in 1 .. n |-> f[k]]
  <2>1. Obeys(g)
    <3>1. ASSUME NEW k \in 1 .. n
          PROVE  g[k] = IF k = 1 THEN seqs[k] ELSE g[k - 1] \o seqs[k]
      <4>1. CASE k = 1
        <5>1. 1 \in 1 .. n /\ 1 - 1 = 0 /\ seqs[1] \in Seq(S)
          BY <4>1
        <5>2. f[1] = f[0] \o seqs[1]
          BY <1>5, <5>1
        <5>3. <<>> \o seqs[1] = seqs[1]
          BY <5>1
        <5> QED
          BY <1>5, <4>1, <5>2, <5>3
      <4>2. CASE k # 1
        <5>1. k - 1 \in 1 .. n
          BY <4>2
        <5> QED
          BY <1>5, <4>2, <5>1
      <4> QED
        BY <4>1, <4>2
    <3> QED
      BY <3>1
  <2>2. Obeys(found)
    BY <2>1, Zenon
  <2> HIDE DEF g
  <2>3. FlattenSeq(seqs) = found[n]
    BY <1>3, <1>7, Zenon DEF FlattenSeq
  <2> HIDE DEF found
  <2> DEFINE T == {k \in 0 .. n : k # 0 => found[k] = f[k]}
  <2>4. 0 \in T
    OBVIOUS
  <2>5. ASSUME NEW k \in 1 .. n, k - 1 \in T PROVE k \in T
    <3>1. CASE k = 1
      <4>1. found[1] = seqs[1]
        BY <2>2, <3>1
      <4>2. 1 \in 1 .. n /\ 1 - 1 = 0 /\ seqs[1] \in Seq(S)
        BY <3>1
      <4>3. f[1] = f[0] \o seqs[1]
        BY <1>5, <4>2
      <4>4. <<>> \o seqs[1] = seqs[1]
        BY <4>2
      <4>5. found[k] = f[k]
        BY <1>5, <3>1, <4>1, <4>3, <4>4
      <4> QED
        BY <4>5 DEF T
    <3>2. CASE k # 1
      <4>1. k - 1 # 0 /\ found[k - 1] = f[k - 1]
        BY <2>5, <3>2 DEF T
      <4>2. found[k] = found[k - 1] \o seqs[k]
        BY <2>2, <3>2
      <4>3. found[k] = f[k]
        BY <1>5, <4>1, <4>2
      <4> QED
        BY <4>3 DEF T
    <3> QED
      BY <3>1, <3>2
  <2> HIDE DEF T
  <2>6. \A k \in 0 .. n : k \in T
    BY <2>4, <2>5, InductionTo
  <2>7. found[n] = f[n]
    BY <1>7, <2>6 DEF T
  <2> QED
    BY <1>5, <2>3, <2>7 DEF Flattening, Flattened
<1> QED
  BY <1>6, <1>7
=============================================================================
