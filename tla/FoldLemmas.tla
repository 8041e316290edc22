----------------------------- MODULE FoldLemmas -----------------------------
(***************************************************************************)
(* What the folds of the community modules compute.  A fold over a set is  *)
(* a recursive function on the subsets of that set.  Here its step and its *)
(* choice of elements are functions, so that no lemma has an operator for  *)
(* a parameter: an induction is over a set of exceptions, which has a      *)
(* minimal element.                                                        *)
(***************************************************************************)
EXTENDS Integers, SequencesExt, FiniteSetTheorems, SequenceTheorems,
        WellFoundedInduction, TLAPS

(* Induction over the natural numbers, and over the subsets of a set.      *)
LEMMA Induction ==
  ASSUME NEW S, 0 \in S, \A n \in Nat : n \in S => n + 1 \in S
  PROVE  Nat \subseteq S
<1> DEFINE Bad == Nat \ S
<1>1. SUFFICES ASSUME Bad # {}
               PROVE  FALSE
  OBVIOUS
<1>2. PICK x \in Bad : \A y \in Bad : ~ (<<y, x>> \in OpToRel(<, Nat))
  <2> HIDE DEF Bad
  <2>1. Bad \subseteq Nat
    BY DEF Bad
  <2> QED
    BY <1>1, <2>1, NatLessThanWellFounded, WFMin
<1>3. x \in Nat /\ x # 0 /\ x - 1 \in Nat /\ x - 1 + 1 = x
  OBVIOUS
<1>4. <<x - 1, x>> \in OpToRel(<, Nat)
  BY <1>3 DEF OpToRel
<1>5. x - 1 \in S
  BY <1>2, <1>3, <1>4
<1> QED
  BY <1>2, <1>3, <1>5

LEMMA SubsetInduction ==
  ASSUME NEW D, IsFiniteSet(D), NEW S,
         \A T \in SUBSET D : (\A U \in SUBSET T : U # T => U \in S) => T \in S
  PROVE  SUBSET D \subseteq S
<1> DEFINE Bad == (SUBSET D) \ S
<1>1. SUFFICES ASSUME Bad # {}
               PROVE  FALSE
  OBVIOUS
<1>2. IsWellFoundedOn(StrictSubsetOrdering(D), SUBSET D)
  BY FS_StrictSubsetOrderingWellFounded, FS_FiniteSubsetsOfFinite
<1>3. PICK T \in Bad : \A U \in Bad : <<U, T>> \notin StrictSubsetOrdering(D)
  <2>1. Bad \subseteq SUBSET D
    OBVIOUS
  <2> HIDE DEF Bad
  <2> QED
    BY <1>1, <1>2, <2>1, WFMin
<1>4. ASSUME NEW U \in SUBSET T, U # T
      PROVE  U \in S
  BY <1>3, <1>4 DEF StrictSubsetOrdering
<1> QED
  BY <1>3, <1>4

----------------------------------------------------------------------------
(* A fold of op over the subsets of D that starts with base and takes off  *)
(* the element that choice prefers.                                        *)
IsFold(D, base, op, choice, it) ==
  \A s \in SUBSET D :
    it[s] = IF s = {} THEN base ELSE op[<<choice[s], it[s \ {choice[s]}]>>]

Chooses(D, choice) == \A s \in SUBSET D : s # {} => choice[s] \in s

LEMMA FoldsAgree ==
  ASSUME NEW D, IsFiniteSet(D), NEW base, NEW op, NEW choice,
         Chooses(D, choice),
         NEW T \in SUBSET D, NEW it, IsFold(D, base, op, choice, it),
         NEW jt, IsFold(T, base, op, choice, jt)
  PROVE  \A s \in SUBSET T : it[s] = jt[s]
<1> DEFINE S == {s \in SUBSET T : it[s] = jt[s]}
<1>1. ASSUME NEW s \in SUBSET T,
             \A U \in SUBSET s : U # s => U \in S
      PROVE  s \in S
  <2>1. CASE s = {}
    BY <2>1 DEF IsFold
  <2>2. CASE s # {}
    <3>1. choice[s] \in s
      BY <2>2 DEF Chooses
    <3>2. s \ {choice[s]} \in S
      BY <1>1, <3>1
    <3> QED
      BY <2>2, <3>2 DEF IsFold
  <2> QED
    BY <2>1, <2>2
<1>2. IsFiniteSet(T)
  BY FS_Subset
<1>3. SUBSET T \subseteq S
  <2> HIDE DEF S
  <2> QED
    BY <1>1, <1>2, SubsetInduction
<1> QED
  BY <1>3

(* There is a fold over every finite set, and all of its values are of the *)
(* type of base and op.                                                    *)
LEMMA FoldExists ==
  ASSUME NEW D, IsFiniteSet(D), NEW V, NEW base \in V, NEW op \in [D \X V -> V],
         NEW choice, Chooses(D, choice)
  PROVE  \E it \in [SUBSET D -> V] : IsFold(D, base, op, choice, it)
<1> DEFINE Folds(T) == {it \in [SUBSET T -> V] : IsFold(T, base, op, choice, it)}
           S == {T \in SUBSET D : Folds(T) # {}}
           Of(T) == CHOOSE it : it \in Folds(T)
<1>1. ASSUME NEW T \in SUBSET D,
             \A U \in SUBSET T : U # T => U \in S
      PROVE  T \in S
  <2> DEFINE it == [s \in SUBSET T |->
                      IF s # T THEN Of(s)[s]
                      ELSE IF T = {} THEN base
                      ELSE op[<<choice[T], Of(T \ {choice[T]})[T \ {choice[T]}]>>]]
  <2>1. ASSUME NEW s \in SUBSET T, s # T
        PROVE  Of(s) \in Folds(s)
    BY <1>1, <2>1
  <2>2. ASSUME NEW s \in SUBSET T, s # T
        PROVE  Of(s)[s] \in V
    <3> HIDE DEF Of
    <3> QED
      BY <2>1, <2>2
  <2>3. ASSUME NEW s \in SUBSET T, s # {}
        PROVE  /\ choice[s] \in s /\ choice[s] \in D
               /\ s \ {choice[s]} \in SUBSET T /\ s \ {choice[s]} # T
               /\ s \ {choice[s]} \in SUBSET s
    BY <2>3 DEF Chooses
  <2>4. ASSUME NEW s \in SUBSET T
        PROVE  it[s] \in V
    <3> HIDE DEF Of, Folds
    <3>1. CASE s # T
      BY <2>2, <3>1
    <3>2. CASE s = T /\ T # {}
      <4>1. Of(T \ {choice[T]})[T \ {choice[T]}] \in V
        BY <2>2, <2>3, <3>2
      <4>2. op[<<choice[T], Of(T \ {choice[T]})[T \ {choice[T]}]>>] \in V
        BY <2>3, <3>2, <4>1
      <4> QED
        BY <3>2, <4>2
    <3>3. CASE s = T /\ T = {}
      BY <3>3
    <3> QED
      BY <3>1, <3>2, <3>3
  <2>5. ASSUME NEW s \in SUBSET T
        PROVE  it[s] = IF s = {} THEN base
                       ELSE op[<<choice[s], it[s \ {choice[s]}]>>]
    <3>1. CASE s = T
      <4>1. CASE s = {}
        BY <3>1, <4>1
      <4>2. CASE s # {}
        <5> DEFINE rest == s \ {choice[s]}
        <5>1. rest \in SUBSET T /\ rest # T
          BY <2>3, <4>2
        <5>2. it[s] = op[<<choice[s], Of(rest)[rest]>>]
          BY <3>1, <4>2
        <5> HIDE DEF Of, rest
        <5>3. it[rest] = Of(rest)[rest]
          BY <5>1
        <5> QED
          BY <4>2, <5>2, <5>3 DEF rest
      <4> QED
        BY <4>1, <4>2
    <3>2. CASE s # T /\ s = {}
      <4> HIDE DEF Of
      <4> QED
        BY <2>1, <3>2 DEF IsFold
    <3>3. CASE s # T /\ s # {}
      <4> DEFINE u == s \ {choice[s]}
      <4>1. u \in SUBSET s /\ u # T /\ u \in SUBSET T /\ u # s
        BY <2>3, <3>3
      <4>2. IsFold(s, base, op, choice, Of(s)) /\ IsFold(u, base, op, choice, Of(u))
        <5> HIDE DEF Of
        <5> QED
          BY <2>1, <3>3, <4>1
      <4>3. IsFiniteSet(s) /\ Chooses(s, choice)
        BY FS_Subset DEF Chooses
      <4>4. Of(s)[u] = Of(u)[u]
        <5> HIDE DEF Of, u
        <5> QED
          BY <4>1, <4>2, <4>3, FoldsAgree
      <4>5. Of(s)[s] = op[<<choice[s], Of(s)[u]>>]
        <5> HIDE DEF Of, Folds
        <5> QED
          BY <3>3, <4>2 DEF IsFold
      <4>6. it[s] = Of(s)[s] /\ it[u] = Of(u)[u]
        <5> HIDE DEF Of, Folds, u
        <5> QED
          BY <3>3, <4>1
      <4> HIDE DEF it, Of
      <4> QED
        BY <3>3, <4>4, <4>5, <4>6
    <3> QED
      BY <3>1, <3>2, <3>3
  <2>6. it \in Folds(T)
    <3>1. it \in [SUBSET T -> V]
      <4>1. it = [s \in SUBSET T |-> it[s]]
        OBVIOUS
      <4> HIDE DEF it
      <4> QED
        BY <2>4, <4>1
    <3> HIDE DEF it
    <3> QED
      BY <2>5, <3>1 DEF IsFold
  <2> QED
    BY <2>6
<1>2. SUBSET D \subseteq S
  <2> HIDE DEF S
  <2> QED
    BY <1>1, SubsetInduction
<1>3. Folds(D) # {}
  BY <1>2
<1> QED
  BY <1>3

----------------------------------------------------------------------------
(* The folds of FoldLeft: the greatest index is taken off first.           *)
LEMMA LeastElement ==
  ASSUME NEW S \in SUBSET Nat, S # {}
  PROVE  /\ Min(S) \in S
         /\ \A y \in S : Min(S) <= y
<1>1. PICK x \in S : \A y \in S : ~ (<<y, x>> \in OpToRel(<, Nat))
  BY NatLessThanWellFounded, WFMin
<1>2. ASSUME NEW y \in S
      PROVE  x <= y
  <2>1. ~ (<<y, x>> \in OpToRel(<, Nat))
    BY <1>1
  <2>2. x \in Nat /\ y \in Nat
    OBVIOUS
  <2>3. ~ (y < x)
    BY <2>1, <2>2 DEF OpToRel
  <2> QED
    BY <2>2, <2>3
<1> QED
  BY <1>2 DEF Min

LEMMA GreatestElement ==
  ASSUME NEW n \in Nat, NEW S \in SUBSET (1..n), S # {}
  PROVE  /\ Max(S) \in S
         /\ \A y \in S : y <= Max(S)
<1> DEFINE Bounds == {m \in Nat : \A y \in S : y <= m}
           least == Min(Bounds)
<1>1. Bounds # {} /\ Bounds \in SUBSET Nat
  BY n \in Bounds
<1>2. least \in Bounds /\ \A m \in Bounds : least <= m
  <2> HIDE DEF Bounds
  <2> QED
    BY <1>1, LeastElement
<1> HIDE DEF least
<1>3. least \in S
  <2>1. least # 0
    <3>1. PICK y \in S : y \in 1..n /\ y <= least
      BY <1>2
    <3> QED
      BY <1>2, <3>1
  <2>2. CASE least \notin S
    <3>1. least - 1 \in Bounds
      BY <1>2, <2>1, <2>2
    <3> QED
      BY <1>2, <3>1
  <2> QED
    BY <1>2, <2>1, <2>2
<1>4. \A y \in S : least >= y
  BY <1>2
<1> QED
  BY <1>3, <1>4 DEF Max

IsLeftFold(n, base, op, it) ==
  IsFold(1..n, base, op, [s \in SUBSET (1..n) |-> Max(s)], it)

StepsLeft(n, base, op, it) ==
  /\ it[1..0] = base
  /\ \A k \in 1..n : it[1..k] = op[<<k, it[1..k-1]>>]

LEMMA LeftFoldSteps ==
  ASSUME NEW n \in Nat, NEW base, NEW op, NEW it,
         IsLeftFold(n, base, op, it)
  PROVE  StepsLeft(n, base, op, it)
<1>1. it[1..0] = base
  <2>1. 1..0 = {} /\ {} \in SUBSET (1..n)
    OBVIOUS
  <2> QED
    BY <2>1 DEF IsLeftFold, IsFold
<1>2. ASSUME NEW k \in 1..n
      PROVE  it[1..k] = op[<<k, it[1..k-1]>>]
  <2>1. 1..k \in SUBSET (1..n) /\ 1..k # {}
    OBVIOUS
  <2>2. Max(1..k) \in 1..k /\ \A y \in 1..k : y <= Max(1..k)
    BY <2>1, GreatestElement
  <2>3. Max(1..k) = k
    BY <2>2
  <2>4. (1..k) \ {k} = 1..k-1
    OBVIOUS
  <2> DEFINE choice == [s \in SUBSET (1..n) |-> Max(s)]
  <2>5. choice[1..k] = k
    BY <2>1, <2>3
  <2>6. IsFold(1..n, base, op, choice, it)
    BY DEF IsLeftFold
  <2> HIDE DEF choice
  <2>7. it[1..k] = op[<<choice[1..k], it[(1..k) \ {choice[1..k]}]>>]
    BY <2>1, <2>6 DEF IsFold
  <2> QED
    BY <2>4, <2>5, <2>7
<1> QED
  BY <1>1, <1>2 DEF StepsLeft

LEMMA LeftFoldExists ==
  ASSUME NEW n \in Nat, NEW V, NEW base \in V, NEW op \in [(1..n) \X V -> V]
  PROVE  \E it \in [SUBSET (1..n) -> V] :
           /\ IsLeftFold(n, base, op, it)
           /\ StepsLeft(n, base, op, it)
<1> DEFINE choice == [s \in SUBSET (1..n) |-> Max(s)]
<1>1. Chooses(1..n, choice)
  BY GreatestElement DEF Chooses
<1>2. IsFiniteSet(1..n)
  BY FS_Interval
<1> HIDE DEF choice
<1>3. PICK it \in [SUBSET (1..n) -> V] : IsFold(1..n, base, op, choice, it)
  BY <1>1, <1>2, FoldExists
<1>4. IsLeftFold(n, base, op, it)
  BY <1>3 DEF choice, IsLeftFold
<1>5. StepsLeft(n, base, op, it)
  BY <1>4, LeftFoldSteps
<1> QED
  BY <1>4, <1>5

(* FlattenSeq appends one sequence after the other.                        *)
LEMMA FlattenSteps ==
  ASSUME NEW X, NEW seqs \in Seq(Seq(X))
  PROVE  \E flat \in [0..Len(seqs) -> Seq(X)] :
           /\ flat[0] = <<>>
           /\ \A k \in 1..Len(seqs) : flat[k] = flat[k-1] \o seqs[k]
           /\ FlattenSeq(seqs) = flat[Len(seqs)]
<1> DEFINE n == Len(seqs)
           op == [p \in (1..n) \X Seq(X) |-> p[2] \o seqs[p[1]]]
<1>1. n \in Nat /\ \A i \in 1..n : seqs[i] \in Seq(X)
  OBVIOUS
<1>2. op \in [(1..n) \X Seq(X) -> Seq(X)]
  <2> HIDE DEF n
  <2> QED
    BY <1>1
<1>3. PICK it \in [SUBSET (1..n) -> Seq(X)] : StepsLeft(n, <<>>, op, it)
  <2> DEFINE V == Seq(X)
  <2>1. n \in Nat /\ <<>> \in V /\ op \in [(1..n) \X V -> V]
    BY <1>2
  <2>2. \E it \in [SUBSET (1..n) -> V] : StepsLeft(n, <<>>, op, it)
    <3> HIDE DEF n, op, V
    <3> QED
      BY <2>1, LeftFoldExists
  <2> QED
    BY <2>2
<1> DEFINE flat == [k \in 0..n |-> it[1..k]]
<1>4. flat \in [0..n -> Seq(X)]
  <2> HIDE DEF n
  <2> QED
    BY <1>1
<1>5. flat[0] = <<>> /\ \A k \in 1..n : flat[k] = flat[k-1] \o seqs[k]
  <2>1. flat[0] = <<>>
    <3> HIDE DEF n
    <3> QED
      BY <1>1, <1>3 DEF StepsLeft
  <2>2. ASSUME NEW k \in 1..n
        PROVE  flat[k] = flat[k-1] \o seqs[k]
    <3> HIDE DEF n
    <3>1. k - 1 \in 0..n /\ k \in 0..n /\ it[1..k-1] \in Seq(X)
      BY <1>1
    <3>2. op[<<k, it[1..k-1]>>] = it[1..k-1] \o seqs[k]
      BY <3>1
    <3>3. flat[k] = it[1..k] /\ flat[k-1] = it[1..k-1]
      BY <3>1
    <3> QED
      BY <1>3, <3>2, <3>3 DEF StepsLeft
  <2> HIDE DEF flat, n
  <2> QED
    BY <2>1, <2>2
<1>6. FlattenSeq(seqs) = flat[n]
  <2>1. CASE n = 0
    BY <1>5, <2>1 DEF FlattenSeq
  <2>2. CASE n # 0
    <3> DEFINE Eq(f) == f = [i \in 1..n |->
                         IF i = 1 THEN seqs[i] ELSE f[i-1] \o seqs[i]]
               g == [i \in 1..n |-> flat[i]]
               f == CHOOSE f : Eq(f)
    <3>1. Eq(g)
      <4> HIDE DEF n, flat
      <4>1. ASSUME NEW i \in 1..n
            PROVE  g[i] = IF i = 1 THEN seqs[i] ELSE g[i-1] \o seqs[i]
        <5>1. CASE i = 1
          <6>1. <<>> \o seqs[1] = seqs[1]
            BY <1>1, <5>1, ConcatEmptySeq
          <6>2. i - 1 = 0
            BY <5>1
          <6>3. flat[i] = flat[0] \o seqs[i]
            BY <1>5, <6>2
          <6> QED
            BY <1>5, <5>1, <6>1, <6>3
        <5>2. CASE i # 1
          <6>1. i - 1 \in 1..n
            BY <1>1, <5>2
          <6> QED
            BY <1>5, <5>2, <6>1
        <5> QED
          BY <5>1, <5>2
      <4> QED
        BY <4>1
    <3>2. Eq(f)
      BY <3>1
    <3>7. ASSUME NEW h, Eq(h), NEW i \in 1..n
          PROVE  h[i] = IF i = 1 THEN seqs[i] ELSE h[i-1] \o seqs[i]
      BY <3>7
    <3>3. FlattenSeq(seqs) = f[n]
      BY <2>2 DEF FlattenSeq
    <3> DEFINE S == {k \in Nat : k \in 1..n => f[k] = flat[k]}
    <3>4. 0 \in S
      OBVIOUS
    <3>5. ASSUME NEW k \in Nat, k \in S
          PROVE  k + 1 \in S
      <4> HIDE DEF f, flat, Eq
      <4> SUFFICES ASSUME k + 1 \in 1..n
                   PROVE  f[k + 1] = flat[k + 1]
        OBVIOUS
      <4> HIDE DEF n
      <4>1. k + 1 - 1 = k
        OBVIOUS
      <4>2. f[k + 1] = IF k + 1 = 1 THEN seqs[k + 1] ELSE f[k] \o seqs[k + 1]
        BY <3>2, <3>7, <4>1
      <4> HIDE DEF g
      <4>3. g[k + 1] = IF k + 1 = 1 THEN seqs[k + 1] ELSE g[k] \o seqs[k + 1]
        BY <3>1, <3>7, <4>1
      <4>4. k + 1 # 1 => k \in 1..n
        BY <1>1
      <4> QED
        BY <3>5, <4>2, <4>3, <4>4 DEF g
    <3>6. n \in S
      <4> HIDE DEF S, n
      <4> QED
        BY <1>1, <3>4, <3>5, Induction
    <3> HIDE DEF f, flat, n
    <3> QED
      BY <1>1, <2>2, <3>3, <3>6
  <2> QED
    BY <2>1, <2>2
<1> HIDE DEF flat
<1> QED
  BY <1>4, <1>5, <1>6

----------------------------------------------------------------------------
(* The sums of MapThenSumSet, with the function h for the operator.        *)
IsSum(D, h, it) ==
  it = [s \in SUBSET D |->
          IF s = {} THEN 0
          ELSE LET x == CHOOSE x \in s : TRUE IN h[x] + it[s \ {x}]]

Sums(D, h, it) ==
  /\ IsFiniteSet(D)
  /\ h \in [D -> Nat]
  /\ it \in [SUBSET D -> Nat]
  /\ IsSum(D, h, it)

LEMMA SumExists ==
  ASSUME NEW D, IsFiniteSet(D), NEW h \in [D -> Nat]
  PROVE  \E it : Sums(D, h, it)
<1> DEFINE op == [p \in D \X Nat |-> h[p[1]] + p[2]]
           choice == [s \in SUBSET D |-> CHOOSE x \in s : TRUE]
<1>1. Chooses(D, choice)
  BY DEF Chooses
<1>2. op \in [D \X Nat -> Nat]
  OBVIOUS
<1>3. PICK it \in [SUBSET D -> Nat] : IsFold(D, 0, op, choice, it)
  <2> HIDE DEF op, choice
  <2> QED
    BY <1>1, <1>2, FoldExists
<1>4. ASSUME NEW s \in SUBSET D, s # {}
      PROVE  it[s] = LET x == CHOOSE x \in s : TRUE IN h[x] + it[s \ {x}]
  <2> DEFINE x == CHOOSE x \in s : TRUE
  <2>1. x \in D /\ choice[s] = x /\ it[s \ {x}] \in Nat
    BY <1>4
  <2>2. it[s] = op[<<x, it[s \ {x}]>>]
    <3> HIDE DEF op, choice
    <3> QED
      BY <1>3, <1>4, <2>1 DEF IsFold
  <2>3. op[<<x, it[s \ {x}]>>] = h[x] + it[s \ {x}]
    <3> HIDE DEF x
    <3> QED
      BY <2>1
  <2> QED
    BY <2>2, <2>3
<1>5. it[{}] = 0
  BY <1>3 DEF IsFold
<1>6. IsSum(D, h, it)
  BY <1>4, <1>5 DEF IsSum
<1> QED
  BY <1>6 DEF Sums

(* A sum does not depend on the order in which the elements are taken.     *)
AddsUp(D, h, it) ==
  /\ it[{}] = 0
  /\ \A T \in SUBSET D : \A x \in T : it[T] = h[x] + it[T \ {x}]

LEMMA SumRemove ==
  ASSUME NEW D, NEW h, NEW it, Sums(D, h, it)
  PROVE  AddsUp(D, h, it)
<1> USE DEF Sums
<1> DEFINE S == {T \in SUBSET D : \A x \in T : it[T] = h[x] + it[T \ {x}]}
<1>1. ASSUME NEW T \in SUBSET D,
             \A U \in SUBSET T : U # T => U \in S
      PROVE  T \in S
  <2> SUFFICES ASSUME NEW x \in T
               PROVE  it[T] = h[x] + it[T \ {x}]
    OBVIOUS
  <2> DEFINE c == CHOOSE y \in T : TRUE
  <2>1. c \in T /\ it[T] = h[c] + it[T \ {c}]
    BY DEF IsSum
  <2> HIDE DEF c
  <2>2. CASE x = c
    BY <2>1, <2>2
  <2>3. CASE x # c
    <3>1. T \ {c} \in S /\ T \ {x} \in S
      BY <1>1, <2>1
    <3>2. /\ it[T \ {c}] = h[x] + it[(T \ {c}) \ {x}]
          /\ it[T \ {x}] = h[c] + it[(T \ {x}) \ {c}]
      BY <2>1, <2>3, <3>1
    <3>3. (T \ {c}) \ {x} = (T \ {x}) \ {c}
      OBVIOUS
    <3>4. PICK rest \in Nat : /\ it[(T \ {c}) \ {x}] = rest
                             /\ it[(T \ {x}) \ {c}] = rest
      BY <2>1, <3>3
    <3>5. h[x] \in Nat /\ h[c] \in Nat
      BY <2>1
    <3> QED
      BY <2>1, <3>2, <3>4, <3>5
  <2> QED
    BY <2>2, <2>3
<1>2. SUBSET D \subseteq S
  <2> HIDE DEF S
  <2> QED
    BY <1>1, SubsetInduction
<1> QED
  BY <1>2 DEF IsSum, AddsUp

LEMMA SumUnion ==
  ASSUME NEW D, NEW h, NEW it, Sums(D, h, it),
         NEW T \in SUBSET D, NEW U \in SUBSET D, T \cap U = {}
  PROVE  it[T \cup U] = it[T] + it[U]
<1> USE DEF Sums
<1>0. AddsUp(D, h, it)
  BY SumRemove
<1> DEFINE S == {s \in SUBSET U : it[T \cup s] = it[T] + it[s]}
<1>1. ASSUME NEW s \in SUBSET U,
             \A V \in SUBSET s : V # s => V \in S
      PROVE  s \in S
  <2>1. CASE s = {}
    <3>1. T \cup s = T /\ it[s] = 0 /\ it[T] \in Nat
      BY <1>0, <2>1 DEF AddsUp
    <3> QED
      BY <2>1, <3>1
  <2>2. CASE s # {}
    <3>1. PICK x \in s : TRUE
      BY <2>2
    <3>2. s \ {x} \in S /\ x \in D /\ x \in T \cup s
          /\ (T \cup s) \ {x} = T \cup (s \ {x})
      BY <1>1, <3>1
    <3>3. /\ it[s] = h[x] + it[s \ {x}]
          /\ it[T \cup s] = h[x] + it[T \cup (s \ {x})]
      <4>1. s \in SUBSET D /\ T \cup s \in SUBSET D
        OBVIOUS
      <4>2. it[s] = h[x] + it[s \ {x}]
        BY <1>0, <3>1, <4>1 DEF AddsUp
      <4>3. it[T \cup s] = h[x] + it[(T \cup s) \ {x}]
        BY <1>0, <3>2, <4>1 DEF AddsUp
      <4> QED
        BY <3>2, <4>2, <4>3
    <3>4. PICK rest \in Nat, whole \in Nat :
            /\ it[s \ {x}] = rest
            /\ it[T \cup (s \ {x})] = whole
      BY <3>1
    <3>5. whole = it[T] + rest /\ h[x] \in Nat /\ it[T] \in Nat
      BY <3>2, <3>4
    <3> QED
      BY <3>3, <3>4, <3>5
  <2> QED
    BY <2>1, <2>2
<1>2. IsFiniteSet(U)
  BY FS_Subset
<1>3. SUBSET U \subseteq S
  <2> HIDE DEF S
  <2> QED
    BY <1>1, <1>2, SubsetInduction
<1> QED
  BY <1>3

(* A sum over a part is the same, whichever set its recursion is over.     *)
SameOn(T, g, h) == \A x \in T : g[x] = h[x]

LEMMA SumsAgree ==
  ASSUME NEW D, NEW h, NEW it, Sums(D, h, it),
         NEW T \in SUBSET D, NEW g, SameOn(T, g, h),
         NEW jt, IsSum(T, g, jt)
  PROVE  jt[T] = it[T]
<1> USE DEF Sums
<1> DEFINE S == {s \in SUBSET T : it[s] = jt[s]}
<1>1. ASSUME NEW s \in SUBSET T,
             \A U \in SUBSET s : U # s => U \in S
      PROVE  s \in S
  <2>1. CASE s = {}
    BY <2>1 DEF IsSum
  <2>2. CASE s # {}
    <3> DEFINE x == CHOOSE x \in s : TRUE
    <3>1. /\ x \in s
          /\ it[s] = h[x] + it[s \ {x}]
          /\ jt[s] = g[x] + jt[s \ {x}]
      BY <2>2 DEF IsSum
    <3> HIDE DEF x
    <3>2. s \ {x} \in S
      BY <1>1, <3>1
    <3> QED
      BY <3>1, <3>2 DEF SameOn
  <2> QED
    BY <2>1, <2>2
<1>2. IsFiniteSet(T)
  BY FS_Subset
<1>3. SUBSET T \subseteq S
  <2> HIDE DEF S
  <2> QED
    BY <1>1, <1>2, SubsetInduction
<1> QED
  BY <1>3

LEMMA SumRestrict ==
  ASSUME NEW D, NEW h, NEW it, Sums(D, h, it), NEW T \in SUBSET D
  PROVE  \E jt : IsSum(T, h, jt)
<1> DEFINE jt == [s \in SUBSET T |-> it[s]]
<1>1. ASSUME NEW s \in SUBSET T
      PROVE  jt[s] = IF s = {} THEN 0
                     ELSE LET x == CHOOSE x \in s : TRUE IN h[x] + jt[s \ {x}]
  <2>1. it[s] = IF s = {} THEN 0
                ELSE LET x == CHOOSE x \in s : TRUE IN h[x] + it[s \ {x}]
    BY DEF Sums, IsSum
  <2>2. ASSUME s # {}
        PROVE  LET x == CHOOSE x \in s : TRUE IN it[s \ {x}] = jt[s \ {x}]
    OBVIOUS
  <2> HIDE DEF jt
  <2>3. jt[s] = it[s]
    BY DEF jt
  <2> QED
    BY <2>1, <2>2, <2>3
<1>2. IsSum(T, h, jt)
  <2>1. jt = [s \in SUBSET T |-> jt[s]]
    OBVIOUS
  <2> HIDE DEF jt
  <2> QED
    BY <1>1, <2>1 DEF IsSum
<1> QED
  BY <1>2

----------------------------------------------------------------------------
(* FlattenSeq keeps every sequence, at the place behind those before it.   *)
Places(seqs, place) ==
  /\ place \in [0..Len(seqs) -> Nat]
  /\ place[0] = 0
  /\ place[Len(seqs)] = Len(FlattenSeq(seqs))
  /\ \A k \in 1..Len(seqs) :
       /\ place[k] = place[k-1] + Len(seqs[k])
       /\ place[k] <= place[Len(seqs)]
       /\ \A j \in 1..Len(seqs[k]) : FlattenSeq(seqs)[place[k-1] + j] = seqs[k][j]

LEMMA FlattenPlaces ==
  ASSUME NEW X, NEW seqs \in Seq(Seq(X))
  PROVE  /\ FlattenSeq(seqs) \in Seq(X)
         /\ \E place : Places(seqs, place)
<1> DEFINE n == Len(seqs)
<1>1. PICK flat \in [0..n -> Seq(X)] :
        /\ flat[0] = <<>>
        /\ \A k \in 1..n : flat[k] = flat[k-1] \o seqs[k]
        /\ FlattenSeq(seqs) = flat[n]
  BY FlattenSteps
<1>2. n \in Nat /\ \A k \in 1..n : seqs[k] \in Seq(X) /\ Len(seqs[k]) \in Nat
  OBVIOUS
<1> DEFINE place == [k \in 0..n |-> Len(flat[k])]
<1> HIDE DEF n
<1>3. \A k \in 0..n : flat[k] \in Seq(X) /\ Len(flat[k]) \in Nat
  BY <1>1
<1>4. ASSUME NEW k \in 1..n
      PROVE  /\ k \in 0..n /\ k - 1 \in 0..n
             /\ Len(flat[k]) = Len(flat[k-1]) + Len(seqs[k])
             /\ \A i \in 1..Len(flat[k-1]) : flat[k][i] = flat[k-1][i]
             /\ \A j \in 1..Len(seqs[k]) : flat[k][Len(flat[k-1]) + j] = seqs[k][j]
  <2>1. k \in 0..n /\ k - 1 \in 0..n
    BY <1>2
  <2>2. flat[k] = flat[k-1] \o seqs[k] /\ flat[k-1] \in Seq(X) /\ seqs[k] \in Seq(X)
    BY <1>1, <1>2, <1>3, <2>1
  <2> DEFINE a == flat[k-1]
             b == seqs[k]
             c == flat[k]
  <2>3. c = a \o b /\ a \in Seq(X) /\ b \in Seq(X)
    BY <2>2
  <2> HIDE DEF a, b, c
  <2>4. /\ Len(c) = Len(a) + Len(b) /\ Len(a) \in Nat /\ Len(b) \in Nat
        /\ \A i \in 1..Len(a) + Len(b) :
             c[i] = IF i <= Len(a) THEN a[i] ELSE b[i - Len(a)]
    BY <2>3, ConcatProperties
  <2>5. \A i \in 1..Len(a) : c[i] = a[i]
    BY <2>4
  <2>6. ASSUME NEW j \in 1..Len(b)
        PROVE  c[Len(a) + j] = b[j]
    <3>1. Len(a) + j \in 1..Len(a) + Len(b) /\ ~(Len(a) + j <= Len(a))
          /\ Len(a) + j - Len(a) = j
      BY <2>4
    <3> QED
      BY <2>4, <3>1
  <2> QED
    BY <2>1, <2>4, <2>5, <2>6 DEF a, b, c
<1> DEFINE Kept(k, m) ==
             /\ Len(flat[k]) <= Len(flat[m])
             /\ \A i \in 1..Len(flat[k]) : flat[m][i] = flat[k][i]
<1>5. ASSUME NEW k \in 0..n
      PROVE  Kept(k, n)
  <2> DEFINE S == {d \in Nat : k + d <= n => Kept(k, k + d)}
  <2>1. 0 \in S
    BY <1>3
  <2>2. ASSUME NEW d \in Nat, d \in S
        PROVE  d + 1 \in S
    <3> SUFFICES ASSUME k + (d + 1) <= n
                 PROVE  Kept(k, k + (d + 1))
      OBVIOUS
    <3> DEFINE m == k + (d + 1)
    <3>1. m \in 1..n /\ m \in Int /\ m - 1 = k + d /\ k + d \in 0..n
      BY <1>2
    <3>2. Kept(k, m - 1)
      BY <1>2, <2>2, <3>1
    <3> HIDE DEF m, S
    <3>3. /\ Len(flat[m]) = Len(flat[m-1]) + Len(seqs[m])
          /\ \A i \in 1..Len(flat[m-1]) : flat[m][i] = flat[m-1][i]
      BY <1>4, <3>1
    <3>4. Len(flat[k]) \in Nat /\ Len(flat[m-1]) \in Nat /\ Len(seqs[m]) \in Nat
      BY <1>2, <1>3, <3>1
    <3>5. ASSUME NEW i \in 1..Len(flat[k])
          PROVE  flat[m][i] = flat[k][i]
      <4>1. i \in 1..Len(flat[m-1])
        BY <3>2, <3>4
      <4> QED
        BY <3>2, <3>3, <4>1
    <3>7. Len(flat[k]) <= Len(flat[m])
      <4>1. Len(flat[k]) <= Len(flat[m-1]) /\ Len(flat[m]) = Len(flat[m-1]) + Len(seqs[m])
        BY <3>2, <3>3
      <4> QED
        <5>1. PICK a \in Nat, b \in Nat, c \in Nat, w \in Nat :
                /\ a = Len(flat[k]) /\ b = Len(flat[m-1]) /\ c = Len(seqs[m])
                /\ w = Len(flat[m])
          BY <1>3, <3>1, <3>4
        <5>2. a <= b /\ w = b + c
          BY <4>1, <5>1
        <5>3. a <= w
          BY <5>2
        <5> QED
          BY <5>1, <5>3
    <3>6. Kept(k, m)
      BY <3>5, <3>7
    <3> HIDE DEF Kept
    <3> QED
      BY <3>6 DEF m
  <2>3. n - k \in S
    <3>1. n - k \in Nat
      BY <1>2
    <3> HIDE DEF S
    <3> QED
      BY <2>1, <2>2, <3>1, Induction
  <2>4. k + (n - k) = n
    BY <1>2
  <2> HIDE DEF Kept
  <2> QED
    BY <1>2, <2>3, <2>4
<1>6. place \in [0..n -> Nat] /\ place[0] = 0
  BY <1>1, <1>2, <1>3
<1>7. ASSUME NEW k \in 0..n
      PROVE  place[k] = Len(flat[k]) /\ place[k] <= place[n]
  <2>1. Len(flat[k]) <= Len(flat[n])
    BY <1>5
  <2>2. n \in 0..n
    BY <1>2
  <2> QED
    BY <2>1, <2>2
<1>8. ASSUME NEW k \in 1..n
      PROVE  /\ place[k] = place[k-1] + Len(seqs[k])
             /\ place[k] <= place[n]
             /\ \A j \in 1..Len(seqs[k]) :
                  FlattenSeq(seqs)[place[k-1] + j] = seqs[k][j]
  <2>1. k \in 0..n /\ k - 1 \in 0..n
    BY <1>4
  <2>2. place[k] = Len(flat[k]) /\ place[k-1] = Len(flat[k-1]) /\ place[k] <= place[n]
    BY <1>7, <2>1
  <2>3. Len(flat[k]) = Len(flat[k-1]) + Len(seqs[k])
    BY <1>4
  <2>4. ASSUME NEW j \in 1..Len(seqs[k])
        PROVE  flat[n][Len(flat[k-1]) + j] = seqs[k][j]
    <3>1. Len(flat[k-1]) + j \in 1..Len(flat[k])
      BY <1>2, <1>3, <2>1, <2>3
    <3>2. flat[n][Len(flat[k-1]) + j] = flat[k][Len(flat[k-1]) + j]
      BY <1>5, <2>1, <3>1
    <3> QED
      BY <1>4, <3>2
  <2> HIDE DEF place
  <2> QED
    BY <1>1, <2>2, <2>3, <2>4
<1>9. Places(seqs, place)
  <2>1. place[n] = Len(FlattenSeq(seqs))
    BY <1>1, <1>2, <1>7
  <2> HIDE DEF place
  <2> QED
    BY <1>6, <1>8, <2>1 DEF Places, n
<1>10. FlattenSeq(seqs) \in Seq(X)
  BY <1>1, <1>2, <1>3
<1> QED
  BY <1>9, <1>10

(* Writing string into bytes behind the first start of them.               *)
Splice(bytes, start, string) ==
  SubSeq(bytes, 1, start) \o string
    \o SubSeq(bytes, start + Len(string) + 1, Len(bytes))

IsSplice(whole, bytes, start, string) ==
  /\ Len(whole) = Len(bytes)
  /\ \A i \in 1..Len(bytes) :
       whole[i] = IF start < i /\ i <= start + Len(string)
                    THEN string[i - start] ELSE bytes[i]

LEMMA SpliceProperties ==
  ASSUME NEW X, NEW bytes \in Seq(X), NEW start \in Nat, NEW string \in Seq(X),
         start + Len(string) <= Len(bytes)
  PROVE  /\ Splice(bytes, start, string) \in Seq(X)
         /\ IsSplice(Splice(bytes, start, string), bytes, start, string)
<1> DEFINE before == SubSeq(bytes, 1, start)
           after == SubSeq(bytes, start + Len(string) + 1, Len(bytes))
           front == before \o string
           whole == front \o after
<1>1. Len(bytes) \in Nat /\ Len(string) \in Nat
      /\ \A i \in 1..Len(bytes) : bytes[i] \in X
  OBVIOUS
<1>2. /\ before \in Seq(X) /\ Len(before) = start
      /\ \A i \in 1..start : before[i] = bytes[i]
  <2>1. \A i \in 1..start : bytes[i] \in X
    BY <1>1
  <2>2. /\ before \in Seq(X)
        /\ Len(before) = IF 1 <= start THEN start - 1 + 1 ELSE 0
        /\ \A i \in 1..start - 1 + 1 : before[i] = bytes[1 + i - 1]
    BY <2>1, SubSeqProperties
  <2> QED
    BY <2>2
<1>3. /\ after \in Seq(X)
      /\ Len(after) = Len(bytes) - (start + Len(string))
      /\ \A i \in 1..Len(after) : after[i] = bytes[start + Len(string) + i]
  <2> DEFINE m == start + Len(string) + 1
  <2>1. m \in Nat /\ \A i \in m..Len(bytes) : bytes[i] \in X
    BY <1>1
  <2>2. /\ after \in Seq(X)
        /\ Len(after) = IF m <= Len(bytes) THEN Len(bytes) - m + 1 ELSE 0
        /\ \A i \in 1..Len(bytes) - m + 1 : after[i] = bytes[m + i - 1]
    <3> HIDE DEF m
    <3>1. m \in Int /\ Len(bytes) \in Int
      BY <1>1, <2>1
    <3> QED
      BY <2>1, <3>1, SubSeqProperties DEF m
  <2>3. Len(after) = Len(bytes) - (start + Len(string))
    BY <1>1, <2>2
  <2>4. ASSUME NEW i \in 1..Len(after)
        PROVE  after[i] = bytes[start + Len(string) + i]
    <3>1. i \in 1..Len(bytes) - m + 1 /\ m + i - 1 = start + Len(string) + i
      BY <1>1, <2>3
    <3> QED
      BY <2>2, <3>1
  <2> QED
    BY <2>2, <2>3, <2>4
<1> HIDE DEF before, after
<1>4. /\ front \in Seq(X) /\ Len(front) = start + Len(string)
      /\ \A i \in 1..start + Len(string) :
           front[i] = IF i <= start THEN before[i] ELSE string[i - start]
  BY <1>2, ConcatProperties
<1> HIDE DEF front
<1>5. /\ whole \in Seq(X) /\ Len(whole) = Len(front) + Len(after)
      /\ \A i \in 1..Len(front) + Len(after) :
           whole[i] = IF i <= Len(front) THEN front[i] ELSE after[i - Len(front)]
  <2>1. front \in Seq(X) /\ after \in Seq(X)
    BY <1>3, <1>4
  <2> QED
    BY <2>1, ConcatProperties
<1>6. Splice(bytes, start, string) = whole
  BY DEF Splice, front, before, after
<1> HIDE DEF whole
<1>7. Len(whole) = Len(bytes)
  BY <1>1, <1>3, <1>4, <1>5
<1>8. ASSUME NEW i \in 1..Len(bytes)
      PROVE  whole[i] = IF start < i /\ i <= start + Len(string)
                          THEN string[i - start] ELSE bytes[i]
  <2>1. i \in 1..Len(front) + Len(after)
    BY <1>1, <1>3, <1>4
  <2>2. CASE i <= start
    <3>1. i \in 1..start /\ i \in 1..start + Len(string) /\ ~(start < i)
      BY <1>1, <2>2
    <3>2. whole[i] = before[i]
      BY <1>1, <1>4, <1>5, <2>1, <2>2, <3>1
    <3> QED
      BY <1>2, <3>1, <3>2
  <2>3. CASE start < i /\ i <= start + Len(string)
    <3>1. i \in 1..start + Len(string) /\ ~(i <= start)
      BY <1>1, <2>3
    <3> QED
      BY <1>1, <1>4, <1>5, <2>1, <2>3, <3>1
  <2>4. CASE i > start + Len(string)
    <3>1. /\ i - (start + Len(string)) \in 1..Len(after)
          /\ start + Len(string) + (i - (start + Len(string))) = i
          /\ ~(i <= start + Len(string))
      BY <1>1, <1>3, <2>4
    <3>2. whole[i] = after[i - (start + Len(string))]
      BY <1>4, <1>5, <2>1, <3>1
    <3> QED
      BY <1>3, <3>1, <3>2
  <2> QED
    BY <1>1, <2>2, <2>3, <2>4
<1> QED
  BY <1>5, <1>6, <1>7, <1>8 DEF IsSplice

============================================================================
