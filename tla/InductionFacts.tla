--------------------------- MODULE InductionFacts ---------------------------
(***************************************************************************)
(* Induction and recursion, and what they give about the operators of the  *)
(* community modules that the models use: greatest elements, sums over a   *)
(* set and folds over a sequence; and what a power of ten is.              *)
(*                                                                         *)
(* The induction principle is stated about a set of numbers, the numbers   *)
(* of which something holds, so that it has no operator as a parameter.    *)
(***************************************************************************)
EXTENDS Decimal, Integers, FiniteSetsExt, FiniteSetTheorems, WellFoundedInduction, TLAPS

LessThan == {pair \in Nat \X Nat : pair[1] < pair[2]}

\* A set of natural numbers has a least one.
LEMMA LeastNumber ==
    ASSUME NEW S \in SUBSET Nat, S # {}
    PROVE  \E least \in S : \A n \in S : least <= n
<1>1. LessThan = OpToRel(<, Nat)
    BY DEF LessThan, OpToRel
<1>2. IsWellFoundedOn(LessThan, Nat)
    BY <1>1, NatLessThanWellFounded
<1>3. PICK least \in S : \A n \in S : ~ (<<n, least>> \in LessThan)
    BY <1>2, WFMin
<1>4. \A m, n \in Nat : <<n, m>> \in LessThan <=> n < m
    BY DEF LessThan
<1>5. \A n \in S : ~ (n < least)
    BY <1>3, <1>4
<1> QED BY <1>5

\* What holds of 0, and of n + 1 when it holds of n, holds of every number.
LEMMA Induction ==
    ASSUME NEW S \in SUBSET Nat, 0 \in S, \A n \in S : n + 1 \in S
    PROVE  S = Nat
<1> SUFFICES ASSUME Nat \ S # {} PROVE FALSE
    OBVIOUS
<1>1. PICK least \in Nat \ S : \A n \in Nat \ S : least <= n
    BY LeastNumber
<1>2. least - 1 \in Nat /\ least - 1 \in S
    BY <1>1
<1> QED BY <1>1, <1>2

\* A bounded set of natural numbers has a greatest one.
LEMMA GreatestNumber ==
    ASSUME NEW S \in SUBSET Nat, S # {}, NEW bound \in Nat, \A n \in S : n <= bound
    PROVE  \E greatest \in S : \A n \in S : n <= greatest
<1> DEFINE Bounds == {m \in Nat : \A n \in S : n <= m}
<1>1. PICK least \in Bounds : \A m \in Bounds : least <= m
    <2>1. bound \in Bounds
        OBVIOUS
    <2>2. Bounds # {} /\ Bounds \in SUBSET Nat
        BY <2>1
    <2> HIDE DEF Bounds
    <2> QED BY <2>2, LeastNumber
<1>2. least \in S
    <2> SUFFICES ASSUME least \notin S PROVE FALSE
        OBVIOUS
    <2>1. \A n \in S : n <= least - 1
        BY <1>1
    <2>2. PICK n \in S : n \in Nat /\ n <= least - 1
        BY <2>1
    <2>3. least - 1 \in Bounds
        BY <2>1, <2>2
    <2> QED BY <1>1, <2>3
<1> QED BY <1>1, <1>2

\* The least of some numbers.
LEMMA LeastOfSome ==
    ASSUME NEW S \in SUBSET Nat, S # {}
    PROVE  Min(S) \in S /\ \A x \in S : Min(S) <= x
<1>1. \E x \in S : \A y \in S : x =< y
    BY LeastNumber
<1> QED BY <1>1 DEF Min

\* The greater of two numbers.
LEMMA MaxOfTwo ==
    ASSUME NEW a \in Int, NEW b \in Int
    PROVE  /\ Max({a, b}) \in {a, b}
           /\ Max({a, b}) >= a /\ Max({a, b}) >= b
<1>1. \E x \in {a, b} : \A y \in {a, b} : x >= y
    OBVIOUS
<1> QED BY <1>1 DEF Max

LEMMA MinOfTwo ==
    ASSUME NEW a \in Int, NEW b \in Int
    PROVE  /\ Min({a, b}) \in {a, b}
           /\ Min({a, b}) <= a /\ Min({a, b}) <= b
<1>1. \E x \in {a, b} : \A y \in {a, b} : x =< y
    OBVIOUS
<1> QED BY <1>1 DEF Min

-----------------------------------------------------------------------------
(* Sums over a finite set.  MapThenSumSet of FiniteSetsExt, with its
   definitions expanded down to these, is Summation(f, S)[S]. *)

Picked(s) == CHOOSE x \in s : TRUE
IsSummation(sum, f, domain) ==
    sum = [s \in domain |-> IF s = {} THEN 0 ELSE f[Picked(s)] + sum[s \ {Picked(s)}]]
Summation(f, S) == CHOOSE sum : IsSummation(sum, f, SUBSET S)

LEMMA PickedIsIn == ASSUME NEW s, s # {} PROVE Picked(s) \in s
BY DEF Picked

\* What is left of a set without its first element.
LEMMA RestOfSet ==
    ASSUME NEW s, IsFiniteSet(s)
    PROVE  /\ Cardinality(s) \in Nat
           /\ Cardinality(s) = 0 <=> s = {}
           /\ s # {} => /\ Picked(s) \in s
                        /\ IsFiniteSet(s \ {Picked(s)})
                        /\ Cardinality(s \ {Picked(s)}) = Cardinality(s) - 1
<1>1. Cardinality(s) \in Nat
    BY FS_CardinalityType
<1>2. Cardinality(s) = 0 <=> s = {}
    BY FS_EmptySet
<1>3. ASSUME s # {}
      PROVE  /\ Picked(s) \in s
             /\ IsFiniteSet(s \ {Picked(s)})
             /\ Cardinality(s \ {Picked(s)}) = Cardinality(s) - 1
    <2>1. Picked(s) \in s
        BY <1>3, PickedIsIn
    <2>2. IsFiniteSet(s \ {Picked(s)})
        BY FS_RemoveElement
    <2>3. Cardinality(s \ {Picked(s)}) =
              IF Picked(s) \in s THEN Cardinality(s) - 1 ELSE Cardinality(s)
        BY FS_RemoveElement
    <2> QED BY <2>1, <2>2, <2>3
<1> QED BY <1>1, <1>2, <1>3

\* The recursion over the subsets of a finite set defines a function.
LEMMA SummationExists ==
    ASSUME NEW f, NEW S, IsFiniteSet(S)
    PROVE  IsSummation(Summation(f, S), f, SUBSET S)
<1> DEFINE UpTo(n) == {s \in SUBSET S : Cardinality(s) <= n}
           Good == {n \in Nat : \E sum : IsSummation(sum, f, UpTo(n))}
<1>a. \A s \in SUBSET S : IsFiniteSet(s) /\ Cardinality(s) \in Nat
    BY FS_Subset, FS_CardinalityType
<1>b. \A s \in SUBSET S : Cardinality(s) = 0 => s = {}
    BY <1>a, FS_EmptySet
<1>c. ASSUME NEW s \in SUBSET S, s # {}
      PROVE  s \ {Picked(s)} \in SUBSET S /\ Cardinality(s \ {Picked(s)}) = Cardinality(s) - 1
    BY <1>a, <1>c, RestOfSet
<1>1. 0 \in Good
    <2> DEFINE sum == [s \in UpTo(0) |-> 0]
    <2>1. \A s \in UpTo(0) : s = {}
        BY <1>a, <1>b
    <2>2. sum = [s \in UpTo(0) |-> IF s = {} THEN 0 ELSE f[Picked(s)] + sum[s \ {Picked(s)}]]
        BY <2>1
    <2>3. IsSummation(sum, f, UpTo(0))
        BY <2>2 DEF IsSummation
    <2> QED BY <2>3
<1>2. ASSUME NEW n \in Good PROVE n + 1 \in Good
    <2>1. PICK old : IsSummation(old, f, UpTo(n))
        OBVIOUS
    <2> DEFINE new == [s \in UpTo(n + 1) |->
                          IF s = {} THEN 0 ELSE f[Picked(s)] + old[s \ {Picked(s)}]]
    <2>2. old = [s \in UpTo(n) |-> IF s = {} THEN 0 ELSE f[Picked(s)] + old[s \ {Picked(s)}]]
        BY <2>1 DEF IsSummation
    <2>3. \A s \in UpTo(n) :
              old[s] = IF s = {} THEN 0 ELSE f[Picked(s)] + old[s \ {Picked(s)}]
        <3> HIDE DEF UpTo
        <3> QED BY <2>2
    <2>4. \A s \in UpTo(n) : s \in UpTo(n + 1)
        <3>1. \A c, m \in Nat : c <= m => c <= m + 1
            OBVIOUS
        <3> QED BY <1>a, <3>1
    <2>5. \A s \in UpTo(n + 1) : s # {} => s \ {Picked(s)} \in UpTo(n)
        <3>1. \A c, m \in Nat : c <= m + 1 => c - 1 <= m
            OBVIOUS
        <3>2. TAKE s \in UpTo(n + 1)
        <3>3. HAVE s # {}
        <3>4. s \ {Picked(s)} \in SUBSET S /\ Cardinality(s \ {Picked(s)}) = Cardinality(s) - 1
            BY <1>c, <3>3
        <3>5. Cardinality(s) - 1 <= n
            BY <1>a, <3>1
        <3> QED BY <3>4, <3>5
    <2>6. \A s \in UpTo(n + 1) :
              new[s] = IF s = {} THEN 0 ELSE f[Picked(s)] + old[s \ {Picked(s)}]
        <3> HIDE DEF UpTo
        <3> QED OBVIOUS
    <2>7. \A s \in UpTo(n) : new[s] = old[s]
        <3> HIDE DEF UpTo, new
        <3> QED BY <2>3, <2>4, <2>6
    <2>8. new = [s \in UpTo(n + 1) |->
                    IF s = {} THEN 0 ELSE f[Picked(s)] + new[s \ {Picked(s)}]]
        <3>1. \A s \in UpTo(n + 1) :
                  (IF s = {} THEN 0 ELSE f[Picked(s)] + old[s \ {Picked(s)}])
                      = IF s = {} THEN 0 ELSE f[Picked(s)] + new[s \ {Picked(s)}]
            <4> HIDE DEF UpTo, new
            <4> QED BY <2>5, <2>7
        <3> HIDE DEF UpTo
        <3> QED BY <3>1
    <2>9. IsSummation(new, f, UpTo(n + 1))
        BY <2>8 DEF IsSummation
    <2>10. n + 1 \in Nat
        OBVIOUS
    <2> HIDE DEF UpTo, new
    <2> QED BY <2>9, <2>10
<1>3. Good = Nat
    <2>1. Good \in SUBSET Nat
        OBVIOUS
    <2> HIDE DEF Good
    <2> QED BY <1>1, <1>2, <2>1, Induction
<1>4. Cardinality(S) \in Nat
    BY FS_CardinalityType
<1>5. UpTo(Cardinality(S)) = SUBSET S
    <2>1. \A s \in SUBSET S : Cardinality(s) <= Cardinality(S)
        BY FS_Subset
    <2> QED BY <2>1
<1>6. \E sum : IsSummation(sum, f, UpTo(Cardinality(S)))
    BY <1>3, <1>4
<1>7. \E sum : IsSummation(sum, f, SUBSET S)
    BY <1>5, <1>6
<1> QED BY <1>7 DEF Summation

\* A sum is no more than the greatest of its terms as often as there are terms.
LEMMA SumBounded ==
    ASSUME NEW S, IsFiniteSet(S), NEW f, NEW most \in Nat,
           \A x \in S : f[x] \in Nat /\ f[x] <= most
    PROVE  /\ Summation(f, S)[S] \in Nat
           /\ Summation(f, S)[S] <= most * Cardinality(S)
<1> DEFINE sum == Summation(f, S)
           AtMost(s, n) == sum[s] \in Nat /\ sum[s] <= most * n
           Good == {n \in Nat : \A s \in SUBSET S : Cardinality(s) = n => AtMost(s, n)}
<1>a. sum = [s \in SUBSET S |-> IF s = {} THEN 0 ELSE f[Picked(s)] + sum[s \ {Picked(s)}]]
    <2>1. IsSummation(Summation(f, S), f, SUBSET S)
        BY SummationExists
    <2> QED BY <2>1 DEF IsSummation
<1> HIDE DEF sum
<1>b. \A s \in SUBSET S : sum[s] = IF s = {} THEN 0 ELSE f[Picked(s)] + sum[s \ {Picked(s)}]
    BY <1>a
<1>c. \A s \in SUBSET S : IsFiniteSet(s)
    BY FS_Subset
<1>1. 0 \in Good
    <2>1. \A s \in SUBSET S : Cardinality(s) = 0 => s = {}
        BY <1>c, RestOfSet
    <2>2. \A s \in SUBSET S : Cardinality(s) = 0 => sum[s] = 0
        BY <1>b, <2>1
    <2>3. \A s \in SUBSET S : Cardinality(s) = 0 => AtMost(s, 0)
        BY <2>2
    <2> QED BY <2>3
<1>2. ASSUME NEW n \in Good PROVE n + 1 \in Good
    <2>0. n \in Nat /\ n + 1 \in Nat
        OBVIOUS
    <2>1. \A s \in SUBSET S : Cardinality(s) = n => AtMost(s, n)
        OBVIOUS
    <2>2. ASSUME NEW s \in SUBSET S, Cardinality(s) = n + 1
          PROVE  AtMost(s, n + 1)
        <3> DEFINE rest == s \ {Picked(s)}
        <3>0. Cardinality({}) = 0 /\ n + 1 # 0
            BY <2>0, FS_EmptySet
        <3>1. s # {} /\ IsFiniteSet(s)
            BY <1>c, <2>2, <3>0
        <3>2. Picked(s) \in S /\ rest \in SUBSET S
            BY <3>1, PickedIsIn
        <3>3. Cardinality(rest) = n
            <4>1. Cardinality(rest) = Cardinality(s) - 1
                BY <3>1, RestOfSet
            <4> QED BY <2>0, <2>2, <4>1
        <3>4. sum[s] = f[Picked(s)] + sum[rest]
            BY <1>b, <3>1
        <3>5. AtMost(rest, n)
            BY <2>1, <3>2, <3>3
        <3>6. f[Picked(s)] \in Nat /\ f[Picked(s)] <= most
            BY <3>2
        <3>7. most * (n + 1) = most * n + most /\ most * n \in Nat
            BY <2>0
        <3>8. \A a, b, c, d \in Nat : a <= c /\ b <= d => a + b <= d + c
            OBVIOUS
        <3> QED BY <3>4, <3>5, <3>6, <3>7, <3>8
    <2> QED BY <2>0, <2>2
<1>3. Good = Nat
    <2>1. Good \in SUBSET Nat
        OBVIOUS
    <2> HIDE DEF Good
    <2> QED BY <1>1, <1>2, <2>1, Induction
<1>4. AtMost(S, Cardinality(S))
    <2>1. Cardinality(S) \in Good
        BY <1>3, FS_CardinalityType
    <2> QED BY <2>1
<1> QED BY <1>4 DEF sum

-----------------------------------------------------------------------------
(* Recursion over the natural numbers *)

Follows(g, n, base, step) ==
    g[0] = base /\ \A i \in 0..(n - 1) : g[i + 1] = step[<<g[i], i>>]

LEMMA FollowsAgree ==
    ASSUME NEW n \in Nat, NEW m \in Nat, n <= m, NEW base, NEW step,
           NEW g, Follows(g, n, base, step), NEW h, Follows(h, m, base, step)
    PROVE  \A i \in 0..n : g[i] = h[i]
<1> DEFINE Good == {i \in Nat : i <= n => g[i] = h[i]}
<1>1. 0 \in Good
    BY DEF Follows
<1>2. ASSUME NEW i \in Good PROVE i + 1 \in Good
    <2>1. CASE i + 1 <= n
        <3>1. i \in 0..(n - 1) /\ i \in 0..(m - 1)
            BY <2>1
        <3>2. g[i + 1] = step[<<g[i], i>>] /\ h[i + 1] = step[<<h[i], i>>]
            BY <3>1 DEF Follows
        <3>3. g[i] = h[i]
            BY <2>1
        <3> QED BY <3>2, <3>3
    <2>2. CASE ~(i + 1 <= n)
        BY <2>2
    <2> QED BY <2>1, <2>2
<1>3. Good = Nat
    <2>1. Good \in SUBSET Nat
        OBVIOUS
    <2> HIDE DEF Good
    <2> QED BY <1>1, <1>2, <2>1, Induction
<1> QED BY <1>3

LEMMA FollowsExists ==
    ASSUME NEW T, NEW base \in T, NEW step \in [T \X Nat -> T], NEW m \in Nat
    PROVE  \E g \in [0..m -> T] : Follows(g, m, base, step)
<1> DEFINE Good == {n \in Nat : \E g \in [0..n -> T] : Follows(g, n, base, step)}
<1>1. 0 \in Good
    <2>1. [i \in 0..0 |-> base] \in [0..0 -> T]
        OBVIOUS
    <2>2. Follows([i \in 0..0 |-> base], 0, base, step)
        BY DEF Follows
    <2> QED BY <2>1, <2>2
<1>2. ASSUME NEW n \in Good PROVE n + 1 \in Good
    <2>1. n \in Nat /\ n + 1 \in Nat /\ n + 1 \in 0..(n + 1) /\ n \in 0..n
        OBVIOUS
    <2>2. PICK g \in [0..n -> T] : Follows(g, n, base, step)
        OBVIOUS
    <2> DEFINE h == [i \in 0..(n + 1) |-> IF i = n + 1 THEN step[<<g[n], n>>] ELSE g[i]]
    <2>3. step[<<g[n], n>>] \in T
        BY <2>1
    <2>4. \A i \in 0..(n + 1) : i # n + 1 => i \in 0..n
        BY <2>1
    <2>5. h \in [0..(n + 1) -> T]
        BY <2>3, <2>4
    <2>6. h[n + 1] = step[<<g[n], n>>] /\ \A i \in 0..n : h[i] = g[i]
        BY <2>1
    <2> HIDE DEF h
    <2>7. Follows(h, n + 1, base, step)
        <3>1. h[0] = base
            BY <2>1, <2>2, <2>6 DEF Follows
        <3>2. ASSUME NEW i \in 0..(n + 1 - 1) PROVE h[i + 1] = step[<<h[i], i>>]
            <4>1. CASE i = n
                BY <2>1, <2>6, <4>1
            <4>2. CASE i # n
                <5>1. i \in 0..(n - 1) /\ i \in 0..n /\ i + 1 \in 0..n
                    BY <2>1, <4>2
                <5>2. g[i + 1] = step[<<g[i], i>>]
                    BY <2>2, <5>1 DEF Follows
                <5> QED BY <2>6, <5>1, <5>2
            <4> QED BY <4>1, <4>2
        <3> QED BY <3>1, <3>2 DEF Follows
    <2> QED BY <2>1, <2>5, <2>7
<1>3. Good = Nat
    <2>1. Good \in SUBSET Nat
        OBVIOUS
    <2> HIDE DEF Good
    <2> QED BY <1>1, <1>2, <2>1, Induction
<1> QED BY <1>3

Recurs(g, base, step) ==
    g[0] = base /\ \A n \in Nat : g[n + 1] = step[<<g[n], n>>]

\* A first value and what each value is made of define a function.
LEMMA NumberRecursion ==
    ASSUME NEW T, NEW base \in T, NEW step \in [T \X Nat -> T]
    PROVE  \E g \in [Nat -> T] : Recurs(g, base, step)
<1> DEFINE First(n) == CHOOSE g \in [0..n -> T] : Follows(g, n, base, step)
           all == [n \in Nat |-> First(n)[n]]
<1>1. \A n \in Nat : First(n) \in [0..n -> T] /\ Follows(First(n), n, base, step)
    BY FollowsExists
<1> HIDE DEF First
<1>2. \A n \in Nat : all[n] \in T /\ all[n] = First(n)[n]
    <2>1. \A n \in Nat : n \in 0..n
        OBVIOUS
    <2> QED BY <1>1, <2>1
<1>3. all \in [Nat -> T]
    BY <1>2
<1> HIDE DEF all
<1>4. all[0] = base
    BY <1>1, <1>2 DEF Follows
<1>5. ASSUME NEW n \in Nat PROVE all[n + 1] = step[<<all[n], n>>]
    <2>1. n + 1 \in Nat /\ n <= n + 1 /\ n \in 0..n /\ n \in 0..(n + 1 - 1)
        OBVIOUS
    <2>2. First(n + 1)[n + 1] = step[<<First(n + 1)[n], n>>]
        BY <1>1, <2>1 DEF Follows
    <2>3. First(n)[n] = First(n + 1)[n]
        <3>1. /\ First(n) \in [0..n -> T] /\ Follows(First(n), n, base, step)
              /\ First(n + 1) \in [0..(n + 1) -> T]
              /\ Follows(First(n + 1), n + 1, base, step)
            BY <1>1, <2>1
        <3> DEFINE m == n + 1
                   g == First(n)
                   h == First(m)
        <3>2. /\ g \in [0..n -> T] /\ Follows(g, n, base, step)
              /\ h \in [0..m -> T] /\ Follows(h, m, base, step)
              /\ m \in Nat /\ n <= m
            BY <2>1, <3>1
        <3> HIDE DEF g, h, m
        <3>3. \A i \in 0..n : g[i] = h[i]
            BY <3>2, FollowsAgree
        <3>4. g[n] = h[n]
            BY <2>1, <3>3
        <3> QED BY <3>4 DEF g, h, m
    <2> QED BY <1>2, <2>1, <2>2, <2>3
<1>6. Recurs(all, base, step)
    BY <1>4, <1>5 DEF Recurs
<1> QED BY <1>3, <1>6

-----------------------------------------------------------------------------
(* Folds over a sequence.  FoldLeft of SequencesExt, with its definitions
   expanded down to these, takes the last value of a recursion over the sets
   of positions, the greatest position last. *)

IsFold(iter, base, step, n) ==
    iter = [s \in SUBSET (1..n) |->
               IF s = {} THEN base ELSE step[<<iter[s \ {Max(s)}], Max(s)>>]]

\* The greatest of some of the first numbers.
LEMMA MaxOfSome ==
    ASSUME NEW n \in Nat, NEW s \in SUBSET (1..n), s # {}
    PROVE  Max(s) \in s /\ \A x \in s : Max(s) >= x
<1>1. PICK greatest \in s : \A x \in s : x <= greatest
    <2>1. s \in SUBSET Nat /\ \A x \in s : x <= n
        OBVIOUS
    <2> QED BY <2>1, GreatestNumber
<1>2. \E x \in s : \A y \in s : x >= y
    BY <1>1
<1> QED BY <1>2 DEF Max

LEMMA MaxIsLast ==
    ASSUME NEW n \in Nat, NEW s \in SUBSET (1..(n + 1)), n + 1 \in s
    PROVE  Max(s) = n + 1 /\ s \ {Max(s)} \in SUBSET (1..n)
<1> DEFINE m == n + 1
<1>1. m \in Nat /\ s \in SUBSET (1..m) /\ s # {} /\ m \in s
    OBVIOUS
<1> HIDE DEF m
<1>2. Max(s) \in s /\ Max(s) >= m
    BY <1>1, MaxOfSome
<1>3. Max(s) = m
    <2>1. Max(s) \in 1..m
        BY <1>1, <1>2
    <2> QED BY <1>1, <1>2, <2>1
<1> QED BY <1>3 DEF m

LEMMA FoldExists ==
    ASSUME NEW T, NEW base \in T, NEW m \in Nat, NEW step \in [T \X (1..m) -> T]
    PROVE  \E iter \in [SUBSET (1..m) -> T] : IsFold(iter, base, step, m)
<1> DEFINE Good == {n \in Nat : n <= m => \E iter \in [SUBSET (1..n) -> T] :
                                              IsFold(iter, base, step, n)}
<1>1. 0 \in Good
    <2> DEFINE iter == [s \in SUBSET (1..0) |-> base]
    <2>1. iter \in [SUBSET (1..0) -> T]
        OBVIOUS
    <2>2. \A s \in SUBSET (1..0) : s = {}
        OBVIOUS
    <2>3. iter = [s \in SUBSET (1..0) |->
                      IF s = {} THEN base ELSE step[<<iter[s \ {Max(s)}], Max(s)>>]]
        BY <2>2
    <2>4. IsFold(iter, base, step, 0)
        BY <2>3 DEF IsFold
    <2> QED BY <2>1, <2>4
<1>2. ASSUME NEW n \in Good PROVE n + 1 \in Good
    <2>0. n \in Nat /\ n + 1 \in Nat
        OBVIOUS
    <2>1. ASSUME n + 1 <= m
          PROVE  \E iter \in [SUBSET (1..(n + 1)) -> T] : IsFold(iter, base, step, n + 1)
        <3>a. n <= m
            BY <2>0, <2>1
        <3>1. PICK old \in [SUBSET (1..n) -> T] : IsFold(old, base, step, n)
            BY <3>a
        <3> DEFINE new == [s \in SUBSET (1..(n + 1)) |->
                              IF n + 1 \in s THEN step[<<old[s \ {n + 1}], n + 1>>] ELSE old[s]]
        <3>2. \A s \in SUBSET (1..n) :
                  old[s] = IF s = {} THEN base ELSE step[<<old[s \ {Max(s)}], Max(s)>>]
            BY <3>1 DEF IsFold
        <3>3. \A s \in SUBSET (1..(n + 1)) :
                  IF n + 1 \in s THEN s \ {n + 1} \in SUBSET (1..n) ELSE s \in SUBSET (1..n)
            BY <2>0
        <3>4. n + 1 \in 1..m
            BY <2>0, <2>1
        <3>5. \A s \in SUBSET (1..(n + 1)) : new[s] \in T
            BY <3>3, <3>4
        <3>6. new \in [SUBSET (1..(n + 1)) -> T]
            BY <3>5
        <3>7. \A s \in SUBSET (1..n) : s \in SUBSET (1..(n + 1)) /\ n + 1 \notin s
            BY <2>0
        <3>8. \A s \in SUBSET (1..n) : new[s] = old[s]
            BY <3>7
        <3>9. \A s \in SUBSET (1..(n + 1)) : n + 1 \in s => new[s] = step[<<old[s \ {n + 1}], n + 1>>]
            OBVIOUS
        <3> HIDE DEF new
        <3>10. ASSUME NEW s \in SUBSET (1..(n + 1))
               PROVE  new[s] = IF s = {} THEN base ELSE step[<<new[s \ {Max(s)}], Max(s)>>]
            <4>1. CASE n + 1 \in s
                <5>1. Max(s) = n + 1 /\ s \ {Max(s)} \in SUBSET (1..n)
                    BY <2>0, <4>1, MaxIsLast
                <5>2. new[s \ {Max(s)}] = old[s \ {n + 1}]
                    BY <3>8, <5>1
                <5>3. s # {}
                    BY <4>1
                <5> QED BY <3>9, <4>1, <5>1, <5>2, <5>3
            <4>2. CASE n + 1 \notin s
                <5>1. s \in SUBSET (1..n)
                    BY <3>3, <4>2
                <5>2. s \ {Max(s)} \in SUBSET (1..n)
                    BY <5>1
                <5>3. new[s] = old[s] /\ new[s \ {Max(s)}] = old[s \ {Max(s)}]
                    BY <3>8, <5>1, <5>2
                <5> QED BY <3>2, <5>1, <5>3
            <4> QED BY <4>1, <4>2
        <3>11. new = [s \in SUBSET (1..(n + 1)) |->
                         IF s = {} THEN base ELSE step[<<new[s \ {Max(s)}], Max(s)>>]]
            BY <3>6, <3>10
        <3>12. IsFold(new, base, step, n + 1)
            BY <3>11 DEF IsFold
        <3> QED BY <3>6, <3>12
    <2> QED BY <2>0, <2>1
<1>3. Good = Nat
    <2>1. Good \in SUBSET Nat
        OBVIOUS
    <2> HIDE DEF Good
    <2> QED BY <1>1, <1>2, <2>1, Induction
<1>4. m \in Good
    <2> HIDE DEF Good
    <2> QED BY <1>3
<1>5. m <= m
    OBVIOUS
<1> QED BY <1>4, <1>5

\* What the recursion is about on the way through a sequence: the first numbers.
LEMMA LastOfFirst ==
    ASSUME NEW i \in Nat
    PROVE  /\ 1..0 = {}
           /\ 1..(i + 1) # {} /\ Max(1..(i + 1)) = i + 1
           /\ (1..(i + 1)) \ {i + 1} = 1..i
<1>1. i + 1 \in 1..(i + 1)
    OBVIOUS
<1>2. Max(1..(i + 1)) = i + 1
    <2>1. 1..(i + 1) \in SUBSET (1..(i + 1))
        OBVIOUS
    <2> QED BY <1>1, <2>1, MaxIsLast
<1>3. (1..(i + 1)) \ {i + 1} = 1..i
    OBVIOUS
<1> QED BY <1>1, <1>2, <1>3

-----------------------------------------------------------------------------
(* A sum does not depend on the order in which it is taken. *)

LEMMA SumTakesAny ==
    ASSUME NEW S, IsFiniteSet(S), NEW f \in [S -> Nat],
           NEW sum, IsSummation(sum, f, SUBSET S)
    PROVE  /\ sum[{}] = 0
           /\ \A s \in SUBSET S : sum[s] \in Nat
           /\ \A s \in SUBSET S : \A y \in s : sum[s] = f[y] + sum[s \ {y}]
<1> DEFINE TakesAny(s) == sum[s] \in Nat /\ \A y \in s : sum[s] = f[y] + sum[s \ {y}]
           Good == {n \in Nat : \A s \in SUBSET S : Cardinality(s) = n => TakesAny(s)}
<1>a. \A s \in SUBSET S : sum[s] = IF s = {} THEN 0 ELSE f[Picked(s)] + sum[s \ {Picked(s)}]
    BY DEF IsSummation
<1>b. \A s \in SUBSET S : IsFiniteSet(s) /\ Cardinality(s) \in Nat
    BY FS_Subset, FS_CardinalityType
<1>d. /\ sum[{}] = 0
      /\ \A s \in SUBSET S : s # {} => sum[s] = f[Picked(s)] + sum[s \ {Picked(s)}]
    <2>1. {} \in SUBSET S
        OBVIOUS
    <2>2. sum[{}] = 0
        BY <1>a, <2>1
    <2> QED BY <1>a, <2>2
<1>c. \A s \in SUBSET S : sum[s] \in Nat
    <2> DEFINE Numbers == {n \in Nat : \A s \in SUBSET S : Cardinality(s) = n => sum[s] \in Nat}
    <2>1. 0 \in Numbers
        <3>1. \A s \in SUBSET S : Cardinality(s) = 0 => s = {}
            BY <1>b, FS_EmptySet
        <3>2. ASSUME NEW s \in SUBSET S, Cardinality(s) = 0 PROVE sum[s] \in Nat
            <4>1. s = {}
                BY <3>1, <3>2
            <4>2. sum[s] = 0
                BY <1>d, <4>1
            <4> QED BY <4>2
        <3> QED BY <3>2
    <2>2. ASSUME NEW n \in Numbers PROVE n + 1 \in Numbers
        <3>1. n \in Nat /\ n + 1 \in Nat /\ n + 1 # 0
            OBVIOUS
        <3>2. ASSUME NEW s \in SUBSET S, Cardinality(s) = n + 1 PROVE sum[s] \in Nat
            <4>1. s # {} /\ IsFiniteSet(s)
                BY <1>b, <3>1, <3>2, FS_EmptySet
            <4>2. Picked(s) \in s /\ Cardinality(s \ {Picked(s)}) = Cardinality(s) - 1
                BY <4>1, RestOfSet
            <4>3. Cardinality(s \ {Picked(s)}) = n
                BY <3>1, <3>2, <4>2
            <4>4. sum[s \ {Picked(s)}] \in Nat
                BY <4>3
            <4>5. f[Picked(s)] \in Nat
                BY <4>2
            <4>6. sum[s] = f[Picked(s)] + sum[s \ {Picked(s)}]
                BY <1>d, <4>1
            <4> QED BY <4>4, <4>5, <4>6
        <3> QED BY <3>1, <3>2
    <2>3. Numbers = Nat
        <3>1. Numbers \in SUBSET Nat
            OBVIOUS
        <3> HIDE DEF Numbers
        <3> QED BY <2>1, <2>2, <3>1, Induction
    <2> QED BY <1>b, <2>3
<1>1. 0 \in Good
    <2>1. \A s \in SUBSET S : Cardinality(s) = 0 => s = {}
        BY <1>b, FS_EmptySet
    <2>2. \A s \in SUBSET S : s = {} => TakesAny(s)
        BY <1>d
    <2> HIDE DEF TakesAny
    <2> QED BY <2>1, <2>2
<1>2. ASSUME NEW n \in Good PROVE n + 1 \in Good
    <2>0. n \in Nat /\ n + 1 \in Nat /\ n + 1 # 0
        OBVIOUS
    <2>1. \A s \in SUBSET S : Cardinality(s) = n => TakesAny(s)
        OBVIOUS
    <2>2. ASSUME NEW s \in SUBSET S, Cardinality(s) = n + 1
          PROVE  TakesAny(s)
        <3> DEFINE x == Picked(s)
        <3>1. s # {} /\ IsFiniteSet(s)
            BY <1>b, <2>0, <2>2, FS_EmptySet
        <3>2. x \in s
            BY <3>1, PickedIsIn
        <3>3. sum[s] = f[x] + sum[s \ {x}]
            BY <1>d, <3>1
        <3> HIDE DEF x
        <3>4. ASSUME NEW y \in s PROVE s \ {y} \in SUBSET S /\ TakesAny(s \ {y})
            <4>1. Cardinality(s \ {y}) = Cardinality(s) - 1
                BY <3>1, FS_RemoveElement
            <4>2. Cardinality(s \ {y}) = n
                BY <2>0, <2>2, <4>1
            <4> HIDE DEF TakesAny
            <4> QED BY <2>1, <4>2
        <3>5. \A y \in s : f[y] \in Nat /\ sum[s \ {y}] \in Nat
            BY <3>4
        <3>6. ASSUME NEW y \in s PROVE sum[s] = f[y] + sum[s \ {y}]
            <4>1. CASE y = x
                BY <3>3, <4>1
            <4>2. CASE y # x
                <5>1. /\ y \in s \ {x} /\ x \in s \ {y}
                      /\ (s \ {x}) \ {y} = (s \ {y}) \ {x}
                    BY <3>2, <4>2
                <5>2. sum[s \ {x}] = f[y] + sum[(s \ {x}) \ {y}]
                    BY <3>2, <3>4, <5>1
                <5>3. sum[s \ {y}] = f[x] + sum[(s \ {y}) \ {x}]
                    BY <3>4, <5>1
                <5>4. (s \ {x}) \ {y} \in SUBSET S /\ sum[(s \ {x}) \ {y}] \in Nat
                    <6>1. (s \ {x}) \ {y} \in SUBSET S
                        OBVIOUS
                    <6> QED BY <1>c, <6>1
                <5>5. f[x] \in Nat /\ f[y] \in Nat
                    BY <3>2, <3>5
                <5>6. \A a, b, c \in Nat : a + (b + c) = b + (a + c)
                    OBVIOUS
                <5> DEFINE withoutX == sum[s \ {x}]
                           withoutY == sum[s \ {y}]
                           rest == sum[(s \ {x}) \ {y}]
                <5>7. /\ sum[s] = f[x] + withoutX /\ withoutX = f[y] + rest
                      /\ withoutY = f[x] + rest /\ rest \in Nat
                    BY <3>3, <5>1, <5>2, <5>3, <5>4
                <5> HIDE DEF withoutX, withoutY, rest
                <5>8. sum[s] = f[y] + withoutY
                    BY <5>5, <5>6, <5>7
                <5> QED BY <5>8 DEF withoutY
            <4> QED BY <4>1, <4>2
        <3>7. sum[s] \in Nat
            BY <3>2, <3>3, <3>5
        <3> QED BY <3>6, <3>7
    <2> HIDE DEF TakesAny
    <2> QED BY <2>0, <2>2
<1>3. Good = Nat
    <2>1. Good \in SUBSET Nat
        OBVIOUS
    <2> HIDE DEF Good
    <2> QED BY <1>1, <1>2, <2>1, Induction
<1>4. \A s \in SUBSET S : TakesAny(s)
    <2> HIDE DEF TakesAny
    <2> QED BY <1>b, <1>3
<1> QED BY <1>4, <1>d

-----------------------------------------------------------------------------
(* Digits and powers of ten *)

LEMMA DigitsHaveValues == DigitValue \in [Digit -> 0..9]
BY DEF DigitValue, Digit

LEMMA PowersOfTen ==
    /\ TenTo[0] = 1
    /\ \A n \in Nat : TenTo[n] \in Nat /\ TenTo[n] >= 1 /\ TenTo[n + 1] = 10 * TenTo[n]
<1> DEFINE IsTenTo(g) == g = [n \in Nat |-> IF n = 0 THEN 1 ELSE 10 * g[n - 1]]
           step == [x \in Nat \X Nat |-> 10 * x[1]]
<1>1. \E g : IsTenTo(g)
    <2>1. step \in [Nat \X Nat -> Nat] /\ \A m, n \in Nat : step[<<m, n>>] = 10 * m
        OBVIOUS
    <2> HIDE DEF step
    <2>2. PICK g \in [Nat -> Nat] : g[0] = 1 /\ \A n \in Nat : g[n + 1] = step[<<g[n], n>>]
        <3>1. 1 \in Nat /\ step \in [Nat \X Nat -> Nat]
            BY <2>1
        <3>2. PICK g \in [Nat -> Nat] : Recurs(g, 1, step)
            BY <3>1, NumberRecursion
        <3> QED BY <3>2 DEF Recurs
    <2>3. \A n \in Nat : n # 0 => n - 1 \in Nat /\ (n - 1) + 1 = n
        OBVIOUS
    <2>4. \A n \in Nat : g[n] = IF n = 0 THEN 1 ELSE 10 * g[n - 1]
        <3>1. \A n \in Nat : g[n + 1] = 10 * g[n]
            BY <2>1, <2>2
        <3>2. ASSUME NEW n \in Nat, n # 0 PROVE g[n] = 10 * g[n - 1]
            <4>1. g[(n - 1) + 1] = 10 * g[n - 1]
                BY <2>3, <3>1, <3>2
            <4> QED BY <2>3, <3>2, <4>1
        <3> QED BY <2>2, <3>2
    <2> QED BY <2>2, <2>4
<1>2. TenTo = CHOOSE g : IsTenTo(g)
    BY DEF TenTo
<1>3. IsTenTo(TenTo)
    <2> HIDE DEF IsTenTo
    <2> QED BY <1>1, <1>2
<1>4. \A n \in Nat : TenTo[n] = IF n = 0 THEN 1 ELSE 10 * TenTo[n - 1]
    BY <1>3
<1>5. TenTo[0] = 1
    BY <1>4
<1>6. \A n \in Nat : TenTo[n + 1] = 10 * TenTo[n]
    <2> TAKE n \in Nat
    <2>1. n + 1 \in Nat /\ n + 1 # 0 /\ (n + 1) - 1 = n
        OBVIOUS
    <2> QED BY <1>4, <2>1
<1> DEFINE Good == {n \in Nat : TenTo[n] \in Nat /\ TenTo[n] >= 1}
<1>7. 0 \in Good
    BY <1>5
<1>8. ASSUME NEW n \in Good PROVE n + 1 \in Good
    BY <1>6
<1>9. Good = Nat
    <2>1. Good \in SUBSET Nat
        OBVIOUS
    <2> HIDE DEF Good
    <2> QED BY <1>7, <1>8, <2>1, Induction
<1> QED BY <1>5, <1>6, <1>9
=============================================================================
