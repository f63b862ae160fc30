-------------------------- MODULE Indicators_proofs --------------------------
(***************************************************************************)
(* Theorems of Indicators, for prices of any length.                       *)
(*                                                                         *)
(* Recursive functions are reasoned about by induction over a set: the     *)
(* numbers a statement holds of are all numbers if the least one is among  *)
(* them and each is followed by the next.                                  *)
(***************************************************************************)
EXTENDS Indicators, FiniteSetTheorems, WellFoundedInduction, TLAPS

(***************************************************************************)
(* Numbers                                                                 *)
(***************************************************************************)

LEMMA LeastNumber ==
    ASSUME NEW T, T \subseteq Nat, T # {}
    PROVE  \E x \in T : \A y \in T : x <= y
<1>1. PICK x \in T : \A y \in T : ~ (<<y, x>> \in OpToRel(<, Nat))
  BY NatLessThanWellFounded, WFMin
<1>2. \A y \in T : ~ (y < x)
  BY <1>1 DEF OpToRel
<1> QED
  BY <1>2

(* What holds of m, and of the successor of each number it holds of, holds *)
(* of all numbers from m.                                                  *)
LEMMA SetInduction ==
    ASSUME NEW m \in Nat, NEW T, m \in T,
           \A k \in Nat : k >= m /\ k \in T => k + 1 \in T
    PROVE  \A k \in Nat : k >= m => k \in T
<1> DEFINE U == {k \in Nat : k >= m /\ k \notin T}
<1> SUFFICES ASSUME U # {} PROVE FALSE
  OBVIOUS
<1>1. PICK x \in U : \A y \in U : x <= y
  BY LeastNumber
<1>2. x # m /\ x - 1 \in Nat /\ x - 1 >= m
  OBVIOUS
<1>3. x - 1 \in T
  BY <1>1, <1>2
<1> QED
  BY <1>2, <1>3

LEMMA MinOfTwo ==
    ASSUME NEW a \in Int, NEW b \in Int
    PROVE  /\ Min({a, b}) \in {a, b}
           /\ Min({a, b}) <= a /\ Min({a, b}) <= b
<1>1. \E x \in {a, b} : \A y \in {a, b} : x =< y
  OBVIOUS
<1> QED
  BY <1>1 DEF Min

LEMMA MaxOfTwo ==
    ASSUME NEW a \in Int, NEW b \in Int
    PROVE  /\ Max({a, b}) \in {a, b}
           /\ Max({a, b}) >= a /\ Max({a, b}) >= b
<1>1. \E x \in {a, b} : \A y \in {a, b} : x >= y
  OBVIOUS
<1> QED
  BY <1>1 DEF Max

(* What the recursive function computes: it exists on each 0..n, and the   *)
(* one on a longer interval continues it.                                  *)
LEMMA PowerEquation ==
    ASSUME NEW b \in Nat
    PROVE  /\ Power(b, 0) = 1
           /\ \A k \in Nat : Power(b, k + 1) = b * Power(b, k)
           /\ \A k \in Nat : Power(b, k) \in Nat
<1> DEFINE IsPow(f, n) == f = [k \in 0..n |-> IF k = 0 THEN 1 ELSE b * f[k - 1]]
           Pow(n) == CHOOSE f : IsPow(f, n)
           T == {n \in Nat : \E f : IsPow(f, n) /\ \A k \in 0..n : f[k] \in Nat}
<1>1. 0 \in T
  <2>1. IsPow([k \in 0..0 |-> 1], 0)
    OBVIOUS
  <2> QED
    BY <2>1
<1>2. ASSUME NEW n \in Nat, n \in T PROVE n + 1 \in T
  <2>1. PICK f : IsPow(f, n) /\ \A k \in 0..n : f[k] \in Nat
    BY <1>2
  <2> DEFINE g == [k \in 0..(n + 1) |-> IF k = n + 1 THEN b * f[n] ELSE f[k]]
  <2>2. \A k \in 0..(n + 1) : g[k] = IF k = 0 THEN 1 ELSE b * g[k - 1]
    <3>1. \A k \in 0..n : f[k] = IF k = 0 THEN 1 ELSE b * f[k - 1]
      BY <2>1
    <3> QED
      BY <3>1
  <2>3. IsPow(g, n + 1)
    BY <2>2
  <2>4. \A k \in 0..(n + 1) : g[k] \in Nat
    BY <2>1
  <2>5. \E h : IsPow(h, n + 1) /\ \A k \in 0..(n + 1) : h[k] \in Nat
    <3> HIDE DEF g, IsPow
    <3> QED
      BY <2>3, <2>4
  <2> HIDE DEF g, IsPow
  <2> QED
    BY <2>5
<1>3. \A n \in Nat : n \in T
  <2> HIDE DEF T
  <2> QED
    BY <1>1, <1>2, SetInduction
<1>4. ASSUME NEW n \in Nat, NEW m \in Nat, NEW f, NEW g,
             IsPow(f, n), IsPow(g, m), n <= m
      PROVE  \A k \in 0..n : f[k] = g[k]
  <2> DEFINE S == {k \in Nat : k <= n => f[k] = g[k]}
  <2>1. \A k \in 0..n : f[k] = IF k = 0 THEN 1 ELSE b * f[k - 1]
    BY <1>4
  <2>2. \A k \in 0..n : g[k] = IF k = 0 THEN 1 ELSE b * g[k - 1]
    BY <1>4
  <2>3. 0 \in S
    BY <2>1, <2>2
  <2>4. ASSUME NEW k \in Nat, k \in S PROVE k + 1 \in S
    BY <2>1, <2>2, <2>4
  <2> HIDE DEF S
  <2>5. \A k \in Nat : k \in S
    BY <2>3, <2>4, SetInduction
  <2> QED
    BY <2>5 DEF S
<1>5. ASSUME NEW n \in Nat
      PROVE  IsPow(Pow(n), n) /\ Power(b, n) = Pow(n)[n]
  BY <1>3 DEF Power
<1> HIDE DEF IsPow, Pow, T
<1>6. Power(b, 0) = 1
  BY <1>5 DEF IsPow
<1>7. ASSUME NEW n \in Nat PROVE Power(b, n + 1) = b * Power(b, n)
  <2>1. Pow(n + 1)[n + 1] = b * Pow(n + 1)[n]
    BY <1>5 DEF IsPow
  <2>2. Pow(n)[n] = Pow(n + 1)[n]
    BY <1>4, <1>5
  <2> QED
    BY <1>5, <2>1, <2>2
<1>8. ASSUME NEW n \in Nat PROVE Power(b, n) \in Nat
  <2>1. PICK f : IsPow(f, n) /\ \A k \in 0..n : f[k] \in Nat
    BY <1>3 DEF T
  <2>2. Pow(n)[n] = f[n]
    BY <1>4, <1>5, <2>1
  <2> QED
    BY <1>5, <2>1, <2>2
<1> QED
  BY <1>6, <1>7, <1>8

LEMMA PowerPositive ==
    ASSUME NEW b \in Nat, b > 0, NEW k \in Nat
    PROVE  Power(b, k) \in Nat \ {0}
<1> DEFINE T == {n \in Nat : Power(b, n) > 0}
<1>1. 0 \in T
  BY PowerEquation
<1>2. ASSUME NEW n \in Nat, n \in T PROVE n + 1 \in T
  <2>1. /\ Power(b, n + 1) = b * Power(b, n)
        /\ Power(b, n) \in Nat /\ Power(b, n) > 0
    BY <1>2, PowerEquation
  <2>2. \A c, d \in Nat : c > 0 /\ d > 0 => c * d > 0
    OBVIOUS
  <2> QED
    BY <2>1, <2>2
<1>3. k \in T
  <2> HIDE DEF T
  <2> QED
    BY <1>1, <1>2, SetInduction
<1> QED
  BY <1>3, PowerEquation

(***************************************************************************)
(* Sequences                                                               *)
(***************************************************************************)

LEMMA FunctionIsSequence ==
    ASSUME NEW S, NEW n \in Nat, NEW x \in [1..n -> S]
    PROVE  x \in Seq(S) /\ Len(x) = n
OBVIOUS

(* Sequences of integers, as functions                                     *)
Integral(x) ==
    /\ Len(x) \in Nat
    /\ DOMAIN x = 1..Len(x)
    /\ \A i \in 1..Len(x) : x[i] \in Int

LEMMA IntegralFunction ==
    ASSUME NEW n \in Nat, NEW x, DOMAIN x = 1..n, x = [i \in 1..n |-> x[i]],
           \A i \in 1..n : x[i] \in Int
    PROVE  Integral(x) /\ Len(x) = n
<1>1. x \in [1..n -> Int]
  OBVIOUS
<1> QED
  BY <1>1, FunctionIsSequence DEF Integral

(* The values of a sequence have a largest and a smallest one.             *)
LEMMA Extremes ==
    ASSUME NEW x, Integral(x), Len(x) > 0, NEW S, S = {x[i] : i \in DOMAIN x}
    PROVE  /\ Max(S) \in Int /\ \A i \in 1..Len(x) : x[i] <= Max(S)
           /\ Min(S) \in Int /\ \A i \in 1..Len(x) : Min(S) <= x[i]
<1> DEFINE n == Len(x)
           Most(k) == \E j \in 1..k : \A i \in 1..k : x[i] <= x[j]
           Least(k) == \E j \in 1..k : \A i \in 1..k : x[j] <= x[i]
           U == {k \in Nat : k <= n => Most(k) /\ Least(k)}
<1>1. n \in Nat /\ n > 0 /\ DOMAIN x = 1..n
  BY DEF Integral
<1>2. \A i \in 1..n : x[i] \in Int
  BY DEF Integral
<1>3. 1 \in U
  <2>1. ASSUME 1 <= n PROVE Most(1) /\ Least(1)
    <3>1. 1 \in 1..1 /\ x[1] \in Int
      BY <1>1, <1>2
    <3> QED
      BY <3>1
  <2> QED
    BY <2>1
<1>4. ASSUME NEW k \in Nat, k >= 1, k \in U PROVE k + 1 \in U
  <2> SUFFICES ASSUME k + 1 <= n PROVE Most(k + 1) /\ Least(k + 1)
    OBVIOUS
  <2>1. \A i \in 1..(k + 1) : x[i] \in Int /\ (i = k + 1 \/ i \in 1..k)
    BY <1>1, <1>2, <1>4
  <2>2. k <= n /\ k + 1 \in 1..(k + 1) /\ 1..k \subseteq 1..(k + 1)
    BY <1>1, <1>4
  <2>3. PICK j \in 1..k : \A i \in 1..k : x[i] <= x[j]
    BY <1>4, <2>2
  <2>4. PICK m \in 1..k : \A i \in 1..k : x[m] <= x[i]
    BY <1>4, <2>2
  <2>5. Most(k + 1)
    <3>1. CASE x[k + 1] <= x[j]
      BY <2>1, <2>2, <2>3, <3>1
    <3>2. CASE ~ (x[k + 1] <= x[j])
      <4>1. \A i \in 1..(k + 1) : x[i] <= x[k + 1]
        BY <2>1, <2>2, <2>3, <3>2
      <4> QED
        BY <2>2, <4>1
    <3> QED
      BY <3>1, <3>2
  <2>6. Least(k + 1)
    <3>1. CASE x[m] <= x[k + 1]
      BY <2>1, <2>2, <2>4, <3>1
    <3>2. CASE ~ (x[m] <= x[k + 1])
      <4>1. \A i \in 1..(k + 1) : x[k + 1] <= x[i]
        BY <2>1, <2>2, <2>4, <3>2
      <4> QED
        BY <2>2, <4>1
    <3> QED
      BY <3>1, <3>2
  <2> QED
    BY <2>5, <2>6
<1>5. n \in U
  <2> HIDE DEF U
  <2>1. \A k \in Nat : k >= 1 => k \in U
    BY <1>3, <1>4, SetInduction
  <2> QED
    BY <1>1, <2>1
<1>6. PICK j \in 1..n : \A i \in 1..n : x[i] <= x[j]
  BY <1>1, <1>5
<1>7. PICK m \in 1..n : \A i \in 1..n : x[m] <= x[i]
  BY <1>1, <1>5
<1>8. Max(S) \in S /\ \A y \in S : Max(S) >= y
  <2>1. x[j] \in S /\ \A y \in S : x[j] >= y
    BY <1>1, <1>2, <1>6
  <2> QED
    BY <2>1 DEF Max
<1>9. Min(S) \in S /\ \A y \in S : Min(S) =< y
  <2>1. x[m] \in S /\ \A y \in S : x[m] =< y
    BY <1>1, <1>7
  <2> QED
    BY <2>1 DEF Min
<1>10. \A i \in 1..n : x[i] \in S
  BY <1>1
<1>11. S \subseteq Int
  BY <1>1, <1>2
<1> HIDE DEF U, Most, Least
<1>12. Max(S) \in Int /\ Min(S) \in Int
  BY <1>8, <1>9, <1>11
<1> QED
  BY <1>2, <1>8, <1>9, <1>10, <1>12

(***************************************************************************)
(* The moving average                                                      *)
(***************************************************************************)

LEMMA LinearInt ==
    ASSUME NEW a \in Int, NEW b \in Int, NEW c \in Int, NEW d \in Int
    PROVE  2 * a * b + c * d \in Int
OBVIOUS

(* The recursive function exists, and all its values are integers.         *)
LEMMA EmaEquation ==
    ASSUME NEW x, Integral(x), NEW p \in Nat \ {0}
    PROVE  /\ Len(x) > 0 => Ema(x, p)[1] = x[1]
           /\ \A k \in 1..(Len(x) - 1) :
                Ema(x, p)[k + 1] = 2 * Power(p + 1, k - 1) * x[k + 1]
                                        + (p - 1) * Ema(x, p)[k]
           /\ \A k \in 1..Len(x) : Ema(x, p)[k] \in Int
<1> DEFINE Step(e, k) == IF k = 1 THEN x[1]
                         ELSE 2 * Power(p + 1, k - 2) * x[k] + (p - 1) * e[k - 1]
           IsEma(e, n) == e = [k \in 1..n |-> Step(e, k)]
           T == {n \in Nat : \E e : IsEma(e, n)}
<1>1. /\ Len(x) \in Nat
      /\ \A k \in 1..Len(x) : x[k] \in Int
      /\ \A k \in Nat : Power(p + 1, k) \in Nat
  <2>1. p + 1 \in Nat
    OBVIOUS
  <2> QED
    BY <2>1, PowerEquation DEF Integral
<1>2. 0 \in T
  <2>1. IsEma([k \in 1..0 |-> 0], 0)
    OBVIOUS
  <2> HIDE DEF IsEma
  <2> QED
    BY <2>1
<1>3. ASSUME NEW n \in Nat, n \in T PROVE n + 1 \in T
  <2>1. PICK e : IsEma(e, n)
    BY <1>3
  <2> DEFINE g == [k \in 1..(n + 1) |-> IF k = n + 1 THEN Step(e, n + 1) ELSE e[k]]
  <2>2. \A k \in 1..n : e[k] = Step(e, k)
    <3> HIDE DEF Step
    <3> QED
      BY <2>1
  <2>3. \A k \in 1..(n + 1) : Step(g, k) = Step(e, k)
    OBVIOUS
  <2>4. \A k \in 1..(n + 1) : g[k] = Step(g, k)
    <3> HIDE DEF Step
    <3> QED
      BY <2>2, <2>3
  <2>5. IsEma(g, n + 1)
    <3> HIDE DEF Step
    <3> QED
      BY <2>4
  <2> HIDE DEF g, IsEma
  <2> QED
    BY <2>5
<1> HIDE DEF T, IsEma, Step
<1>4. \A n \in Nat : n \in T
  <2> QED
    BY <1>2, <1>3, SetInduction
<1> USE DEF T, IsEma, Step
<1>5. Ema(x, p) = CHOOSE e : IsEma(e, Len(x))
  BY DEF Ema
<1>6. IsEma(Ema(x, p), Len(x))
  <2> HIDE DEF IsEma
  <2> QED
    BY <1>1, <1>4, <1>5
<1>7. \A k \in 1..Len(x) : Ema(x, p)[k] = Step(Ema(x, p), k)
  <2> HIDE DEF Step
  <2> QED
    BY <1>6
<1>8. Len(x) > 0 => Ema(x, p)[1] = x[1]
  BY <1>1, <1>7
<1>9. ASSUME NEW k \in 1..(Len(x) - 1)
      PROVE  Ema(x, p)[k + 1] = 2 * Power(p + 1, k - 1) * x[k + 1]
                                        + (p - 1) * Ema(x, p)[k]
  <2>1. k + 1 \in 1..Len(x) /\ k + 1 # 1 /\ (k + 1) - 2 = k - 1 /\ (k + 1) - 1 = k
    BY <1>1
  <2>2. Ema(x, p)[k + 1] = Step(Ema(x, p), k + 1)
    BY <1>7, <2>1
  <2> QED
    BY <2>1, <2>2
<1> HIDE DEF T, IsEma, Step
<1>10. \A k \in 1..Len(x) : Ema(x, p)[k] \in Int
  <2> DEFINE S == {k \in Nat : k \in 1..Len(x) => Ema(x, p)[k] \in Int}
  <2>1. 1 \in S
    <3>1. 1 \in 1..Len(x) => Len(x) > 0 /\ x[1] \in Int
      BY <1>1
    <3>2. 1 \in 1..Len(x) => Ema(x, p)[1] \in Int
      BY <1>8, <3>1
    <3> QED
      BY <3>2
  <2>2. ASSUME NEW k \in Nat, k >= 1, k \in S PROVE k + 1 \in S
    <3> SUFFICES ASSUME k + 1 \in 1..Len(x) PROVE Ema(x, p)[k + 1] \in Int
      OBVIOUS
    <3>1. k \in 1..(Len(x) - 1) /\ k - 1 \in Nat
      BY <1>1, <2>2
    <3>2. /\ Power(p + 1, k - 1) \in Int /\ x[k + 1] \in Int
          /\ p - 1 \in Int
      BY <1>1, <3>1
    <3>3. Ema(x, p)[k] \in Int
      <4>1. k \in 1..Len(x)
        BY <1>1, <3>1
      <4> QED
        BY <2>2, <4>1
    <3>4. 2 * Power(p + 1, k - 1) * x[k + 1] + (p - 1) * Ema(x, p)[k] \in Int
      BY <3>2, <3>3, LinearInt
    <3> QED
      BY <1>9, <3>1, <3>4
  <2> HIDE DEF S
  <2>3. \A k \in Nat : k >= 1 => k \in S
    BY <2>1, <2>2, SetInduction
  <2> QED
    BY <2>3 DEF S
<1> QED
  BY <1>8, <1>9, <1>10

(***************************************************************************)
(* Sums                                                                    *)
(***************************************************************************)

(* The element that a sum takes first                                      *)
One(T) == CHOOSE i \in T : TRUE

(* The function that SumFunctionOnSet(f, S) applies to S                   *)
AddUp(h, f, T) == IF T = {} THEN 0 ELSE f[One(T)] + h[T \ {One(T)}]
IsSum(h, f, S) == h = [T \in SUBSET S |-> AddUp(h, f, T)]

LEMMA OneOf ==
    ASSUME NEW T, T # {}
    PROVE  One(T) \in T
BY DEF One

LEMMA OneLess ==
    ASSUME NEW T, IsFiniteSet(T), NEW a \in T
    PROVE  /\ Cardinality(T) \in Nat /\ Cardinality(T) > 0
           /\ Cardinality(T \ {a}) = Cardinality(T) - 1
<1>1. Cardinality(T) \in Nat /\ Cardinality(T \ {a}) \in Nat
  BY FS_CardinalityType, FS_RemoveElement
<1>2. Cardinality(T \ {a}) = Cardinality(T) - 1
  BY FS_RemoveElement
<1> QED
  BY <1>1, <1>2

LEMMA SumDefined ==
    ASSUME NEW S, IsFiniteSet(S), NEW f
    PROVE  \E h : IsSum(h, f, S) /\ SumFunctionOnSet(f, S) = h[S]
<1> DEFINE Sub(n) == {R \in SUBSET S : Cardinality(R) <= n}
           Up(h, n) == h = [R \in Sub(n) |-> AddUp(h, f, R)]
           U == {n \in Nat : \E h : Up(h, n)}
<1>1. \A R \in SUBSET S : IsFiniteSet(R) /\ Cardinality(R) \in Nat
  BY FS_Subset, FS_CardinalityType
<1>2. 0 \in U
  <2> DEFINE h == [R \in Sub(0) |-> 0]
  <2>1. ASSUME NEW R \in Sub(0) PROVE AddUp(h, f, R) = 0
    <3>1. R = {}
      BY <1>1, FS_EmptySet
    <3> QED
      BY <3>1 DEF AddUp
  <2>2. h = [R \in Sub(0) |-> AddUp(h, f, R)]
    <3> HIDE DEF Sub
    <3> QED
      BY <2>1
  <2> HIDE DEF h, Sub
  <2> QED
    BY <2>2
<1>3. ASSUME NEW n \in Nat, n \in U PROVE n + 1 \in U
  <2>1. PICK h : Up(h, n)
    BY <1>3
  <2> DEFINE g == [R \in Sub(n + 1) |->
                        IF Cardinality(R) <= n THEN h[R] ELSE AddUp(h, f, R)]
  <2>2. ASSUME NEW R \in Sub(n), R \in Sub(n + 1) PROVE h[R] = AddUp(h, f, R)
    <3> HIDE DEF Sub
    <3> QED
      BY <2>1, <2>2
  <2>3. ASSUME NEW R \in Sub(n + 1) PROVE AddUp(g, f, R) = AddUp(h, f, R)
    <3>1. CASE R = {}
      BY <3>1 DEF AddUp
    <3>2. CASE R # {}
      <4> DEFINE L == R \ {One(R)}
      <4>1. Cardinality(L) = Cardinality(R) - 1 /\ Cardinality(R) \in Nat
        BY <1>1, <3>2, OneOf, OneLess
      <4>2. Cardinality(L) <= n /\ L \in Sub(n + 1)
        BY <4>1
      <4>3. g[L] = h[L]
        BY <4>2
      <4> QED
        BY <3>2, <4>3 DEF AddUp
    <3> QED
      BY <3>1, <3>2
  <2>4. ASSUME NEW R \in Sub(n + 1) PROVE g[R] = AddUp(g, f, R)
    <3>1. CASE Cardinality(R) <= n
      BY <2>2, <2>3, <3>1
    <3>2. CASE ~ (Cardinality(R) <= n)
      BY <2>3, <3>2
    <3> QED
      BY <3>1, <3>2
  <2>5. g = [R \in Sub(n + 1) |-> AddUp(g, f, R)]
    <3> HIDE DEF Sub
    <3> QED
      BY <2>4
  <2> HIDE DEF g, Sub
  <2> QED
    BY <2>5
<1> HIDE DEF U
<1>4. \A n \in Nat : n \in U
  BY <1>2, <1>3, SetInduction
<1> USE DEF U
<1>5. PICK h : Up(h, Cardinality(S))
  BY <1>1, <1>4
<1>6. Sub(Cardinality(S)) = SUBSET S
  BY <1>1, FS_Subset
<1>7. IsSum(h, f, S)
  BY <1>5, <1>6 DEF IsSum
<1> DEFINE c == CHOOSE e : IsSum(e, f, S)
<1>8. SumFunctionOnSet(f, S) = c[S]
  BY DEF SumFunctionOnSet, FoldFunctionOnSet, MapThenFoldSet, IsSum, AddUp, One
<1>9. IsSum(c, f, S)
  BY <1>7
<1> HIDE DEF c
<1> QED
  BY <1>8, <1>9

(* Sums of functions with the same values are the same.                    *)
LEMMA SumsAgree ==
    ASSUME NEW S, IsFiniteSet(S), NEW f, NEW h, IsSum(h, f, S),
           NEW R \in SUBSET S, NEW e, NEW g, IsSum(g, e, R),
           \A i \in R : f[i] = e[i]
    PROVE  h[R] = g[R]
<1> DEFINE U == {n \in Nat : \A T \in SUBSET R : Cardinality(T) = n => h[T] = g[T]}
<1>1. \A T \in SUBSET R : IsFiniteSet(T) /\ Cardinality(T) \in Nat
  BY FS_Subset, FS_CardinalityType
<1>2. \A T \in SUBSET R : h[T] = AddUp(h, f, T) /\ g[T] = AddUp(g, e, T)
  BY DEF IsSum
<1>3. 0 \in U
  <2>1. ASSUME NEW T \in SUBSET R, Cardinality(T) = 0 PROVE h[T] = g[T]
    <3>1. T = {}
      BY <1>1, <2>1, FS_EmptySet
    <3> QED
      BY <1>2, <3>1 DEF AddUp
  <2> QED
    BY <2>1
<1>4. ASSUME NEW n \in Nat, n \in U PROVE n + 1 \in U
  <2>1. ASSUME NEW T \in SUBSET R, Cardinality(T) = n + 1 PROVE h[T] = g[T]
    <3>1. T # {}
      BY <2>1, FS_EmptySet
    <3>2. One(T) \in T
      BY <3>1, OneOf
    <3>3. Cardinality(T \ {One(T)}) = n
      BY <1>1, <2>1, <3>2, OneLess
    <3>4. h[T \ {One(T)}] = g[T \ {One(T)}]
      BY <1>4, <3>3
    <3>5. f[One(T)] = e[One(T)]
      BY <3>2
    <3> QED
      BY <1>2, <3>1, <3>4, <3>5 DEF AddUp
  <2> QED
    BY <2>1
<1>5. \A n \in Nat : n \in U
  <2> HIDE DEF U
  <2> QED
    BY <1>3, <1>4, SetInduction
<1> QED
  BY <1>1, <1>5

(* Any element may be taken first.                                         *)
LEMMA SumRemoves ==
    ASSUME NEW S, IsFiniteSet(S), NEW f, NEW h, IsSum(h, f, S),
           \A i \in S : f[i] \in Int
    PROVE  \A T \in SUBSET S :
                h[T] \in Int /\ \A a \in T : h[T] = f[a] + h[T \ {a}]
<1> DEFINE Removes(T) == h[T] \in Int /\ \A a \in T : h[T] = f[a] + h[T \ {a}]
           U == {n \in Nat : \A T \in SUBSET S : Cardinality(T) <= n => Removes(T)}
<1>1. \A T \in SUBSET S : IsFiniteSet(T) /\ Cardinality(T) \in Nat
  BY FS_Subset, FS_CardinalityType
<1>2. \A T \in SUBSET S : h[T] = AddUp(h, f, T)
  BY DEF IsSum
<1>3. 0 \in U
  <2>1. ASSUME NEW T \in SUBSET S, Cardinality(T) <= 0 PROVE Removes(T)
    <3>1. T = {}
      <4>1. Cardinality(T) = 0 /\ IsFiniteSet(T)
        BY <1>1, <2>1
      <4> QED
        BY <4>1, FS_EmptySet
    <3>2. h[T] = 0
      BY <1>2, <3>1 DEF AddUp
    <3> QED
      BY <3>1, <3>2
  <2> HIDE DEF Removes
  <2> QED
    BY <2>1
<1>4. ASSUME NEW n \in Nat, n \in U PROVE n + 1 \in U
  <2>1. ASSUME NEW T \in SUBSET S, Cardinality(T) = n + 1 PROVE Removes(T)
    <3> DEFINE c == One(T)
    <3>1. T # {}
      BY <2>1, FS_EmptySet
    <3>2. c \in T /\ f[c] \in Int
      BY <3>1, OneOf
    <3>3. \A a \in T : Cardinality(T \ {a}) = n
      BY <1>1, <2>1, OneLess
    <3>4. \A a \in T : Removes(T \ {a})
      <4> HIDE DEF Removes
      <4> QED
        BY <1>4, <3>3
    <3>5. h[T] = f[c] + h[T \ {c}]
      BY <1>2, <3>1 DEF AddUp
    <3>6. ASSUME NEW a \in T, a # c PROVE h[T] = f[a] + h[T \ {a}]
      <4>1. h[T \ {c}] = f[a] + h[(T \ {c}) \ {a}]
        BY <3>2, <3>4, <3>6
      <4>2. h[T \ {a}] = f[c] + h[(T \ {a}) \ {c}]
        BY <3>2, <3>4, <3>6
      <4>3. (T \ {c}) \ {a} = (T \ {a}) \ {c}
        OBVIOUS
      <4>4. h[T \ {c}] \in Int /\ h[T \ {a}] \in Int
        BY <3>2, <3>4
      <4>5. h[(T \ {c}) \ {a}] \in Int
        <5>1. a \in T \ {c} /\ T \ {c} \in SUBSET S
          BY <3>6
        <5>2. Cardinality((T \ {c}) \ {a}) <= n
          <6>1. Cardinality(T \ {c}) = n /\ IsFiniteSet(T \ {c})
            BY <1>1, <3>2, <3>3, <5>1
          <6>2. Cardinality((T \ {c}) \ {a}) = Cardinality(T \ {c}) - 1
            BY <5>1, <6>1, OneLess
          <6> QED
            BY <6>1, <6>2
        <5> HIDE DEF c
        <5> QED
          BY <1>4, <5>1, <5>2
      <4>6. h[(T \ {a}) \ {c}] = h[(T \ {c}) \ {a}] /\ f[a] \in Int
        BY <4>3
      <4> DEFINE rest == h[(T \ {c}) \ {a}]
      <4>7. h[T] = f[c] + (f[a] + rest)
        BY <3>5, <4>1
      <4>8. h[T \ {a}] = f[c] + rest
        BY <4>2, <4>6
      <4>9. rest \in Int
        BY <4>5
      <4> HIDE DEF rest, c
      <4> QED
        BY <3>2, <4>6, <4>7, <4>8, <4>9
    <3>7. h[T] \in Int
      BY <3>2, <3>4, <3>5
    <3> QED
      BY <3>5, <3>6, <3>7
  <2>2. ASSUME NEW T \in SUBSET S, Cardinality(T) <= n + 1 PROVE Removes(T)
    <3>1. Cardinality(T) = n + 1 \/ Cardinality(T) <= n
      BY <1>1, <2>2
    <3> HIDE DEF Removes
    <3> QED
      BY <1>4, <2>1, <3>1
  <2> HIDE DEF Removes
  <2> QED
    BY <2>2
<1>5. \A n \in Nat : n \in U
  <2> HIDE DEF U
  <2> QED
    BY <1>3, <1>4, SetInduction
<1>6. \A T \in SUBSET S : Removes(T)
  <2> HIDE DEF Removes
  <2> QED
    BY <1>1, <1>5
<1> QED
  BY <1>6

(* The sum of the values of f on a finite set, in integers                 *)
LEMMA SumOnSet ==
    ASSUME NEW S, IsFiniteSet(S), NEW f, \A i \in S : f[i] \in Int
    PROVE  /\ SumFunctionOnSet(f, {}) = 0
           /\ SumFunctionOnSet(f, S) \in Int
           /\ \A a \in S : SumFunctionOnSet(f, S)
                                = f[a] + SumFunctionOnSet(f, S \ {a})
<1>1. PICK h : IsSum(h, f, S) /\ SumFunctionOnSet(f, S) = h[S]
  BY SumDefined
<1>2. ASSUME NEW R \in SUBSET S PROVE SumFunctionOnSet(f, R) = h[R]
  <2>1. PICK g : IsSum(g, f, R) /\ SumFunctionOnSet(f, R) = g[R]
    BY SumDefined, FS_Subset
  <2> QED
    BY <1>1, <2>1, SumsAgree
<1>3. SumFunctionOnSet(f, {}) = 0
  <2>1. {} \in SUBSET S
    OBVIOUS
  <2>2. h[{}] = AddUp(h, f, {})
    BY <1>1, <2>1 DEF IsSum
  <2>3. AddUp(h, f, {}) = 0
    BY DEF AddUp
  <2> QED
    BY <1>2, <2>1, <2>2, <2>3
<1>4. \A T \in SUBSET S : h[T] \in Int /\ \A a \in T : h[T] = f[a] + h[T \ {a}]
  <2>1. IsSum(h, f, S)
    BY <1>1
  <2>2. \A i \in S : f[i] \in Int
    OBVIOUS
  <2> QED
    BY ONLY IsFiniteSet(S), <2>1, <2>2, SumRemoves, SMTT(30)
<1>5. h[S] \in Int
  BY <1>4
<1>6. ASSUME NEW a \in S
      PROVE  SumFunctionOnSet(f, S) = f[a] + SumFunctionOnSet(f, S \ {a})
  BY <1>1, <1>2, <1>4
<1> QED
  BY <1>1, <1>3, <1>5, <1>6

(* Functions with the same values have the same sum.                       *)
LEMMA SumOfSame ==
    ASSUME NEW S, IsFiniteSet(S), NEW f, NEW g, \A i \in S : f[i] = g[i]
    PROVE  SumFunctionOnSet(f, S) = SumFunctionOnSet(g, S)
BY SumDefined, SumsAgree

(* The sum over an interval, from its last value                           *)
LEMMA SumTo ==
    ASSUME NEW m \in Int, NEW n \in Int, m <= n + 1, NEW f,
           \A i \in m..(n + 1) : f[i] \in Int
    PROVE  /\ SumFunctionOnSet(f, m..n) \in Int
           /\ SumFunctionOnSet(f, m..(n + 1)) = f[n + 1] + SumFunctionOnSet(f, m..n)
<1>1. IsFiniteSet(m..(n + 1)) /\ IsFiniteSet(m..n)
  BY FS_Interval
<1>2. (m..(n + 1)) \ {n + 1} = m..n /\ n + 1 \in m..(n + 1)
  OBVIOUS
<1>3. \A i \in m..n : f[i] \in Int
  OBVIOUS
<1>4. SumFunctionOnSet(f, m..n) \in Int
  BY <1>1, <1>3, SumOnSet
<1>5. SumFunctionOnSet(f, m..(n + 1))
            = f[n + 1] + SumFunctionOnSet(f, (m..(n + 1)) \ {n + 1})
  BY <1>1, <1>2, SumOnSet
<1> QED
  BY <1>2, <1>4, <1>5

LEMMA Distributes ==
    ASSUME NEW c \in Int, NEW a \in Int, NEW b \in Int
    PROVE  c * (a + b) = c * a + c * b
OBVIOUS

LEMMA SumScales ==
    ASSUME NEW n \in Nat, NEW m \in 1..(n + 1), NEW c \in Int, NEW f, NEW g,
           \A i \in m..n : f[i] \in Int /\ g[i] = c * f[i]
    PROVE  SumFunctionOnSet(g, m..n) = c * SumFunctionOnSet(f, m..n)
<1> DEFINE Total(e, k) == SumFunctionOnSet(e, m..k)
           U == {k \in Nat : k <= n => Total(g, k) = c * Total(f, k)}
<1>1. m - 1 \in U
  <2>1. m..(m - 1) = {} /\ m - 1 \in Nat
    OBVIOUS
  <2>2. SumFunctionOnSet(g, {}) = 0 /\ SumFunctionOnSet(f, {}) = 0
    BY SumOnSet, FS_EmptySet
  <2> QED
    BY <2>1, <2>2
<1>2. ASSUME NEW k \in Nat, k >= m - 1, k \in U PROVE k + 1 \in U
  <2> SUFFICES ASSUME k + 1 <= n PROVE Total(g, k + 1) = c * Total(f, k + 1)
    OBVIOUS
  <2>1. \A i \in m..(k + 1) : f[i] \in Int /\ g[i] = c * f[i]
    OBVIOUS
  <2>2. \A i \in m..(k + 1) : g[i] \in Int
    BY <2>1
  <2>3. m \in Int /\ k \in Int /\ m <= k + 1
    BY <1>2
  <2>4. Total(f, k) \in Int /\ Total(f, k + 1) = f[k + 1] + Total(f, k)
    BY <2>1, <2>3, SumTo
  <2>5. Total(g, k) \in Int /\ Total(g, k + 1) = g[k + 1] + Total(g, k)
    BY <2>2, <2>3, SumTo
  <2>6. k + 1 \in m..(k + 1)
    BY <2>3
  <2>7. Total(g, k) = c * Total(f, k)
    BY <1>2
  <2> HIDE DEF Total
  <2> QED
    BY <2>1, <2>4, <2>5, <2>6, <2>7, Distributes
<1>3. \A k \in Nat : k >= m - 1 => k \in U
  <2>1. m - 1 \in Nat
    OBVIOUS
  <2> HIDE DEF U
  <2> QED
    BY <1>1, <1>2, <2>1, SetInduction
<1> QED
  BY <1>3

(* The exponential moving average is the weighted mean it is meant to be,  *)
(* whatever the prices and the period (ema).                               *)
THEOREM EmaIsWeightedMean ==
    ASSUME NEW x, Integral(x), Len(x) > 0, NEW p \in Nat \ {0}
    PROVE  LastEma(x, p) = WeightedMean(x, p)
<1> DEFINE n == Len(x)
           G(k) == [i \in 2..k |->
                        2 * Power(p - 1, k - i) * Power(p + 1, i - 2) * x[i]]
           Mean(k) == Power(p - 1, k - 1) * x[1] + SumFunctionOnSet(G(k), 2..k)
           U == {k \in Nat : k <= n => Ema(x, p)[k] = Mean(k)}
<1>1. n \in Nat \ {0}
  BY DEF Integral
<1>2. n \in Nat \ {0} /\ \A i \in 1..n : x[i] \in Int
  BY DEF Integral
<1>3. ASSUME NEW k \in Nat
      PROVE  Power(p - 1, k) \in Int /\ Power(p + 1, k) \in Int
  <2>1. p - 1 \in Nat /\ p + 1 \in Nat
    OBVIOUS
  <2>2. Power(p - 1, k) \in Nat /\ Power(p + 1, k) \in Nat
    BY <2>1, PowerEquation
  <2> QED
    BY <2>2
<1>4. /\ Power(p - 1, 0) = 1
      /\ \A k \in Nat : Power(p - 1, k + 1) = (p - 1) * Power(p - 1, k)
  <2>1. p - 1 \in Nat
    OBVIOUS
  <2> QED
    BY <2>1, PowerEquation
<1>5. ASSUME NEW k \in Nat, NEW i \in 2..k, k <= n PROVE G(k)[i] \in Int
  <2>1. Power(p - 1, k - i) \in Int /\ Power(p + 1, i - 2) \in Int /\ x[i] \in Int
    <3>1. k - i \in Nat /\ i - 2 \in Nat /\ i \in 1..n
      BY <1>1, <1>5
    <3> QED
      BY <1>2, <1>3, <3>1
  <2> DEFINE a == Power(p - 1, k - i)
             b == Power(p + 1, i - 2)
  <2>2. G(k)[i] = 2 * a * b * x[i]
    OBVIOUS
  <2> HIDE DEF a, b, G
  <2>3. a \in Int /\ b \in Int
    BY <2>1 DEF a, b
  <2> DEFINE c == x[i]
  <2>4. c \in Int
    BY <2>1
  <2> HIDE DEF c
  <2>5. 2 * a * b * c \in Int
    BY <2>3, <2>4
  <2> QED
    BY <2>2, <2>5 DEF c
<1>6. 1 \in U
  <2>1. SumFunctionOnSet(G(1), 2..1) = 0
    <3>1. 2..1 = {} /\ IsFiniteSet({})
      BY FS_EmptySet
    <3> HIDE DEF G
    <3> QED
      BY <3>1, SumOnSet
  <2>2. Ema(x, p)[1] = x[1]
    BY <1>2, EmaEquation
  <2>3. x[1] \in Int /\ Power(p - 1, 1 - 1) = 1
    BY <1>2, <1>4
  <2> HIDE DEF G
  <2> QED
    BY <2>1, <2>2, <2>3
<1>7. ASSUME NEW k \in Nat, k >= 1, k \in U PROVE k + 1 \in U
  <2> SUFFICES ASSUME k + 1 <= n PROVE Ema(x, p)[k + 1] = Mean(k + 1)
    OBVIOUS
  <2> DEFINE S == SumFunctionOnSet(G(k), 2..k)
             P == Power(p - 1, k - 1)
             Q == 2 * Power(p + 1, k - 1) * x[k + 1]
  <2>1. Ema(x, p)[k + 1] = Q + (p - 1) * Ema(x, p)[k]
    BY <1>2, <1>7, EmaEquation
  <2>2. Ema(x, p)[k] = P * x[1] + S
    BY <1>7
  <2>3. SumFunctionOnSet(G(k + 1), 2..(k + 1))
            = G(k + 1)[k + 1] + SumFunctionOnSet(G(k + 1), 2..k)
    <3>1. \A i \in 2..(k + 1) : G(k + 1)[i] \in Int
      BY <1>5
    <3> HIDE DEF G
    <3> QED
      BY <1>7, <3>1, SumTo
  <2>4. G(k + 1)[k + 1] = Q
    <3>1. k + 1 \in 2..(k + 1) /\ (k + 1) - (k + 1) = 0 /\ (k + 1) - 2 = k - 1
      BY <1>7
    <3>2. G(k + 1)[k + 1] = 2 * 1 * Power(p + 1, k - 1) * x[k + 1]
      BY <1>4, <3>1
    <3> QED
      BY <3>2
  <2>5. SumFunctionOnSet(G(k + 1), 2..k) = (p - 1) * S
    <3>1. ASSUME NEW i \in 2..k
          PROVE  G(k)[i] \in Int /\ G(k + 1)[i] = (p - 1) * G(k)[i]
      <4>1. k - i \in Nat /\ (k + 1) - i = (k - i) + 1 /\ i - 2 \in Nat
        OBVIOUS
      <4>2. Power(p - 1, (k + 1) - i) = (p - 1) * Power(p - 1, k - i)
        BY <1>4, <4>1
      <4> DEFINE a == Power(p - 1, k - i)
                 b == Power(p + 1, i - 2)
      <4>3. a \in Int /\ b \in Int /\ x[i] \in Int /\ p - 1 \in Int
        <5>1. i \in 1..n
          BY <1>1, <1>7
        <5> QED
          <6>1. a \in Int /\ b \in Int
            BY <1>3, <4>1
          <6> QED
            BY <1>2, <5>1, <6>1
      <4>4. G(k)[i] = 2 * a * b * x[i] /\ G(k + 1)[i] = 2 * ((p - 1) * a) * b * x[i]
        BY <4>2
      <4>5. G(k)[i] \in Int
        <5>1. k <= n
          BY <1>2
        <5> QED
          BY <1>5, <5>1
      <4> DEFINE c == x[i]
                 q == p - 1
      <4>6. c \in Int /\ q \in Int
        BY <4>3
      <4> HIDE DEF a, b, c, q, G
      <4>7. 2 * (q * a) * b * c = q * (2 * a * b * c)
        BY <4>3, <4>6
      <4> QED
        BY <4>4, <4>5, <4>7 DEF c, q
    <3>2. 2 \in 1..(k + 1) /\ p - 1 \in Int
      BY <1>7
    <3> HIDE DEF G
    <3> QED
      BY <3>1, <3>2, SumScales
  <2>6. Power(p - 1, (k + 1) - 1) = (p - 1) * P
    BY <1>4, <1>7
  <2>7. S \in Int
    <3>1. \A i \in 2..k : G(k)[i] \in Int
      <4>1. k <= n
        BY <1>2
      <4> QED
        BY <1>5, <4>1
    <3>2. IsFiniteSet(2..k)
      BY FS_Interval
    <3> HIDE DEF G
    <3> QED
      BY <3>1, <3>2, SumOnSet
  <2>8. P \in Int /\ x[1] \in Int /\ Q \in Int /\ p - 1 \in Int
    <3>1. k - 1 \in Nat /\ k + 1 \in 1..n /\ 1 \in 1..n
      BY <1>1, <1>7
    <3>2. Power(p - 1, k - 1) \in Int /\ Power(p + 1, k - 1) \in Int
      BY <1>3, <3>1
    <3>3. x[1] \in Int /\ x[k + 1] \in Int
      BY <1>2, <3>1
    <3> QED
      BY <3>2, <3>3
  <2>9. Mean(k + 1) = ((p - 1) * P) * x[1] + (Q + (p - 1) * S)
    BY <2>3, <2>4, <2>5, <2>6
  <2>10. Ema(x, p)[k + 1] = Q + (p - 1) * (P * x[1] + S)
    BY <2>1, <2>2
  <2> DEFINE c == x[1]
             q == p - 1
  <2>11. c \in Int /\ q \in Int
    BY <2>8
  <2> HIDE DEF S, P, Q, Mean, c, q
  <2>12. Q + q * (P * c + S) = (q * P) * c + (Q + q * S)
    BY <2>7, <2>8, <2>11
  <2> QED
    BY <2>9, <2>10, <2>12 DEF c, q
<1>8. n \in U
  <2> HIDE DEF U
  <2>1. \A k \in Nat : k >= 1 => k \in U
    BY <1>6, <1>7, SetInduction
  <2> QED
    BY <1>2, <2>1
<1>9. WeightedMean(x, p) = Mean(n)
  BY DEF WeightedMean, SumFunction
<1> HIDE DEF Mean
<1> QED
  BY <1>2, <1>8, <1>9 DEF LastEma

LEMMA ProductNonnegative ==
    ASSUME NEW a \in Int, NEW b \in Int, a >= 0, b >= 0
    PROVE  /\ a * b \in Int /\ a * b >= 0
           /\ a > 0 /\ b > 0 => a * b > 0
OBVIOUS

(* The average of values that are not negative, from a value on: it stays  *)
(* positive if it does not forget (p > 1).                                 *)
LEMMA EmaSigns ==
    ASSUME NEW x, Integral(x), NEW p \in Nat \ {0},
           \A i \in 1..Len(x) : x[i] >= 0
    PROVE  /\ \A k \in 1..Len(x) : Ema(x, p)[k] \in Int /\ Ema(x, p)[k] >= 0
           /\ \A k \in 1..Len(x), j \in 1..Len(x) :
                p > 1 /\ j <= k /\ x[j] > 0 => Ema(x, p)[k] > 0
<1> DEFINE n == Len(x)
           E(k) == Ema(x, p)[k]
           U == {k \in Nat : k <= n =>
                    /\ E(k) >= 0
                    /\ p > 1 => \A j \in 1..k : x[j] > 0 => E(k) > 0}
<1>1. n \in Nat
  BY DEF Integral
<1>2. \A i \in 1..n : x[i] \in Int /\ x[i] >= 0
  BY DEF Integral
<1>3. \A k \in 1..n : E(k) \in Int
  BY EmaEquation
<1>4. n > 0 => E(1) = x[1]
  BY EmaEquation
<1>5. 1 \in U
  <2> SUFFICES ASSUME 1 <= n
               PROVE  E(1) >= 0 /\ \A j \in 1..1 : x[j] > 0 => E(1) > 0
    OBVIOUS
  <2>1. 1 \in 1..n
    BY <1>1
  <2> HIDE DEF E, n
  <2> QED
    BY <1>1, <1>2, <1>4, <2>1
<1>6. ASSUME NEW k \in Nat, k >= 1, k \in U PROVE k + 1 \in U
  <2> SUFFICES ASSUME k + 1 <= n
               PROVE  /\ E(k + 1) >= 0
                      /\ p > 1 => \A j \in 1..(k + 1) : x[j] > 0 => E(k + 1) > 0
    OBVIOUS
  <2> DEFINE a == Power(p + 1, k - 1)
             b == x[k + 1]
             c == p - 1
             d == E(k)
  <2>1. E(k + 1) = 2 * a * b + c * d
    <3>1. k \in 1..(n - 1)
      BY <1>1, <1>6
    <3> QED
      BY <3>1, EmaEquation
  <2>2. a \in Int /\ a > 0
    <3>1. p + 1 \in Nat /\ p + 1 > 0 /\ k - 1 \in Nat
      BY <1>6
    <3>2. Power(p + 1, k - 1) \in Nat \ {0}
      BY <3>1, PowerPositive
    <3> QED
      BY <3>2
  <2>3. b \in Int /\ b >= 0 /\ k \in 1..n
    <3>1. k + 1 \in 1..n /\ k \in 1..n
      BY <1>1, <1>6
    <3> QED
      BY <1>2, <3>1
  <2>4. c \in Int /\ c >= 0 /\ (p > 1 => c > 0)
    OBVIOUS
  <2>5. d \in Int /\ d >= 0 /\ (p > 1 => \A j \in 1..k : x[j] > 0 => d > 0)
    <3>1. d \in Int
      BY <1>3, <2>3
    <3>2. d >= 0 /\ (p > 1 => \A j \in 1..k : x[j] > 0 => d > 0)
      BY <1>6, <2>3
    <3> QED
      BY <3>1, <3>2
  <2>6. a * b \in Int /\ a * b >= 0 /\ (b > 0 => a * b > 0)
    BY <2>2, <2>3, ProductNonnegative
  <2>7. c * d \in Int /\ c * d >= 0 /\ (c > 0 /\ d > 0 => c * d > 0)
    BY <2>4, <2>5, ProductNonnegative
  <2>8. 2 * a * b = 2 * (a * b)
    BY <2>2, <2>3
  <2> DEFINE e == a * b
             f == c * d
  <2>9. ASSUME p > 1, NEW j \in 1..(k + 1), x[j] > 0 PROVE b > 0 \/ (c > 0 /\ d > 0)
    <3>1. j = k + 1 \/ j \in 1..k
      OBVIOUS
    <3> QED
      BY <2>4, <2>5, <2>9, <3>1
  <2>10. E(k + 1) = 2 * e + f
    BY <2>1, <2>8
  <2> HIDE DEF E, a, b, c, d, e, f
  <2>11. /\ e \in Int /\ e >= 0 /\ (b > 0 => e > 0)
         /\ f \in Int /\ f >= 0 /\ (c > 0 /\ d > 0 => f > 0)
    BY <2>6, <2>7 DEF e, f
  <2> QED
    BY <2>9, <2>10, <2>11
<1>7. \A k \in Nat : k >= 1 => k \in U
  <2> HIDE DEF U
  <2> QED
    BY <1>5, <1>6, SetInduction
<1>8. ASSUME NEW k \in 1..n PROVE k \in U /\ k <= n
  BY <1>1, <1>7
<1> HIDE DEF E
<1>9. \A k \in 1..n : E(k) >= 0
  BY <1>8
<1>10. ASSUME NEW k \in 1..n, NEW j \in 1..n, p > 1, j <= k, x[j] > 0
       PROVE  E(k) > 0
  <2>1. j \in 1..k
    BY <1>1, <1>10
  <2> QED
    BY <1>8, <1>10, <2>1
<1> QED
  BY <1>3, <1>9, <1>10 DEF E

LEMMA EmaOfZeros ==
    ASSUME NEW x, Integral(x), Len(x) > 0, NEW p \in Nat \ {0},
           \A i \in 1..Len(x) : x[i] = 0
    PROVE  LastEma(x, p) = 0
<1> DEFINE n == Len(x)
           U == {k \in Nat : k <= n => Ema(x, p)[k] = 0}
<1>1. n \in Nat /\ n > 0
  BY DEF Integral
<1>2. 1 \in U
  <2>1. 1 \in 1..n
    BY <1>1
  <2> QED
    BY <1>1, <2>1, EmaEquation
<1>3. ASSUME NEW k \in Nat, k >= 1, k \in U PROVE k + 1 \in U
  <2> SUFFICES ASSUME k + 1 <= n PROVE Ema(x, p)[k + 1] = 0
    OBVIOUS
  <2>1. k \in 1..(n - 1) /\ k + 1 \in 1..n /\ k <= n
    BY <1>1, <1>3
  <2>2. Ema(x, p)[k + 1] = 2 * Power(p + 1, k - 1) * x[k + 1] + (p - 1) * Ema(x, p)[k]
    BY <2>1, EmaEquation
  <2>3. x[k + 1] = 0 /\ Ema(x, p)[k] = 0
    BY <1>3, <2>1
  <2>4. Power(p + 1, k - 1) \in Int /\ p - 1 \in Int
    <3>1. p + 1 \in Nat /\ k - 1 \in Nat
      BY <1>3
    <3> QED
      BY <3>1, PowerEquation
  <2> QED
    BY <2>2, <2>3, <2>4
<1>4. \A k \in Nat : k >= 1 => k \in U
  <2> HIDE DEF U
  <2> QED
    BY <1>2, <1>3, SetInduction
<1> QED
  BY <1>1, <1>4 DEF LastEma

(***************************************************************************)
(* The RSI                                                                 *)
(***************************************************************************)

LEMMA DiffIntegral ==
    ASSUME NEW x, Integral(x), Len(x) > 0
    PROVE  /\ Integral(Diff(x)) /\ Len(Diff(x)) = Len(x) - 1
           /\ \A i \in 1..(Len(x) - 1) : Diff(x)[i] = x[i + 1] - x[i]
<1>1. Len(x) - 1 \in Nat
  BY DEF Integral
<1>2. /\ DOMAIN Diff(x) = 1..(Len(x) - 1)
      /\ Diff(x) = [i \in 1..(Len(x) - 1) |-> Diff(x)[i]]
      /\ \A i \in 1..(Len(x) - 1) : Diff(x)[i] = x[i + 1] - x[i]
  BY DEF Diff
<1>3. \A i \in 1..(Len(x) - 1) : Diff(x)[i] \in Int
  <2>1. ASSUME NEW i \in 1..(Len(x) - 1) PROVE x[i] \in Int /\ x[i + 1] \in Int
    <3>1. i \in 1..Len(x) /\ i + 1 \in 1..Len(x)
      BY <1>1
    <3> QED
      BY <3>1 DEF Integral
  <2> QED
    BY <1>2, <2>1
<1> QED
  BY <1>1, <1>2, <1>3, IntegralFunction

(* Gains and losses are the two signs of the changes.                      *)
LEMMA GainsIntegral ==
    ASSUME NEW d, Integral(d)
    PROVE  /\ Integral(Gains(d)) /\ Len(Gains(d)) = Len(d)
           /\ Integral(Losses(d)) /\ Len(Losses(d)) = Len(d)
           /\ \A i \in 1..Len(d) :
                /\ Gains(d)[i] = IF d[i] > 0 THEN d[i] ELSE 0
                /\ Losses(d)[i] = IF d[i] < 0 THEN -d[i] ELSE 0
<1>1. Len(d) \in Nat /\ DOMAIN d = 1..Len(d) /\ \A i \in 1..Len(d) : d[i] \in Int
  BY DEF Integral
<1>2. /\ DOMAIN Gains(d) = 1..Len(d) /\ DOMAIN Losses(d) = 1..Len(d)
      /\ Gains(d) = [i \in 1..Len(d) |-> Gains(d)[i]]
      /\ Losses(d) = [i \in 1..Len(d) |-> Losses(d)[i]]
  BY <1>1 DEF Gains, Losses
<1>3. ASSUME NEW i \in 1..Len(d)
      PROVE  /\ Gains(d)[i] = IF d[i] > 0 THEN d[i] ELSE 0
             /\ Losses(d)[i] = IF d[i] < 0 THEN -d[i] ELSE 0
             /\ Gains(d)[i] \in Int /\ Losses(d)[i] \in Int
  <2>1. Gains(d)[i] = Max({d[i], 0}) /\ Losses(d)[i] = Max({-d[i], 0})
    BY <1>1 DEF Gains, Losses
  <2>2. d[i] \in Int /\ -d[i] \in Int /\ 0 \in Int
    BY <1>1
  <2>3. Max({d[i], 0}) \in {d[i], 0} /\ Max({d[i], 0}) >= d[i] /\ Max({d[i], 0}) >= 0
    BY <2>2, MaxOfTwo
  <2>4. Max({-d[i], 0}) \in {-d[i], 0} /\ Max({-d[i], 0}) >= -d[i] /\ Max({-d[i], 0}) >= 0
    BY <2>2, MaxOfTwo
  <2> QED
    BY <2>1, <2>2, <2>3, <2>4
<1> QED
  BY <1>1, <1>2, <1>3, IntegralFunction

LEMMA DivBounds ==
    ASSUME NEW a \in Int, NEW d \in Nat \ {0}
    PROVE  /\ a \div d \in Int
           /\ d * (a \div d) <= a
           /\ a < d * (a \div d) + d
OBVIOUS

LEMMA TimesOrdered ==
    ASSUME NEW d \in Nat \ {0}, NEW q \in Int, NEW m \in Int
    PROVE  /\ d * q <= d * m => q <= m
           /\ d * q < d * m => q < m
OBVIOUS

(* A share, rounded down, and the share of the rest                        *)
LEMMA PercentBounds ==
    ASSUME NEW a \in Nat, NEW d \in Nat \ {0}, a <= d
    PROVE  Percent(a, d) \in 0..100
<1> DEFINE q == (100 * a) \div d
<1>1. q \in Int /\ d * q <= 100 * a /\ 100 * a < d * q + d
  BY DivBounds
<1> HIDE DEF q
<1>2. d * q <= d * 100 /\ d * 0 < d * (q + 1)
  <2>1. d * (q + 1) = d * q + d
    BY <1>1
  <2> QED
    BY <1>1, <2>1
<1>3. q <= 100 /\ 0 < q + 1
  BY <1>1, <1>2, TimesOrdered
<1> QED
  BY <1>1, <1>3 DEF Percent, q

LEMMA PercentsTogether ==
    ASSUME NEW a \in Nat, NEW b \in Nat, a + b > 0
    PROVE  Percent(a, a + b) + Percent(b, b + a) \in {99, 100}
<1> DEFINE d == a + b
           q == (100 * a) \div d
           r == (100 * b) \div d
<1>1. d \in Nat \ {0} /\ d * 100 = 100 * a + 100 * b
  OBVIOUS
<1>2. /\ q \in Int /\ d * q <= 100 * a /\ 100 * a < d * q + d
      /\ r \in Int /\ d * r <= 100 * b /\ 100 * b < d * r + d
  <2>1. d \in Nat \ {0} /\ 100 * a \in Int /\ 100 * b \in Int
    BY <1>1
  <2> HIDE DEF d
  <2> QED
    BY <2>1, DivBounds
<1>3. Percent(a, a + b) = q /\ Percent(b, b + a) = r
  BY DEF Percent
<1> HIDE DEF d, q, r
<1>4. d * (q + r) <= d * 100 /\ d * 100 < d * (q + r + 2)
  <2>1. d * (q + r) = d * q + d * r /\ d * (q + r + 2) = d * q + d * r + d + d
    BY <1>1, <1>2
  <2> QED
    BY <1>1, <1>2, <2>1
<1>5. q + r <= 100 /\ 100 < q + r + 2
  BY <1>1, <1>2, <1>4, TimesOrdered
<1> QED
  BY <1>2, <1>3, <1>5

(* Upside down, what was a gain is a loss.                                 *)
LEMMA MirroredChanges ==
    ASSUME NEW x, Integral(x), Len(x) > 0
    PROVE  /\ Integral(Mirrored(x)) /\ Len(Mirrored(x)) = Len(x)
           /\ Gains(Diff(Mirrored(x))) = Losses(Diff(x))
           /\ Losses(Diff(Mirrored(x))) = Gains(Diff(x))
<1> DEFINE n == Len(x)
           high == Max(ToSet(x))
           low == Min(ToSet(x))
           y == Mirrored(x)
           d == Diff(x)
           e == Diff(y)
<1>1. n \in Nat /\ n > 0 /\ DOMAIN x = 1..n
  BY DEF Integral
<1>2. \A i \in 1..n : x[i] \in Int
  BY DEF Integral
<1>3. high \in Int /\ low \in Int
  <2>1. ToSet(x) = {x[i] : i \in DOMAIN x}
    BY DEF ToSet
  <2> QED
    BY <2>1, Extremes
<1>4. /\ DOMAIN y = 1..n /\ y = [i \in 1..n |-> y[i]]
      /\ \A i \in 1..n : y[i] = high + low - x[i]
  BY <1>1 DEF Mirrored
<1> HIDE DEF high, low, y
<1>5. Integral(y) /\ Len(y) = n
  <2>1. \A i \in 1..n : y[i] \in Int
    BY <1>2, <1>3, <1>4
  <2> QED
    BY <1>1, <1>4, <2>1, IntegralFunction
<1>6. /\ Integral(d) /\ Len(d) = n - 1 /\ Integral(e) /\ Len(e) = n - 1
      /\ \A i \in 1..(n - 1) : d[i] = x[i + 1] - x[i] /\ e[i] = y[i + 1] - y[i]
  BY <1>1, <1>5, DiffIntegral
<1>7. ASSUME NEW i \in 1..(n - 1) PROVE d[i] \in Int /\ e[i] = -d[i]
  <2>1. i \in 1..n /\ i + 1 \in 1..n
    BY <1>1
  <2>2. /\ x[i] \in Int /\ x[i + 1] \in Int
        /\ y[i] = high + low - x[i]
        /\ y[i + 1] = high + low - x[i + 1]
    BY <1>2, <1>4, <2>1
  <2>3. d[i] = x[i + 1] - x[i] /\ e[i] = y[i + 1] - y[i]
    BY <1>6
  <2> HIDE DEF d, e
  <2> QED
    BY <1>3, <2>2, <2>3
<1>8. DOMAIN d = 1..(n - 1) /\ DOMAIN e = 1..(n - 1)
  BY <1>6 DEF Integral
<1> HIDE DEF d, e
<1>9. Gains(e) = Losses(d) /\ Losses(e) = Gains(d)
  <2>1. /\ Gains(e) = [i \in 1..(n - 1) |-> Gains(e)[i]]
        /\ Losses(e) = [i \in 1..(n - 1) |-> Losses(e)[i]]
        /\ Gains(d) = [i \in 1..(n - 1) |-> Gains(d)[i]]
        /\ Losses(d) = [i \in 1..(n - 1) |-> Losses(d)[i]]
    BY <1>8 DEF Gains, Losses
  <2>2. \A i \in 1..(n - 1) :
            Gains(e)[i] = Losses(d)[i] /\ Losses(e)[i] = Gains(d)[i]
    <3> SUFFICES ASSUME NEW i \in 1..(n - 1)
                 PROVE  Gains(e)[i] = Losses(d)[i] /\ Losses(e)[i] = Gains(d)[i]
      OBVIOUS
    <3>1. /\ Gains(e)[i] = IF e[i] > 0 THEN e[i] ELSE 0
          /\ Losses(e)[i] = IF e[i] < 0 THEN -e[i] ELSE 0
          /\ Gains(d)[i] = IF d[i] > 0 THEN d[i] ELSE 0
          /\ Losses(d)[i] = IF d[i] < 0 THEN -d[i] ELSE 0
      BY <1>6, GainsIntegral
    <3> QED
      BY <1>7, <3>1
  <2>3. Gains(e) = Losses(d)
    BY <2>1, <2>2
  <2>4. Losses(e) = Gains(d)
    BY <2>1, <2>2
  <2> QED
    BY <2>3, <2>4
<1> QED
  BY <1>5, <1>9 DEF d, e, y

(* Prices whose changes are all zero do not move.                          *)
LEMMA NoChangeNoMove ==
    ASSUME NEW x, Integral(x), Len(x) > 0
    PROVE  (\A i \in DOMAIN x : x[i] = x[1])
                <=> \A i \in 1..(Len(x) - 1) : Diff(x)[i] = 0
<1> DEFINE n == Len(x)
<1>1. n \in Nat /\ n > 0 /\ DOMAIN x = 1..n
  BY DEF Integral
<1>2. \A i \in 1..n : x[i] \in Int
  BY DEF Integral
<1>3. \A i \in 1..(n - 1) : Diff(x)[i] = x[i + 1] - x[i]
  BY DiffIntegral
<1>4. ASSUME \A i \in DOMAIN x : x[i] = x[1], NEW i \in 1..(n - 1)
      PROVE  Diff(x)[i] = 0
  <2>1. i \in 1..n /\ i + 1 \in 1..n
    BY <1>1
  <2>2. x[i] = x[1] /\ x[i + 1] = x[1] /\ x[1] \in Int
    BY <1>1, <1>2, <1>4, <2>1
  <2> QED
    BY <1>3, <2>2
<1>5. ASSUME \A i \in 1..(n - 1) : Diff(x)[i] = 0
      PROVE  \A i \in DOMAIN x : x[i] = x[1]
  <2> DEFINE U == {k \in Nat : k <= n => x[k] = x[1]}
  <2>1. 1 \in U
    OBVIOUS
  <2>2. ASSUME NEW k \in Nat, k >= 1, k \in U PROVE k + 1 \in U
    <3> SUFFICES ASSUME k + 1 <= n PROVE x[k + 1] = x[1]
      OBVIOUS
    <3>1. k \in 1..(n - 1) /\ k \in 1..n /\ k + 1 \in 1..n /\ k <= n
      BY <1>1, <2>2
    <3>2. x[k + 1] - x[k] = 0
      BY <1>3, <1>5, <3>1
    <3>3. x[k] \in Int /\ x[k + 1] \in Int /\ x[k] = x[1]
      BY <1>2, <2>2, <3>1
    <3> QED
      BY <3>2, <3>3
  <2>3. \A k \in Nat : k >= 1 => k \in U
    <3> HIDE DEF U
    <3> QED
      BY <2>1, <2>2, SetInduction
  <2> QED
    BY <1>1, <2>3
<1> QED
  BY <1>4, <1>5

(* The RSI of prices turned upside down is the rest to 100, but for the    *)
(* rounding; prices that do not move are at 100 both ways (compute_rsi).   *)
THEOREM RsiMirrors ==
    ASSUME NEW x, Integral(x), Len(x) > RsiPeriod
    PROVE  Rsi(x) + Rsi(Mirrored(x))
                \in IF \A i \in DOMAIN x : x[i] = x[1] THEN {200} ELSE {99, 100}
<1> DEFINE d == Diff(x)
           g == LastEma(Gains(d), RsiPeriod)
           l == LastEma(Losses(d), RsiPeriod)
           n == Len(d)
<1>1. /\ RsiPeriod \in Nat \ {0} /\ RsiPeriod > 1
      /\ Len(x) \in Nat /\ Len(x) > 0 /\ ~ (Len(x) < RsiPeriod + 1)
  <2>1. RsiPeriod \in Nat \ {0} /\ RsiPeriod > 1
    BY IndicatorAssumption, PeriodsAssumption DEF Periods
  <2> QED
    BY <2>1 DEF Integral
<1>2. Integral(d) /\ n = Len(x) - 1
  BY <1>1, DiffIntegral
<1>3. n \in Nat /\ n > 0 /\ n \in 1..n
  BY <1>1, <1>2
<1>4. \A i \in 1..n : d[i] \in Int
  BY <1>2 DEF Integral
<1> HIDE DEF d, n
<1>5. /\ Integral(Gains(d)) /\ Len(Gains(d)) = n
      /\ Integral(Losses(d)) /\ Len(Losses(d)) = n
      /\ \A i \in 1..n :
            /\ Gains(d)[i] = IF d[i] > 0 THEN d[i] ELSE 0
            /\ Losses(d)[i] = IF d[i] < 0 THEN -d[i] ELSE 0
  BY <1>2, GainsIntegral DEF n
<1>6. /\ \A i \in 1..n : Gains(d)[i] >= 0
      /\ \A i \in 1..n : Losses(d)[i] >= 0
  BY <1>4, <1>5
<1>7. /\ g \in Nat
      /\ \A j \in 1..n : Gains(d)[j] > 0 => g > 0
  BY <1>1, <1>3, <1>5, <1>6, EmaSigns DEF LastEma
<1>8. /\ l \in Nat
      /\ \A j \in 1..n : Losses(d)[j] > 0 => l > 0
  <2> DEFINE y == Losses(d)
  <2>1. Integral(y) /\ Len(y) = n /\ \A i \in 1..Len(y) : y[i] >= 0
    BY <1>5, <1>6
  <2> HIDE DEF y
  <2>2. LastEma(y, RsiPeriod) \in Int /\ LastEma(y, RsiPeriod) >= 0
    BY <1>1, <1>3, <2>1, EmaSigns DEF LastEma
  <2>3. \A j \in 1..n : y[j] > 0 => LastEma(y, RsiPeriod) > 0
    BY <1>1, <1>3, <2>1, EmaSigns DEF LastEma
  <2> QED
    BY <2>2, <2>3 DEF y
<1>9. Rsi(x) = IF l = 0 THEN 100 ELSE Percent(g, g + l)
  BY <1>1 DEF Rsi, d
<1>10. Rsi(Mirrored(x)) = IF g = 0 THEN 100 ELSE Percent(l, l + g)
  BY <1>1, MirroredChanges DEF Rsi, d
<1> DEFINE still == \A i \in DOMAIN x : x[i] = x[1]
<1>11. still <=> \A i \in 1..n : d[i] = 0
  BY <1>1, <1>2, NoChangeNoMove DEF d
<1>12. CASE still
  <2>1. \A i \in 1..n : Gains(d)[i] = 0 /\ Losses(d)[i] = 0
    BY <1>5, <1>11, <1>12
  <2>2. g = 0 /\ l = 0
    BY <1>1, <1>3, <1>5, <2>1, EmaOfZeros
  <2> QED
    BY <1>9, <1>10, <1>12, <2>2
<1>13. CASE ~ still
  <2>1. PICK i \in 1..n : d[i] # 0
    BY <1>11, <1>13
  <2>2. g > 0 \/ l > 0
    <3>1. CASE d[i] > 0
      BY <1>5, <1>7, <3>1
    <3>2. CASE d[i] < 0
      <4>1. Losses(d)[i] > 0
        BY <1>4, <1>5, <3>2
      <4> QED
        BY <1>8, <4>1
    <3> QED
      BY <1>4, <2>1, <3>1, <3>2
  <2> HIDE DEF g, l, still
  <2>3. CASE g > 0 /\ l > 0
    BY <1>7, <1>8, <1>9, <1>10, <1>13, <2>3, PercentsTogether DEF still
  <2>4. CASE g = 0 \/ l = 0
    <3>1. \A a \in Nat \ {0} : Percent(0, a) = 0 /\ Percent(0, 0 + a) = 0
      <4>1. ASSUME NEW a \in Nat \ {0} PROVE (100 * 0) \div a = 0
        OBVIOUS
      <4> QED
        BY <4>1 DEF Percent
    <3> QED
      BY <1>7, <1>8, <1>9, <1>10, <1>13, <2>2, <2>4, <3>1 DEF still
  <2> QED
    BY <1>7, <1>8, <2>2, <2>3, <2>4
<1> QED
  BY <1>12, <1>13

(***************************************************************************)
(* The position within the range                                           *)
(***************************************************************************)

(* A stretch of a sequence of integers                                     *)
LEMMA StretchIntegral ==
    ASSUME NEW x, Integral(x), NEW a \in 1..Len(x), NEW b \in a..Len(x)
    PROVE  /\ Integral(SubSeq(x, a, b)) /\ Len(SubSeq(x, a, b)) = b - a + 1
           /\ \A i \in 1..(b - a + 1) : SubSeq(x, a, b)[i] = x[a + i - 1]
<1> DEFINE y == SubSeq(x, a, b)
<1>1. Len(x) \in Nat /\ DOMAIN x = 1..Len(x) /\ b - a + 1 \in Nat
  BY DEF Integral
<1>2. \A i \in 1..Len(x) : x[i] \in Int
  BY DEF Integral
<1>3. y = [i \in 1..(b - a + 1) |-> x[a + i - 1]]
  OBVIOUS
<1>4. ASSUME NEW i \in 1..(b - a + 1) PROVE y[i] = x[a + i - 1] /\ y[i] \in Int
  <2>1. a + i - 1 \in 1..Len(x)
    BY <1>1
  <2> QED
    BY <1>2, <1>3, <2>1
<1>5. DOMAIN y = 1..(b - a + 1) /\ y = [i \in 1..(b - a + 1) |-> y[i]]
  BY <1>3
<1> HIDE DEF y
<1>6. Integral(y) /\ Len(y) = b - a + 1
  BY <1>1, <1>4, <1>5, IntegralFunction
<1> QED
  BY <1>4, <1>6 DEF y

LEMMA LastOfIntegral ==
    ASSUME NEW x, Integral(x), NEW m \in 1..Len(x)
    PROVE  /\ Integral(LastOf(x, m)) /\ Len(LastOf(x, m)) = m
           /\ \A i \in 1..m : LastOf(x, m)[i] = x[Len(x) - m + i]
           /\ LastOf(x, m)[m] = x[Len(x)]
<1> DEFINE n == Len(x)
           a == n - m + 1
<1>1. n \in Nat
  BY DEF Integral
<1>2. a \in 1..n /\ n \in a..n /\ n - a + 1 = m
  BY <1>1
<1>3. \A i \in 1..m : a + i - 1 = n - m + i
  BY <1>1
<1>4. m \in 1..m /\ n - m + m = n
  BY <1>1
<1>5. /\ Integral(SubSeq(x, a, n)) /\ Len(SubSeq(x, a, n)) = m
      /\ \A i \in 1..m : SubSeq(x, a, n)[i] = x[a + i - 1]
  <2> HIDE DEF a
  <2> QED
    BY <1>2, StretchIntegral
<1> QED
  BY <1>3, <1>4, <1>5 DEF LastOf

(* A window whose last close is between its low and its high is at a       *)
(* position from -100 to 100 before any clipping, whatever the lookback    *)
(* (compute_range_position).                                               *)
THEOREM RangePositionNeedsNoClipping ==
    ASSUME NEW highs, Integral(highs), NEW lows, Integral(lows),
           NEW closes, Integral(closes), Len(closes) > 0,
           Len(highs) = Len(closes), Len(lows) = Len(closes),
           lows[Len(closes)] <= closes[Len(closes)],
           closes[Len(closes)] <= highs[Len(closes)]
    PROVE  RawRangePosition(highs, lows, closes) \in -100..100
<1> DEFINE n == Len(closes)
           m == Min({RangeLookback, n})
           high == Max(Range(LastOf(highs, m)))
           low == Min(Range(LastOf(lows, m)))
           c == closes[n]
           width == high - low
<1>1. n \in Nat /\ n > 0 /\ c \in Int /\ highs[n] \in Int /\ lows[n] \in Int
  BY DEF Integral
<1>2. m \in 1..n
  <2>1. RangeLookback \in Nat \ {0}
    BY IndicatorAssumption DEF Periods
  <2>2. m \in {RangeLookback, n} /\ m <= n
    <3>1. RangeLookback \in Int /\ n \in Int
      BY <1>1, <2>1
    <3> HIDE DEF n
    <3> QED
      BY <3>1, MinOfTwo
  <2> QED
    BY <1>1, <2>1, <2>2
<1> HIDE DEF m
<1>3. high \in Int /\ highs[n] <= high
  <2>1. /\ Integral(LastOf(highs, m)) /\ Len(LastOf(highs, m)) = m
        /\ LastOf(highs, m)[m] = highs[n]
    BY <1>2, LastOfIntegral
  <2>2. Range(LastOf(highs, m)) = {LastOf(highs, m)[i] : i \in DOMAIN LastOf(highs, m)}
    BY DEF Range
  <2>3. m > 0 /\ m \in 1..m
    BY <1>1, <1>2
  <2> QED
    BY <2>1, <2>2, <2>3, Extremes
<1>4. low \in Int /\ low <= lows[n]
  <2>1. /\ Integral(LastOf(lows, m)) /\ Len(LastOf(lows, m)) = m
        /\ LastOf(lows, m)[m] = lows[n]
    BY <1>2, LastOfIntegral
  <2>2. Range(LastOf(lows, m)) = {LastOf(lows, m)[i] : i \in DOMAIN LastOf(lows, m)}
    BY DEF Range
  <2>3. m > 0 /\ m \in 1..m
    BY <1>1, <1>2
  <2> QED
    BY <2>1, <2>2, <2>3, Extremes
<1>5. low <= c /\ c <= high
  <2> HIDE DEF high, low, c
  <2> QED
    BY <1>1, <1>3, <1>4 DEF c
<1>6. RawRangePosition(highs, lows, closes)
            = IF m < RangeMin \/ high = low THEN 0
              ELSE Percent(2 * (c - low), width) - 100
  BY DEF RawRangePosition, m
<1>7. CASE m < RangeMin \/ high = low
  BY <1>6, <1>7
<1>8. CASE ~ (m < RangeMin \/ high = low)
  <2> DEFINE q == (100 * (2 * (c - low))) \div width
  <2> HIDE DEF high, low, c
  <2>1. width \in Nat \ {0} /\ c \in Int /\ low \in Int /\ high \in Int
    BY <1>1, <1>3, <1>4, <1>5, <1>8 DEF c
  <2>2. 100 * (2 * (c - low)) \in Int
    BY <2>1
  <2> HIDE DEF width
  <2>3. q \in Int /\ width * q <= 100 * (2 * (c - low)) /\ 100 * (2 * (c - low)) < width * q + width
    BY <2>1, <2>2, DivBounds
  <2> HIDE DEF q
  <2>4. width * q <= width * 200 /\ width * 0 < width * (q + 1)
    <3>1. width * (q + 1) = width * q + width
      BY <2>1, <2>3
    <3>2. c - low <= width /\ 0 <= c - low
      BY <1>5, <2>1 DEF width
    <3> QED
      BY <2>1, <2>3, <3>1, <3>2
  <2>5. q <= 200 /\ 0 < q + 1
    BY <2>1, <2>3, <2>4, TimesOrdered
  <2>6. RawRangePosition(highs, lows, closes) = q - 100
    BY <1>6, <1>8 DEF Percent, q
  <2> QED
    BY <2>3, <2>5, <2>6
<1> QED
  BY <1>7, <1>8

(***************************************************************************)
(* The volatility regime                                                   *)
(***************************************************************************)

LEMMA ReturnsIntegral ==
    ASSUME NEW x, Integral(x), Len(x) > 0, \A i \in 1..Len(x) : x[i] > 0
    PROVE  /\ Integral(Returns(x)) /\ Len(Returns(x)) = Len(x) - 1
           /\ (\A i \in DOMAIN x : x[i] = x[1])
                => \A i \in 1..(Len(x) - 1) : Returns(x)[i] = 0
<1> DEFINE n == Len(x)
           r == Returns(x)
<1>1. n \in Nat /\ n - 1 \in Nat /\ DOMAIN x = 1..n
  BY DEF Integral
<1>2. \A i \in 1..n : x[i] \in Int
  BY DEF Integral
<1>3. /\ DOMAIN r = 1..(n - 1) /\ r = [i \in 1..(n - 1) |-> r[i]]
      /\ \A i \in 1..(n - 1) : r[i] = (100 * (x[i + 1] - x[i])) \div x[i]
  BY DEF Returns, Percent
<1>4. ASSUME NEW i \in 1..(n - 1)
      PROVE  /\ i \in 1..n /\ i + 1 \in 1..n
             /\ x[i] \in Nat \ {0} /\ x[i + 1] \in Int
  <2>1. i \in 1..n /\ i + 1 \in 1..n
    BY <1>1
  <2>2. x[i] \in Int /\ x[i + 1] \in Int /\ x[i] > 0
    BY <1>2, <2>1
  <2> QED
    BY <2>1, <2>2
<1>5. ASSUME NEW i \in 1..(n - 1) PROVE r[i] \in Int
  <2>1. 100 * (x[i + 1] - x[i]) \in Int
    BY <1>4
  <2> QED
    BY <1>3, <1>4, <2>1, DivBounds
<1>6. ASSUME \A i \in DOMAIN x : x[i] = x[1], NEW i \in 1..(n - 1)
      PROVE  r[i] = 0
  <2>1. x[i + 1] = x[i]
    BY <1>1, <1>4, <1>6
  <2>2. \A d \in Nat \ {0} : (100 * (d - d)) \div d = 0
    OBVIOUS
  <2> QED
    BY <1>3, <1>4, <2>1, <2>2
<1>7. Integral(r) /\ Len(r) = n - 1
  <2> HIDE DEF r
  <2> QED
    BY <1>1, <1>3, <1>5, IntegralFunction
<1> QED
  BY <1>6, <1>7

LEMMA SpreadIsInteger ==
    ASSUME NEW x, Integral(x)
    PROVE  Spread(x) \in Int
<1> DEFINE y == [i \in DOMAIN x |-> x[i] * x[i]]
<1>1. Len(x) \in Int /\ DOMAIN x = 1..Len(x) /\ IsFiniteSet(1..Len(x))
  BY FS_Interval DEF Integral
<1>2. \A i \in 1..Len(x) : x[i] \in Int
  BY DEF Integral
<1>3. DOMAIN y = 1..Len(x) /\ \A i \in 1..Len(x) : y[i] \in Int
  BY <1>1, <1>2
<1>4. SumFunction(x) \in Int
  BY <1>1, <1>2, SumOnSet DEF SumFunction
<1>5. SumFunction(y) \in Int
  <2> HIDE DEF y
  <2> QED
    BY <1>1, <1>3, SumOnSet DEF SumFunction
<1>6. Spread(x) = Len(x) * SumFunction(y) - SumFunction(x) * SumFunction(x)
  BY DEF Spread
<1> HIDE DEF y
<1> DEFINE a == SumFunction(y)
           b == SumFunction(x)
           c == Len(x)
<1>7. a \in Int /\ b \in Int /\ c \in Int
  BY <1>1, <1>4, <1>5
<1> HIDE DEF a, b, c
<1>8. c * a - b * b \in Int
  BY <1>7
<1> QED
  BY <1>6, <1>8 DEF a, b, c

(* With enough prices there are windows, and they are long enough.         *)
LEMMA WindowsFit ==
    ASSUME NEW r \in Nat, r + 1 >= RegimeLookback
    PROVE  VolWindow(r) \in 1..r /\ VolWindow(r) >= VolWindowMin
<1> DEFINE q == r \div VolWindowShare
<1>1. /\ VolWindowShare \in Nat \ {0} /\ VolWindowMin \in Nat \ {0}
      /\ VolWindowMax \in Nat \ {0} /\ RegimeLookback \in Nat
      /\ VolWindowMin <= VolWindowMax
      /\ VolWindowMin * VolWindowShare < RegimeLookback
  BY IndicatorAssumption, PeriodsAssumption DEF Periods
<1>2. q \in Int /\ VolWindowShare * q <= r /\ r < VolWindowShare * q + VolWindowShare
  BY <1>1, DivBounds
<1> HIDE DEF q
<1>3. VolWindowMin <= q
  <2>1. VolWindowShare * VolWindowMin <= r
    BY <1>1
  <2>2. VolWindowShare * (q + 1) = VolWindowShare * q + VolWindowShare
    BY <1>1, <1>2
  <2>3. VolWindowShare * VolWindowMin < VolWindowShare * (q + 1)
    BY <1>1, <1>2, <2>1, <2>2
  <2> QED
    BY <1>1, <1>2, <2>3, TimesOrdered
<1>4. q <= r
  <2>1. q <= VolWindowShare * q
    BY <1>1, <1>2, <1>3
  <2> QED
    BY <1>1, <1>2, <2>1
<1>5. VolWindow(r) \in {VolWindowMax, q} /\ VolWindow(r) <= q
  BY <1>1, <1>2, MinOfTwo DEF VolWindow, q
<1> QED
  BY <1>1, <1>2, <1>3, <1>4, <1>5

(* The volatility regime is a share of windows that includes the current   *)
(* one, and all of them for prices that do not move                        *)
(* (compute_volatility_regime).                                            *)
THEOREM RegimeIsShare ==
    ASSUME NEW x, Integral(x), Len(x) >= RegimeLookback,
           \A i \in 1..Len(x) : x[i] > 0
    PROVE  /\ AtMostCurrent(Returns(x)) # {}
           /\ VolatilityRegime(x) \in 0..100
           /\ (\A i \in DOMAIN x : x[i] = x[1]) => VolatilityRegime(x) = 100
<1> DEFINE returns == Returns(x)
           r == Len(returns)
           size == VolWindow(r)
           ends == size..r
           window(i) == SubSeq(returns, i - size + 1, i)
           vol == RollingVolatility(returns)
           upTo == AtMostCurrent(returns)
<1>1. /\ RegimeLookback \in Nat \ {0} /\ Len(x) \in Nat /\ Len(x) > 0
      /\ ~ (Len(x) < RegimeLookback)
  <2>1. RegimeLookback \in Nat \ {0}
    BY IndicatorAssumption DEF Periods
  <2> QED
    BY <2>1 DEF Integral
<1>2. /\ Integral(returns) /\ r = Len(x) - 1 /\ r \in Nat
      /\ (\A i \in DOMAIN x : x[i] = x[1]) => \A i \in 1..r : returns[i] = 0
  BY <1>1, ReturnsIntegral
<1> HIDE DEF returns, r
<1>3. size \in 1..r /\ size >= VolWindowMin /\ VolWindowMin \in Nat
  <2>1. VolWindowMin \in Nat
    BY IndicatorAssumption DEF Periods
  <2> QED
    BY <1>1, <1>2, <2>1, WindowsFit
<1> HIDE DEF size
<1>4. DOMAIN vol = ends /\ \A i \in ends : vol[i] = Spread(window(i))
  BY DEF RollingVolatility, size, r
<1>5. ASSUME NEW i \in ends
      PROVE  /\ Integral(window(i)) /\ Len(window(i)) = size
             /\ \A j \in 1..size : window(i)[j] = returns[(i - size + 1) + j - 1]
             /\ \A j \in 1..size : (i - size + 1) + j - 1 \in 1..r
  <2>1. i - size + 1 \in 1..r /\ i \in (i - size + 1)..r /\ i - (i - size + 1) + 1 = size
    BY <1>2, <1>3
  <2>2. \A j \in 1..size : (i - size + 1) + j - 1 \in 1..r
    BY <1>2, <1>3
  <2> QED
    BY <1>2, <2>1, <2>2, StretchIntegral DEF r
<1>6. \A i \in ends : vol[i] \in Int
  BY <1>4, <1>5, SpreadIsInteger
<1>7. upTo = {i \in ends : vol[i] <= vol[r]} /\ r \in ends
  BY <1>2, <1>3, <1>4 DEF AtMostCurrent, r
<1> HIDE DEF vol, upTo, window
<1>8. upTo # {} /\ upTo \subseteq ends
  BY <1>6, <1>7
<1>9. /\ IsFiniteSet(ends) /\ Cardinality(ends) \in Nat \ {0}
      /\ Cardinality(upTo) \in Nat /\ Cardinality(upTo) <= Cardinality(ends)
  <2>1. IsFiniteSet(ends) /\ Cardinality(ends) = r - size + 1
    <3>1. size \in Int /\ r \in Int /\ ~ (size > r)
      BY <1>2, <1>3
    <3> HIDE DEF ends
    <3> QED
      BY <3>1, FS_Interval DEF ends
  <2>2. Cardinality(ends) \in Nat \ {0}
    BY <1>2, <1>3, <2>1
  <2>3. IsFiniteSet(upTo) /\ Cardinality(upTo) <= Cardinality(ends)
    BY <1>8, <2>1, FS_Subset
  <2>4. Cardinality(upTo) \in Nat
    BY <2>3, FS_CardinalityType
  <2> QED
    BY <2>1, <2>2, <2>3, <2>4
<1>10. VolatilityRegime(x) = Percent(Cardinality(upTo), Cardinality(ends))
  <2>1. ~ (Len(x) < RegimeLookback \/ VolWindow(Len(Returns(x))) < VolWindowMin)
    BY <1>1, <1>3 DEF size, r, returns
  <2>2. DOMAIN RollingVolatility(Returns(x)) = ends
    BY <1>4 DEF vol, returns
  <2> QED
    BY <2>1, <2>2 DEF VolatilityRegime, upTo, returns
<1>11. VolatilityRegime(x) \in 0..100
  BY <1>9, <1>10, PercentBounds
<1>12. ASSUME \A i \in DOMAIN x : x[i] = x[1] PROVE VolatilityRegime(x) = 100
  <2>1. \A i \in 1..r : returns[i] = 0
    BY <1>2, <1>12
  <2>2. ASSUME NEW i \in ends PROVE vol[i] = vol[r]
    <3>1. \A j \in 1..size : window(i)[j] = window(r)[j]
      BY <1>5, <1>7, <2>1
    <3>2. ASSUME NEW k \in ends
          PROVE  window(k) = [j \in 1..size |-> window(k)[j]]
      <4>1. size \in Int /\ k \in Int
        BY <1>2, <1>3
      <4>2. k - (k - size + 1) + 1 = size
        BY <4>1
      <4>3. window(k) = [j \in 1..(k - (k - size + 1) + 1) |-> window(k)[j]]
        BY <4>1 DEF window
      <4> QED
        BY <4>2, <4>3
    <3>3. window(i) = window(r)
      BY <1>7, <3>1, <3>2
    <3> QED
      BY <1>4, <1>7, <3>3
  <2>3. upTo = ends
    BY <1>6, <1>7, <2>2
  <2> DEFINE c == Cardinality(ends)
  <2>4. VolatilityRegime(x) = (100 * c) \div c
    BY <1>10, <2>3 DEF Percent
  <2>5. c \in Nat \ {0}
    BY <1>9
  <2> HIDE DEF c
  <2>6. (100 * c) \div c = 100
    BY <2>5
  <2> QED
    BY <2>4, <2>6
<1> QED
  BY <1>8, <1>11, <1>12 DEF upTo, returns

(***************************************************************************)
(* Ranges                                                                  *)
(***************************************************************************)

LEMMA FactorsOrdered ==
    ASSUME NEW a \in Nat, NEW b \in Int, NEW c \in Int, b <= c
    PROVE  a * b <= a * c
OBVIOUS

(* An average of values up to a bound stays within the bound, over its     *)
(* denominator.                                                            *)
LEMMA EmaBounded ==
    ASSUME NEW x, Integral(x), NEW p \in Nat \ {0}, NEW most \in Nat,
           \A i \in 1..Len(x) : x[i] <= most
    PROVE  \A k \in 1..Len(x) : Ema(x, p)[k] <= most * Power(p + 1, k - 1)
<1> DEFINE n == Len(x)
           E(k) == Ema(x, p)[k]
           U == {k \in Nat : k <= n => E(k) <= most * Power(p + 1, k - 1)}
<1>1. n \in Nat /\ \A i \in 1..n : x[i] \in Int /\ x[i] <= most
  BY DEF Integral
<1>2. p + 1 \in Nat /\ p + 1 > 0 /\ p - 1 \in Nat
  OBVIOUS
<1>3. 1 \in U
  <2> SUFFICES ASSUME 1 <= n PROVE E(1) <= most * Power(p + 1, 1 - 1)
    OBVIOUS
  <2>1. E(1) = x[1] /\ 1 \in 1..n
    BY <1>1, EmaEquation
  <2>2. Power(p + 1, 1 - 1) = 1
    BY <1>2, PowerEquation
  <2> HIDE DEF E, n
  <2> QED
    BY <1>1, <2>1, <2>2
<1>4. ASSUME NEW k \in Nat, k >= 1, k \in U PROVE k + 1 \in U
  <2> SUFFICES ASSUME k + 1 <= n
               PROVE  E(k + 1) <= most * Power(p + 1, (k + 1) - 1)
    OBVIOUS
  <2> DEFINE a == Power(p + 1, k - 1)
             b == x[k + 1]
             c == p - 1
             d == E(k)
  <2>1. k \in 1..(n - 1) /\ k \in 1..n /\ k + 1 \in 1..n /\ k - 1 \in Nat
    BY <1>1, <1>4
  <2>2. E(k + 1) = 2 * a * b + c * d /\ d \in Int
    BY <2>1, EmaEquation
  <2>3. a \in Nat
    BY <1>2, <2>1, PowerEquation
  <2>4. b \in Int /\ b <= most
    BY <1>1, <2>1
  <2>5. d <= most * a
    BY <1>4, <2>1
  <2>6. Power(p + 1, (k + 1) - 1) = (p + 1) * a
    <3>1. (k + 1) - 1 = (k - 1) + 1
      OBVIOUS
    <3>2. Power(p + 1, (k - 1) + 1) = (p + 1) * a
      BY <1>2, <2>1, PowerEquation
    <3> QED
      BY <3>1, <3>2
  <2>7. c \in Nat /\ p + 1 = c + 2
    OBVIOUS
  <2> HIDE DEF E, a, b, c, d, n
  <2>8. a * b <= a * most
    BY <2>3, <2>4, FactorsOrdered
  <2>9. c * d <= c * (most * a)
    <3>1. most * a \in Int
      BY <2>3
    <3> QED
      BY <2>2, <2>5, <2>7, <3>1, FactorsOrdered
  <2>10. 2 * a * b + c * d <= 2 * (a * most) + c * (most * a)
    <3> DEFINE e == a * b
               f == c * d
               g == a * most
               h == c * (most * a)
    <3>1. e \in Int /\ f \in Int /\ g \in Int /\ h \in Int
      BY <2>2, <2>3, <2>4, <2>7
    <3>2. 2 * a * b = 2 * e
      BY <2>3, <2>4
    <3>3. e <= g /\ f <= h
      BY <2>8, <2>9
    <3> HIDE DEF e, f, g, h
    <3>4. 2 * e + f <= 2 * g + h
      BY <3>1, <3>3
    <3> QED
      BY <3>2, <3>4 DEF e, f, g, h
  <2>11. 2 * (a * most) + c * (most * a) = most * ((c + 2) * a)
    BY <2>3, <2>7
  <2> QED
    BY <2>2, <2>6, <2>7, <2>10, <2>11
<1>5. \A k \in Nat : k >= 1 => k \in U
  <2> HIDE DEF U
  <2> QED
    BY <1>3, <1>4, SetInduction
<1> QED
  BY <1>1, <1>5

LEMMA QuotientWithin ==
    ASSUME NEW a \in Nat, NEW d \in Nat \ {0}, NEW most \in Nat, a <= most * d
    PROVE  a \div d \in 0..most
<1> DEFINE q == a \div d
<1>1. q \in Int /\ d * q <= a /\ a < d * q + d
  BY DivBounds
<1> HIDE DEF q
<1>2. d * q <= d * most /\ d * 0 < d * (q + 1)
  <2>1. d * (q + 1) = d * q + d /\ d * most = most * d /\ d * 0 = 0
    BY <1>1
  <2>2. d * q \in Int /\ d * most \in Int
    BY <1>1
  <2> QED
    BY <1>1, <2>1, <2>2
<1>3. q <= most /\ 0 < q + 1
  BY <1>1, <1>2, TimesOrdered
<1> QED
  BY <1>1, <1>3 DEF q

(* The RSI is from 0 to 100 (compute_rsi).                                 *)
LEMMA RsiWithin ==
    ASSUME NEW x, Integral(x), Len(x) > 0
    PROVE  Rsi(x) \in 0..100
<1> DEFINE d == Diff(x)
           g == LastEma(Gains(d), RsiPeriod)
           l == LastEma(Losses(d), RsiPeriod)
           n == Len(d)
<1>1. RsiPeriod \in Nat \ {0} /\ Len(x) \in Nat
  BY IndicatorAssumption DEF Periods, Integral
<1>2. Integral(d) /\ n = Len(x) - 1
  BY DiffIntegral
<1> SUFFICES ASSUME ~ (Len(x) < RsiPeriod + 1), l # 0
             PROVE  Percent(g, g + l) \in 0..100
  BY DEF Rsi
<1>3. n \in Nat /\ n > 0 /\ n \in 1..n
  BY <1>1, <1>2
<1>4. \A i \in 1..n : d[i] \in Int
  BY <1>2 DEF Integral
<1> HIDE DEF d, n
<1>5. /\ Integral(Gains(d)) /\ Len(Gains(d)) = n
      /\ Integral(Losses(d)) /\ Len(Losses(d)) = n
      /\ \A i \in 1..n : /\ Gains(d)[i] = IF d[i] > 0 THEN d[i] ELSE 0
                         /\ Losses(d)[i] = IF d[i] < 0 THEN -d[i] ELSE 0
  BY <1>2, GainsIntegral DEF n
<1>6. \A i \in 1..n : Gains(d)[i] >= 0 /\ Losses(d)[i] >= 0
  BY <1>4, <1>5
<1>7. g \in Nat
  BY <1>1, <1>3, <1>5, <1>6, EmaSigns DEF LastEma
<1>8. l \in Nat
  BY <1>1, <1>3, <1>5, <1>6, EmaSigns DEF LastEma
<1> HIDE DEF g, l
<1>9. g + l \in Nat \ {0} /\ g <= g + l
  BY <1>7, <1>8
<1> QED
  BY <1>7, <1>9, PercentBounds

(* Directional movement is never negative.                                 *)
LEMMA MovementIntegral ==
    ASSUME NEW u, Integral(u), NEW v, Integral(v), Len(u) = Len(v)
    PROVE  /\ Integral(Movement(u, v)) /\ Len(Movement(u, v)) = Len(u)
           /\ \A i \in 1..Len(u) : Movement(u, v)[i] >= 0
<1>1. Len(u) \in Nat /\ DOMAIN u = 1..Len(u)
  BY DEF Integral
<1>2. /\ DOMAIN Movement(u, v) = 1..Len(u)
      /\ Movement(u, v) = [i \in 1..Len(u) |-> Movement(u, v)[i]]
      /\ \A i \in 1..Len(u) : Movement(u, v)[i]
            = IF u[i] > v[i] /\ u[i] > 0 THEN u[i] ELSE 0
  BY <1>1 DEF Movement
<1>3. \A i \in 1..Len(u) : u[i] \in Int
  BY DEF Integral
<1>4. \A i \in 1..Len(u) : Movement(u, v)[i] \in Int /\ Movement(u, v)[i] >= 0
  BY <1>2, <1>3
<1> QED
  BY <1>1, <1>2, <1>4, IntegralFunction

(* The ADX is from 0 to 100: its clipping changes nothing (compute_adx).   *)
LEMMA AdxWithin ==
    ASSUME NEW highs, Integral(highs), NEW lows, Integral(lows),
           NEW closes, Integral(closes), Len(closes) > 0,
           Len(highs) = Len(closes), Len(lows) = Len(closes)
    PROVE  Adx(highs, lows, closes) \in 0..100
<1> DEFINE n == Len(closes)
           m == n - 1
           p == AdxPeriod
           up == Diff(highs)
           down == [i \in DOMAIN up |-> -Diff(lows)[i]]
           plus == Ema(Movement(up, down), p)
           minus == Ema(Movement(down, up), p)
           dx == [i \in DOMAIN up |->
                    IF plus[i] + minus[i] = 0 THEN 0
                    ELSE Percent(Absolute(plus[i] - minus[i]), plus[i] + minus[i])]
           last == LastEma(dx, p)
           scale == Power(p + 1, n - 2)
<1>1. p \in Nat \ {0} /\ n \in Nat
  BY IndicatorAssumption DEF Periods, Integral
<1> SUFFICES ASSUME ~ (n < 2 * p + 1) PROVE last \div scale \in 0..100
  <2>1. Adx(highs, lows, closes) = IF n < 2 * p + 1 THEN 25 ELSE last \div scale
    BY DEF Adx
  <2> HIDE DEF last, scale
  <2> QED
    BY <2>1
<1>2. m \in Nat /\ m \in 1..m /\ n - 2 \in Nat /\ n - 2 = m - 1
  BY <1>1
<1>3. Integral(up) /\ Len(up) = m /\ DOMAIN up = 1..m
  <2>1. Integral(up) /\ Len(up) = m
    BY DiffIntegral
  <2> QED
    BY <2>1 DEF Integral
<1>4. Integral(down) /\ Len(down) = m
  <2>1. Integral(Diff(lows)) /\ Len(Diff(lows)) = m
    BY DiffIntegral
  <2>2. \A i \in 1..m : Diff(lows)[i] \in Int
    BY <2>1 DEF Integral
  <2>3. DOMAIN down = 1..m /\ down = [i \in 1..m |-> down[i]]
        /\ \A i \in 1..m : down[i] = -Diff(lows)[i]
    BY <1>3
  <2> HIDE DEF down, m, up
  <2> QED
    BY <1>2, <2>2, <2>3, IntegralFunction
<1> HIDE DEF up, down, m
<1>5. \A i \in 1..m : plus[i] \in Nat /\ minus[i] \in Nat
  <2>1. /\ Integral(Movement(up, down)) /\ Len(Movement(up, down)) = m
        /\ Integral(Movement(down, up)) /\ Len(Movement(down, up)) = m
        /\ \A i \in 1..m : Movement(up, down)[i] >= 0 /\ Movement(down, up)[i] >= 0
    BY <1>3, <1>4, MovementIntegral
  <2> HIDE DEF p
  <2>2. \A i \in 1..m : plus[i] \in Int /\ plus[i] >= 0
    BY <1>1, <2>1, EmaSigns
  <2>3. \A i \in 1..m : minus[i] \in Int /\ minus[i] >= 0
    BY <1>1, <2>1, EmaSigns
  <2> HIDE DEF plus, minus
  <2> QED
    BY <2>2, <2>3
<1> HIDE DEF plus, minus, p
<1>6. \A i \in 1..m : dx[i] \in Int /\ dx[i] >= 0 /\ dx[i] <= 100
  <2>1. \A i \in 1..m : dx[i] \in 0..100
    <3> SUFFICES ASSUME NEW i \in 1..m, plus[i] + minus[i] # 0
                 PROVE  Percent(Absolute(plus[i] - minus[i]), plus[i] + minus[i])
                              \in 0..100
      BY <1>3
    <3> DEFINE a == plus[i]
               b == minus[i]
    <3>1. a \in Nat /\ b \in Nat
      BY <1>5
    <3> HIDE DEF a, b
    <3>2. Absolute(a - b) \in Nat /\ Absolute(a - b) <= a + b
      BY <3>1 DEF Absolute
    <3>3. ASSUME a + b # 0 PROVE Percent(Absolute(a - b), a + b) \in 0..100
      <4> DEFINE e == Absolute(a - b)
                 f == a + b
      <4>1. e \in Nat /\ f \in Nat \ {0} /\ e <= f
        BY <3>1, <3>2, <3>3
      <4> HIDE DEF e, f
      <4>2. Percent(e, f) \in 0..100
        BY <4>1, PercentBounds
      <4> QED
        BY <4>2 DEF e, f
    <3> QED
      BY <3>3 DEF a, b
  <2>2. \A e \in 0..100 : e \in Int /\ e >= 0 /\ e <= 100
    OBVIOUS
  <2> HIDE DEF dx
  <2> QED
    BY <2>1, <2>2
<1>7. DOMAIN dx = 1..m /\ dx = [i \in 1..m |-> dx[i]]
  BY <1>3
<1> HIDE DEF dx
<1>8. Integral(dx) /\ Len(dx) = m
  <2>1. \A i \in 1..m : dx[i] \in Int
    BY <1>6
  <2> QED
    BY <1>2, <1>7, <2>1, IntegralFunction
<1>9. last \in Nat
  <2>1. \A i \in 1..m : dx[i] >= 0
    BY <1>6
  <2>2. \A k \in 1..m : Ema(dx, p)[k] \in Int /\ Ema(dx, p)[k] >= 0
    BY <1>1, <1>8, <2>1, EmaSigns
  <2>3. last = Ema(dx, p)[m]
    BY <1>8 DEF LastEma
  <2> QED
    BY <1>2, <2>2, <2>3
<1>10. last <= 100 * scale
  <2>1. \A i \in 1..m : dx[i] <= 100
    BY <1>6
  <2>2. \A k \in 1..m : Ema(dx, p)[k] <= 100 * Power(p + 1, k - 1)
    BY <1>1, <1>8, <2>1, EmaBounded
  <2>3. last = Ema(dx, p)[m] /\ scale = Power(p + 1, m - 1)
    BY <1>2, <1>8 DEF LastEma
  <2> QED
    BY <1>2, <2>2, <2>3
<1>11. scale \in Nat \ {0}
  <2>1. p + 1 \in Nat /\ p + 1 > 0
    BY <1>1
  <2> QED
    BY <1>2, <2>1, PowerPositive
<1> HIDE DEF last, scale
<1> QED
  BY <1>9, <1>10, <1>11, QuotientWithin

(* The features whose range is documented are within it.                   *)
THEOREM FeaturesWithinRange ==
    ASSUME NEW highs, Integral(highs), NEW lows, Integral(lows),
           NEW closes, Integral(closes), Len(closes) >= RegimeLookback,
           Len(highs) = Len(closes), Len(lows) = Len(closes),
           \A i \in 1..Len(closes) :
                /\ closes[i] > 0
                /\ lows[i] <= closes[i] /\ closes[i] <= highs[i]
    PROVE  /\ Rsi(closes) \in 0..100
           /\ Adx(highs, lows, closes) \in 0..100
           /\ BollingerPosition(closes) \in -1..1
           /\ VolatilityRegime(closes) \in 0..100
           /\ RangePosition(highs, lows, closes) \in -100..100
           /\ RangePosition(highs, lows, closes)
                = RawRangePosition(highs, lows, closes)
<1> DEFINE raw == RawRangePosition(highs, lows, closes)
<1>1. Len(closes) > 0 /\ Len(closes) \in 1..Len(closes)
  <2>1. RegimeLookback \in Nat \ {0}
    BY IndicatorAssumption DEF Periods
  <2>2. Len(closes) \in Nat
    BY DEF Integral
  <2> QED
    BY <2>1, <2>2
<1>2. raw \in -100..100
  BY <1>1, RangePositionNeedsNoClipping
<1> HIDE DEF raw
<1>3. Max({-100, Min({100, raw})}) = raw
  <2>1. 100 \in Int /\ -100 \in Int /\ raw \in Int
    BY <1>2
  <2>2. Min({100, raw}) = raw
    <3>1. Min({100, raw}) \in {100, raw} /\ Min({100, raw}) <= raw
      BY <2>1, MinOfTwo
    <3> QED
      BY <1>2, <3>1
  <2>3. Max({-100, raw}) \in {-100, raw} /\ Max({-100, raw}) >= raw
    BY <2>1, MaxOfTwo
  <2>4. Max({-100, raw}) = raw
    BY <1>2, <2>1, <2>3
  <2> QED
    BY <2>2, <2>4
<1>4. RangePosition(highs, lows, closes) = raw
  BY <1>3 DEF RangePosition, raw
<1>5. BollingerPosition(closes) \in -1..1
  BY DEF BollingerPosition
<1> QED
  BY <1>1, <1>2, <1>4, <1>5, RsiWithin, AdxWithin, RegimeIsShare DEF raw
=============================================================================
