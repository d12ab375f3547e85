----------------------------- MODULE Induction -----------------------------
(***************************************************************************)
(* Induction and recursion on intervals, stated with sets and functions in *)
(* place of operators, for functions such as the loops of ptimer.c.        *)
(***************************************************************************)
EXTENDS Integers, WellFoundedInduction, TLAPS

(* Every non-empty set of numbers from a on has a least one.               *)
LEMMA Least ==
  ASSUME NEW a \in Int, NEW T, T # {}, \A k \in T : k \in Int /\ k >= a
  PROVE  \E k \in T : \A j \in T : k <= j
<1> DEFINE U == {n \in Nat : a + n \in T}
           R == {p \in Nat \X Nat : p[1] < p[2]}
<1>1. U # {}
  <2> PICK k \in T : TRUE
    OBVIOUS
  <2> k - a \in U
    OBVIOUS
  <2> QED
    OBVIOUS
<1>2. IsWellFoundedOn(R, Nat)
  <2>1. R = OpToRel(<, Nat)
    BY DEF OpToRel
  <2> QED
    BY <2>1, NatLessThanWellFounded
<1>3. \E x \in U : \A y \in U : <<y, x>> \notin R
  <2> HIDE DEF R
  <2>1. U \subseteq Nat
    OBVIOUS
  <2> HIDE DEF U
  <2> QED
    BY <1>1, <1>2, <2>1, WFMin
<1>4. PICK x \in U : \A y \in U : ~(y < x)
  BY <1>3
<1>5. \A j \in T : j - a \in U
  OBVIOUS
<1> QED
  BY <1>4, <1>5

(* Every non-empty set of numbers up to n has a greatest one.              *)
LEMMA Greatest ==
  ASSUME NEW n \in Nat, NEW T, T # {}, T \subseteq 0..n
  PROVE  \E k \in T : \A j \in T : j <= k
<1> DEFINE U == {n - x : x \in T}
<1>1. U # {} /\ \A k \in U : k \in Int /\ k >= 0
  <2>1. PICK x \in T : TRUE
    OBVIOUS
  <2>2. n - x \in U
    BY <2>1
  <2>3. \A x0 \in T : n - x0 \in Int /\ n - x0 >= 0
    OBVIOUS
  <2> QED BY <2>2, <2>3
<1>2. PICK k \in U : \A j \in U : k <= j
  <2> HIDE DEF U
  <2> QED BY <1>1, Least, 0 \in Int
<1>3. PICK m \in T : k = n - m
  OBVIOUS
<1>4. ASSUME NEW x \in T PROVE x <= m
  <2>1. n - m <= n - x
    BY <1>2, <1>3
  <2> QED BY <2>1
<1> QED BY <1>4

(* Induction along an interval, the predicate being a set.                  *)
LEMMA Climb ==
  ASSUME NEW a \in Int, NEW b \in Int, NEW S,
         a <= b => a \in S,
         \A k \in a..b : k \in S /\ k < b => k + 1 \in S
  PROVE  a..b \subseteq S
<1> DEFINE T == (a..b) \ S
<1>1. SUFFICES T = {}
  OBVIOUS
<1>2. SUFFICES ASSUME T # {} PROVE FALSE
  OBVIOUS
<1>3. PICK k \in T : \A j \in T : k <= j
  <2>1. \A k \in T : k \in Int /\ k >= a
    OBVIOUS
  <2> HIDE DEF T
  <2> QED
    BY <1>2, <2>1, Least
<1>4. k # a /\ k - 1 \in a..b
  OBVIOUS
<1>5. k - 1 \in S
  BY <1>3, <1>4
<1> QED
  BY <1>3, <1>4, <1>5

(* A recursive function on an interval: the first value, and from each     *)
(* value the next.                                                         *)
Steps(a, b, V) == [a..b -> [V -> V]]
Iterable(a, b, V, v, g) ==
  \E f \in [a..b -> V] : \A k \in a..b : f[k] = IF k = a THEN v ELSE g[k][f[k - 1]]

(* There is such a function, so the recursive definition means one.        *)
LEMMA Iterate ==
  ASSUME NEW a \in Int, NEW b \in Int, NEW V, NEW v \in V, NEW g \in Steps(a, b, V)
  PROVE  Iterable(a, b, V, v, g)
<1> USE DEF Steps, Iterable
<1> DEFINE Good(f, n) == \A k \in a..n : f[k] = IF k = a THEN v ELSE g[k][f[k - 1]]
           S == {n \in a..b : \E f \in [a..b -> V] : Good(f, n)}
<1>1. a <= b => a \in S
  <2> DEFINE f == [k \in a..b |-> v]
  <2>1. a <= b => f \in [a..b -> V] /\ Good(f, a) /\ a \in a..b
    OBVIOUS
  <2> HIDE DEF f, Good
  <2> QED
    BY <2>1
<1>2. ASSUME NEW n \in a..b, n \in S, n < b PROVE n + 1 \in S
  <2>1. PICK f \in [a..b -> V] : Good(f, n)
    BY <1>2
  <2> DEFINE h == [f EXCEPT ![n + 1] = g[n + 1][f[n]]]
  <2>2. n + 1 \in a..b /\ n + 1 # a /\ (n + 1) - 1 = n
    BY <1>2
  <2>3. h \in [a..b -> V] /\ h[n + 1] = g[n + 1][f[n]]
    BY <2>2
  <2>4. \A k \in a..n : h[k] = f[k]
    OBVIOUS
  <2>5. ASSUME NEW k \in a..(n + 1)
        PROVE  h[k] = IF k = a THEN v ELSE g[k][h[k - 1]]
    <3> HIDE DEF h
    <3>1. CASE k = n + 1
      BY <2>2, <2>3, <2>4, <3>1
    <3>2. CASE k # n + 1
      <4>1. k \in a..n
        BY <3>2
      <4>2. k # a => k - 1 \in a..n
        BY <4>1
      <4> QED
        BY <2>1, <2>4, <4>1, <4>2
    <3> QED
      BY <3>1, <3>2
  <2>6. Good(h, n + 1)
    BY <2>5
  <2> HIDE DEF h, Good
  <2> QED
    BY <2>2, <2>3, <2>6
<1>3. a..b \subseteq S
  <2> HIDE DEF S
  <2> QED
    BY <1>1, <1>2, Climb
<1>4. CASE a <= b
  <2>1. b \in S
    <3> HIDE DEF S
    <3> QED
      BY <1>3, <1>4
  <2> QED
    BY <2>1
<1>5. CASE ~(a <= b)
  <2>1. [k \in a..b |-> v] \in [a..b -> V] /\ \A k \in a..b : FALSE
    BY <1>5
  <2> QED
    BY <2>1
<1> QED
  BY <1>4, <1>5
=============================================================================
