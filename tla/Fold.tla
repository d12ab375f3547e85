-------------------------------- MODULE Fold --------------------------------
(***************************************************************************)
(* Induction over the elements of a sequence or a set that a loop of the   *)
(* program goes through.  A module that uses it names what the loop does   *)
(* for one element and what is kept by that, and instantiates this one.    *)
(***************************************************************************)
EXTENDS SequencesExt, Induction

CONSTANTS
    Op(_, _),       \* one round: what it makes of a value and an element
    Kept(_, _)      \* what holds of the value, for some parameter

----------------------------------------------------------------------------
(* FoldLeft, by its definition: a function on the sets of indices.          *)
IsFold(f, b, s, D) ==
    f = [S \in SUBSET D |->
           IF S = {} THEN b ELSE Op(f[S \ {Max(S)}], s[Max(S)])]

LEMMA MaxIs ==
  ASSUME NEW n \in Nat, NEW S, S \subseteq 1..n, S # {}
  PROVE  Max(S) \in S /\ \A x \in S : Max(S) >= x
<1>1. PICK k \in S : \A x \in S : x <= k
  BY Greatest, 1..n \subseteq 0..n
<1>2. \A x \in S : k >= x
  BY <1>1
<1> QED BY <1>1, <1>2 DEF Max

LEMMA FoldExists ==
  ASSUME NEW n \in Nat, NEW b, NEW s
  PROVE  \E f : IsFold(f, b, s, 1..n)
<1> DEFINE T == {m \in 0..n : \E f : IsFold(f, b, s, 1..m)}
<1>1. 0 \in T
  <2> DEFINE f == [S \in SUBSET (1..0) |-> b]
  <2>1. 1..0 = {}
    OBVIOUS
  <2>2. IsFold(f, b, s, 1..0)
    BY <2>1 DEF IsFold
  <2> HIDE DEF f
  <2> QED BY <2>2
<1>2. ASSUME NEW m \in 0..n, m \in T, m < n PROVE m + 1 \in T
  <2>1. PICK f : IsFold(f, b, s, 1..m)
    BY <1>2
  <2> DEFINE g == [S \in SUBSET (1..(m + 1)) |->
                     IF m + 1 \in S THEN Op(f[S \ {m + 1}], s[m + 1]) ELSE f[S]]
  <2>2. ASSUME NEW S \in SUBSET (1..(m + 1))
        PROVE  g[S] = IF S = {} THEN b ELSE Op(g[S \ {Max(S)}], s[Max(S)])
    <3>1. CASE m + 1 \in S
      <4>1. Max(S) = m + 1
        <5>1. Max(S) \in S /\ Max(S) >= m + 1
          BY <3>1, MaxIs, m + 1 \in Nat
        <5>2. Max(S) \in 1..(m + 1)
          BY <5>1
        <5> QED BY <5>1, <5>2
      <4>2. S \ {m + 1} \in SUBSET (1..m)
        OBVIOUS
      <4>3. S \ {m + 1} \in SUBSET (1..(m + 1)) /\ m + 1 \notin S \ {m + 1}
        OBVIOUS
      <4>4. g[S \ {m + 1}] = f[S \ {m + 1}]
        BY <4>3
      <4>5. g[S] = Op(f[S \ {m + 1}], s[m + 1])
        BY <3>1
      <4> HIDE DEF g
      <4> QED BY <3>1, <4>1, <4>4, <4>5
    <3>2. CASE m + 1 \notin S
      <4>1. S \in SUBSET (1..m)
        BY <3>2
      <4>2. g[S] = f[S]
        BY <3>2
      <4>3. f[S] = IF S = {} THEN b ELSE Op(f[S \ {Max(S)}], s[Max(S)])
        BY <2>1, <4>1 DEF IsFold
      <4>4. S \ {Max(S)} \in SUBSET (1..(m + 1)) /\ m + 1 \notin S \ {Max(S)}
        BY <3>2
      <4>5. g[S \ {Max(S)}] = f[S \ {Max(S)}]
        BY <4>4
      <4> HIDE DEF g
      <4> QED BY <4>2, <4>3, <4>5
    <3> QED BY <3>1, <3>2
  <2>3. IsFold(g, b, s, 1..(m + 1))
    <3>1. g = [S \in SUBSET (1..(m + 1)) |-> g[S]]
      OBVIOUS
    <3> HIDE DEF g
    <3> QED BY <2>2, <3>1 DEF IsFold
  <2> HIDE DEF g
  <2>4. m + 1 \in 0..n
    BY <1>2
  <2> QED BY <2>3, <2>4
<1>3. 0..n \subseteq T
  <2> HIDE DEF T
  <2> QED BY <1>1, <1>2, Climb
<1>4. n \in T
  <2> HIDE DEF T
  <2> QED BY <1>3
<1> QED BY <1>4

LEMMA FoldIs ==
  ASSUME NEW n \in Nat, NEW b, NEW s, DOMAIN s = 1..n
  PROVE  \E f : IsFold(f, b, s, 1..n) /\ FoldLeft(Op, b, s) = f[1..n]
<1> DEFINE g == CHOOSE f : IsFold(f, b, s, 1..n)
<1>1. FoldLeft(Op, b, s) = g[1..n]
  BY DEF FoldLeft, MapThenFoldSet, IsFold
<1>2. IsFold(g, b, s, 1..n)
  BY FoldExists
<1> HIDE DEF g
<1> QED BY <1>1, <1>2

(* What each round keeps, all of them keep.                                *)
LEMMA FoldKeeps ==
  ASSUME NEW n \in Nat, NEW b, NEW s, DOMAIN s = 1..n, NEW p, Kept(p, b),
         \A i \in 1..n : \A c : Kept(p, c) => Kept(p, Op(c, s[i]))
  PROVE  Kept(p, FoldLeft(Op, b, s))
<1>1. PICK f : IsFold(f, b, s, 1..n) /\ FoldLeft(Op, b, s) = f[1..n]
  BY FoldIs
<1> DEFINE T == {m \in 0..n : Kept(p, f[1..m])}
<1>2. 0 \in T
  <2>1. 1..0 = {} /\ {} \in SUBSET (1..n)
    OBVIOUS
  <2>2. f[{}] = b
    BY <1>1, <2>1 DEF IsFold
  <2> QED BY <2>1, <2>2
<1>3. ASSUME NEW m \in 0..n, m \in T, m < n PROVE m + 1 \in T
  <2>1. 1..(m + 1) \in SUBSET (1..n) /\ 1..(m + 1) # {}
    <3>1. m + 1 \in 1..(m + 1) /\ m + 1 <= n
      BY <1>3
    <3>2. \A i \in 1..(m + 1) : i \in 1..n
      BY <3>1
    <3> QED BY <3>1, <3>2
  <2>2. Max(1..(m + 1)) = m + 1
    <3>1. Max(1..(m + 1)) \in 1..(m + 1) /\ Max(1..(m + 1)) >= m + 1
      BY MaxIs, m + 1 \in Nat, m + 1 \in 1..(m + 1)
    <3> QED BY <3>1
  <2>3. 1..(m + 1) \ {m + 1} = 1..m
    OBVIOUS
  <2>4. f[1..(m + 1)] = Op(f[1..m], s[m + 1])
    BY <1>1, <2>1, <2>2, <2>3 DEF IsFold
  <2>5. m + 1 \in 1..n /\ m + 1 \in 0..n
    BY <1>3
  <2>6. Kept(p, f[1..m])
    BY <1>3
  <2> QED BY <2>4, <2>5, <2>6
<1>4. 0..n \subseteq T
  <2> HIDE DEF T
  <2> QED BY <1>2, <1>3, Climb
<1>5. n \in T
  <2> HIDE DEF T
  <2> QED BY <1>4
<1> QED BY <1>1, <1>5
=============================================================================
