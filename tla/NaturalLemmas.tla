--------------------------- MODULE NaturalLemmas ---------------------------
(***************************************************************************)
(* Facts about natural numbers that the proofs of several modules need:    *)
(* the least and the largest of a set, for the modules that choose them;   *)
(* induction, stated of sets of numbers; runs of a relation, for functions *)
(* that are defined by recursion.                                          *)
(***************************************************************************)
EXTENDS Integers, WellFoundedInduction, TLAPS

\* A set of naturals has a least element: the first hit that Prune of Limiter
\* keeps.
LEMMA LeastNatural ==
    ASSUME NEW S \in SUBSET Nat, S # {}
    PROVE  \E m \in S : \A n \in S : m <= n
  <1> DEFINE LessThan == {p \in Nat \X Nat : p[1] < p[2]}
  <1>1. IsWellFoundedOn(LessThan, Nat)
    BY NatLessThanWellFounded DEF OpToRel
  <1> HIDE DEF LessThan
  <1>2. PICK m \in S : \A n \in S : <<n, m>> \notin LessThan
    BY <1>1, WFMin
  <1>3. \A n \in S : ~(n < m)
    BY <1>2 DEF LessThan
  <1>4. QED BY <1>3

\* One that is bounded has a largest: the last number that an answer of the
\* server reaches (the x-max-seq of /v1/search and /v1/watch).
LEMMA LargestNatural ==
    ASSUME NEW S \in SUBSET Nat, S # {}, NEW b \in Nat, \A n \in S : n <= b
    PROVE  \E m \in S : \A n \in S : n <= m
  <1> DEFINE Above == {c \in Nat : \A n \in S : n <= c}
  <1>1. PICK m \in Above : \A c \in Above : m <= c
    BY LeastNatural
  <1>2. m \in S
    <2>1. SUFFICES ASSUME m \notin S PROVE FALSE
      OBVIOUS
    <2>2. \A n \in S : n <= m - 1
      BY <1>1, <2>1
    <2>3. m - 1 \in Nat
      <3>1. PICK n \in S : n <= m - 1
        BY <2>2
      <3>2. QED BY <1>1, <3>1
    <2>4. m - 1 \in Above
      BY <2>2, <2>3
    <2>5. QED BY <1>1, <2>4
  <1>3. QED BY <1>1, <1>2

\* Induction over the naturals, for a property given as the set of those that
\* have it: the theorem of the library takes an operator, this one a set.
LEMMA SetInduction ==
    ASSUME NEW S, 0 \in S, \A n \in Nat : n \in S => n + 1 \in S
    PROVE  Nat \subseteq S
  <1> DEFINE Others == {n \in Nat : n \notin S}
  <1>1. SUFFICES ASSUME Others # {} PROVE FALSE
    OBVIOUS
  <1>2. PICK m \in Others : \A n \in Others : m <= n
    BY <1>1, LeastNatural
  <1>3. m # 0 /\ m - 1 \in Nat /\ ~(m <= m - 1)
    BY <1>2
  <1>4. m - 1 \in S
    BY <1>2, <1>3
  <1>5. (m - 1) + 1 \in S
    BY <1>3, <1>4
  <1>6. QED BY <1>2, <1>5

\* A loop whose body always leads on from a value has a run of n rounds: the
\* recursive functions of the models exist.
LEMMA RunExists ==
    ASSUME NEW D, NEW base \in D, NEW n \in Nat,
           NEW Body, \A d \in D, i \in 1..n : \E e \in D : <<d, i, e>> \in Body
    PROVE  \E f \in [0..n -> D] :
               f[0] = base /\ \A i \in 1..n : <<f[i - 1], i, f[i]>> \in Body
  <1> DEFINE Runs(m) == {f \in [0..m -> D] :
                 f[0] = base /\ \A i \in 1..m : <<f[i - 1], i, f[i]>> \in Body}
             S == {m \in Nat : m <= n => Runs(m) # {}}
  <1>1. 0 \in S
    <2>1. [i \in 0..0 |-> base] \in Runs(0)
      OBVIOUS
    <2>2. QED BY <2>1
  <1>2. ASSUME NEW m \in Nat, m \in S PROVE m + 1 \in S
    <2>1. SUFFICES ASSUME m + 1 <= n PROVE Runs(m + 1) # {}
      OBVIOUS
    <2>2. m <= n /\ m + 1 \in 1..n
      BY <2>1
    <2>3. PICK f : f \in Runs(m)
      BY <1>2, <2>2
    <2>4. f[m] \in D
      BY <2>3
    <2>5. PICK last \in D : <<f[m], m + 1, last>> \in Body
      BY <2>2, <2>4
    <2> DEFINE g == [i \in 0..(m + 1) |-> IF i = m + 1 THEN last ELSE f[i]]
    <2>6. g \in [0..(m + 1) -> D]
      BY <2>3
    <2>7. g[0] = base
      BY <2>3
    <2>8. g[m + 1] = last /\ \A i \in 0..m : g[i] = f[i]
      OBVIOUS
    <2> HIDE DEF g
    <2>9. ASSUME NEW i \in 1..(m + 1) PROVE <<g[i - 1], i, g[i]>> \in Body
      <3>1. CASE i = m + 1
        BY <2>5, <2>8, <3>1
      <3>2. CASE i # m + 1
        <4>1. i \in 1..m /\ i \in 0..m /\ i - 1 \in 0..m
          BY <3>2
        <4>2. <<f[i - 1], i, f[i]>> \in Body
          BY <2>3, <4>1
        <4>3. QED BY <2>8, <4>1, <4>2
      <3>3. QED BY <3>1, <3>2
    <2>10. g \in Runs(m + 1)
      BY <2>6, <2>7, <2>9
    <2>11. QED BY <2>10
  <1> HIDE DEF S
  <1>3. n \in S
    BY <1>1, <1>2, SetInduction
  <1>4. QED BY <1>3 DEF S
=============================================================================
