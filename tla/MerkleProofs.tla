---------------------------- MODULE MerkleProofs ----------------------------
(***************************************************************************)
(* VerifyInclusion accepts the audit paths of RFC 6962 and nothing else,   *)
(* for trees of any size.  The reference is recursive, from the root down; *)
(* the code goes up from the leaf by shifts.  What joins them is the range *)
(* of leaves below the node that the code has reached, at height h.        *)
(***************************************************************************)
EXTENDS Merkle, NaturalLemmas

-----------------------------------------------------------------------------
(* Powers of two, and where a tree is split *)

\* The powers of two exist as a function on the numbers.
LEMMA PowersOfTwo ==
    /\ \A e \in Nat : Pow2[e] \in Sizes
    /\ Pow2[0] = 1
    /\ \A e \in Nat : Pow2[e + 1] = 2 * Pow2[e]
  <1> DEFINE Doubles(n, f) == f[0] = 1 /\ \A i \in 1..n : f[i] = 2 * f[i - 1]
             Runs(n) == {f \in [0..n -> Sizes] : Doubles(n, f)}
  <1>1. ASSUME NEW n \in Nat PROVE Runs(n) # {}
    <2> DEFINE Body == {t \in Sizes \X Nat \X Sizes : t[3] = 2 * t[1]}
    <2>1. 1 \in Sizes
      BY DEF Sizes
    <2>2. \A d \in Sizes, i \in 1..n : \E e \in Sizes : <<d, i, e>> \in Body
      <3>1. ASSUME NEW d \in Sizes, NEW i \in 1..n
            PROVE  2 * d \in Sizes /\ <<d, i, 2 * d>> \in Body
        BY DEF Sizes
      <3>2. QED BY <3>1
    <2>3. PICK f \in [0..n -> Sizes] : f[0] = 1 /\ \A i \in 1..n : <<f[i - 1], i, f[i]>> \in Body
      <3> HIDE DEF Body
      <3>1. \A base \in Sizes, k \in Nat : \A B :
               (\A d \in Sizes, i \in 1..k : \E e \in Sizes : <<d, i, e>> \in B)
               => \E f \in [0..k -> Sizes] :
                     f[0] = base /\ \A i \in 1..k : <<f[i - 1], i, f[i]>> \in B
        BY RunExists
      <3>2. QED BY <2>1, <2>2, <3>1
    <2>4. \A i \in 1..n : f[i] = 2 * f[i - 1]
      BY <2>3
    <2>5. QED BY <2>3, <2>4
  <1>2. ASSUME NEW n \in Nat, NEW f \in Runs(n), NEW m \in Nat, NEW g \in Runs(m)
        PROVE  \A i \in Nat : i <= n /\ i <= m => f[i] = g[i]
    <2> DEFINE S == {i \in Nat : i <= n /\ i <= m => f[i] = g[i]}
    <2>1. 0 \in S
      OBVIOUS
    <2>2. ASSUME NEW i \in Nat, i \in S PROVE i + 1 \in S
      <3>1. SUFFICES ASSUME i + 1 <= n, i + 1 <= m PROVE f[i + 1] = g[i + 1]
        OBVIOUS
      <3>2. f[i] = g[i] /\ i + 1 \in 1..n /\ i + 1 \in 1..m /\ (i + 1) - 1 = i
        BY <2>2, <3>1
      <3>3. f[i + 1] = 2 * f[i] /\ g[i + 1] = 2 * g[i]
        BY <3>2
      <3>4. QED BY <3>2, <3>3
    <2> HIDE DEF S
    <2>3. Nat \subseteq S
      BY <2>1, <2>2, SetInduction
    <2>4. QED BY <2>3 DEF S
  <1> DEFINE run(n) == CHOOSE f \in Runs(n) : TRUE
             G == [n \in Nat |-> run(n)[n]]
  <1>3. ASSUME NEW n \in Nat PROVE run(n) \in Runs(n)
    BY <1>1
  <1> HIDE DEF run
  <1>4. \A n \in Nat : G[n] \in Sizes
    <2>1. ASSUME NEW n \in Nat PROVE run(n)[n] \in Sizes
      BY <1>3
    <2>2. QED BY <2>1
  <1>5. G[0] = 1
    BY <1>3
  <1>6. ASSUME NEW n \in Nat, n # 0 PROVE G[n] = 2 * G[n - 1]
    <2>1. n - 1 \in Nat /\ n \in 1..n
      BY <1>6
    <2>2. run(n)[n] = 2 * run(n)[n - 1]
      BY <1>3, <2>1
    <2>3. run(n)[n - 1] = run(n - 1)[n - 1]
      <3>1. run(n) \in Runs(n) /\ run(n - 1) \in Runs(n - 1)
        BY <1>3, <2>1
      <3>2. \A i \in Nat : i <= n /\ i <= n - 1 => run(n)[i] = run(n - 1)[i]
        <4> HIDE DEF Runs
        <4>1. QED BY <1>2, <2>1, <3>1
      <3>3. QED BY <2>1, <3>2
    <2>4. QED BY <2>1, <2>2, <2>3
  <1>7. G = [e \in Nat |-> IF e = 0 THEN 1 ELSE 2 * G[e - 1]]
    BY <1>5, <1>6
  <1> HIDE DEF G
  <1>8. Pow2 = [e \in Nat |-> IF e = 0 THEN 1 ELSE 2 * Pow2[e - 1]]
    BY <1>7 DEF Pow2
  <1>9. \A e \in Nat : Pow2[e] = G[e]
    <2> DEFINE S == {e \in Nat : Pow2[e] = G[e]}
    <2>1. 0 \in S
      BY <1>5, <1>8
    <2>2. ASSUME NEW e \in Nat, e \in S PROVE e + 1 \in S
      <3>1. Pow2[e + 1] = 2 * Pow2[e]
        BY <1>8
      <3>2. G[e + 1] = 2 * G[e]
        BY <1>6
      <3>3. QED BY <2>2, <3>1, <3>2
    <2> HIDE DEF S
    <2>3. Nat \subseteq S
      BY <2>1, <2>2, SetInduction
    <2>4. QED BY <2>3 DEF S
  <1>10. ASSUME NEW e \in Nat PROVE Pow2[e + 1] = 2 * Pow2[e]
    BY <1>8
  <1>11. QED BY <1>4, <1>8, <1>9, <1>10

\* Powers of two grow, each at least to the double of every smaller one and
\* divided by it.
LEMMA PowersGrow ==
    ASSUME NEW d \in Nat, NEW e \in Nat, d < e
    PROVE  \E c \in Sizes : Pow2[e] = 2 * c * Pow2[d]
  <1> DEFINE S == {k \in Nat : \E c \in Sizes : Pow2[d + k + 1] = 2 * c * Pow2[d]}
  <1>1. 0 \in S
    <2>1. Pow2[d + 0 + 1] = 2 * 1 * Pow2[d] /\ 1 \in Sizes
      BY PowersOfTwo DEF Sizes
    <2>2. QED BY <2>1
  <1>2. ASSUME NEW k \in Nat, k \in S PROVE k + 1 \in S
    <2>1. PICK c \in Sizes : Pow2[d + k + 1] = 2 * c * Pow2[d]
      BY <1>2
    <2>2. Pow2[d + (k + 1) + 1] = 2 * Pow2[d + k + 1]
      BY PowersOfTwo
    <2>3. 2 * c \in Sizes /\ c \in Nat /\ Pow2[d] \in Nat
      BY PowersOfTwo DEF Sizes
    <2>4. 2 * (2 * c * Pow2[d]) = 2 * (2 * c) * Pow2[d]
      BY <2>3
    <2>5. QED BY <2>1, <2>2, <2>3, <2>4
  <1> HIDE DEF S
  <1>3. e - d - 1 \in S
    BY <1>1, <1>2, SetInduction
  <1>4. d + (e - d - 1) + 1 = e
    OBVIOUS
  <1>5. QED BY <1>3, <1>4 DEF S

LEMMA PowersDouble ==
    ASSUME NEW d \in Nat, NEW e \in Nat
    PROVE  /\ d < e => 2 * Pow2[d] <= Pow2[e]
           /\ Pow2[d] < Pow2[e] => d < e
           /\ Pow2[d] < Pow2[e] => 2 * Pow2[d] <= Pow2[e]
  <1>1. ASSUME NEW a \in Nat, NEW b \in Nat, a < b PROVE 2 * Pow2[a] <= Pow2[b]
    <2>1. PICK c \in Sizes : Pow2[b] = 2 * c * Pow2[a]
      BY <1>1, PowersGrow
    <2>2. c \in Nat /\ c >= 1 /\ Pow2[a] \in Nat
      BY PowersOfTwo DEF Sizes
    <2>3. c * Pow2[a] >= Pow2[a] /\ c * Pow2[a] \in Nat
      BY <2>2
    <2>4. QED BY <2>1, <2>2, <2>3
  <1>2. Pow2[d] \in Nat /\ Pow2[e] \in Nat /\ Pow2[d] > 0 /\ Pow2[e] > 0
    BY PowersOfTwo DEF Sizes
  <1>3. Pow2[d] < Pow2[e] => d < e
    <2>1. SUFFICES ASSUME e <= d, Pow2[d] < Pow2[e] PROVE FALSE
      OBVIOUS
    <2>2. e < d
      BY <2>1, <1>2
    <2>3. 2 * Pow2[e] <= Pow2[d]
      BY <1>1, <2>2
    <2>4. QED BY <1>2, <2>1, <2>3
  <1>4. QED BY <1>1, <1>3

\* The split of a tree is the one power of two with these bounds.
LEMMA SplitIsThePower ==
    ASSUME NEW n \in Sizes, n # 1
    PROVE  /\ \E e \in Nat : Split(n) = Pow2[e]
           /\ Split(n) \in 1..(n - 1) /\ n - Split(n) \in 1..(n - 1)
           /\ n <= 2 * Split(n)
           /\ \A e \in Nat : Pow2[e] < n /\ n <= 2 * Pow2[e] => Split(n) = Pow2[e]
  <1> DEFINE Fits(k) == k < n /\ n <= 2 * k
             S == {b \in Nat : b < 2 \/ \E e \in 0..b : Pow2[e] < b /\ b <= 2 * Pow2[e]}
  <1>1. 0 \in S
    OBVIOUS
  <1>2. ASSUME NEW b \in Nat, b \in S PROVE b + 1 \in S
    <2>1. CASE b + 1 < 2
      BY <2>1
    <2>2. CASE b = 1
      <3>1. Pow2[0] = 1 /\ 0 \in 0..(b + 1)
        BY PowersOfTwo
      <3>2. QED BY <2>2, <3>1
    <2>3. CASE b >= 2
      <3>1. PICK e \in 0..b : Pow2[e] < b /\ b <= 2 * Pow2[e]
        BY <1>2, <2>3
      <3>2. Pow2[e] \in Nat /\ Pow2[e + 1] = 2 * Pow2[e] /\ e \in 0..(b + 1) /\ e + 1 \in 0..(b + 1)
        BY PowersOfTwo DEF Sizes
      <3>3. CASE b + 1 <= 2 * Pow2[e]
        BY <3>1, <3>2, <3>3
      <3>4. CASE ~(b + 1 <= 2 * Pow2[e])
        <4>1. Pow2[e + 1] < b + 1 /\ b + 1 <= 2 * Pow2[e + 1]
          BY <2>3, <3>1, <3>2, <3>4
        <4>2. QED BY <3>2, <4>1
      <3>5. QED BY <3>3, <3>4
    <2>4. QED BY <2>1, <2>2, <2>3
  <1> HIDE DEF S
  <1>3. n \in S
    BY <1>1, <1>2, SetInduction DEF Sizes
  <1>4. n \in Nat /\ n >= 2
    BY DEF Sizes
  <1>5. \E k \in {Pow2[e] : e \in 0..n} : Fits(k)
    BY <1>3, <1>4 DEF S
  <1>6. Split(n) \in {Pow2[e] : e \in 0..n} /\ Fits(Split(n))
    BY <1>5 DEF Split
  <1>7. PICK e \in 0..n : Split(n) = Pow2[e]
    BY <1>6
  <1>8. Split(n) \in Nat /\ e \in Nat
    BY <1>7, PowersOfTwo DEF Sizes
  <1>9. ASSUME NEW d \in Nat, Fits(Pow2[d]) PROVE Split(n) = Pow2[d]
    <2>1. Pow2[d] \in Nat
      BY PowersOfTwo DEF Sizes
    <2>2. ~(Pow2[d] < Pow2[e]) /\ ~(Pow2[e] < Pow2[d])
      BY <1>4, <1>6, <1>7, <1>8, <1>9, <2>1, PowersDouble
    <2>3. QED BY <1>7, <1>8, <2>1, <2>2
  <1>10. QED BY <1>4, <1>6, <1>7, <1>8, <1>9

-----------------------------------------------------------------------------
(* The reference: the tree and its audit paths *)

\* Two hashes are equal only if they hash the same things.
LEMMA Hashes ==
    /\ \A i, j : Leaf(i) = Leaf(j) => i = j
    /\ \A a, b, c, d : Node(a, b) = Node(c, d) => a = c /\ b = d
    /\ \A i : Leaf(i) # Short
    /\ \A a, b : Node(a, b) # Short
    /\ \A i, a, b : Leaf(i) # Node(a, b)
  <1>1. \A i, j : Leaf(i) = Leaf(j) => i = j
    BY DEF Leaf
  <1>2. \A a, b, c, d : Node(a, b) = Node(c, d) => a = c /\ b = d
    BY DEF Node
  <1>3. \A i : Leaf(i) # Short
    BY DEF Leaf, Short
  <1>4. \A a, b : Node(a, b) # Short
    BY DEF Node, Short
  <1>5. \A i, a, b : Leaf(i) # Node(a, b)
    BY DEF Leaf, Node
  <1>6. QED BY <1>1, <1>2, <1>3, <1>4, <1>5

\* The recursion of the tree has a solution: a tree is made of smaller ones.
LEMMA TreeEquation ==
    /\ \A n \in Sizes, lo \in Nat :
          n # 1 => Tree[n][lo] = Node(Tree[Split(n)][lo], Tree[n - Split(n)][lo + Split(n)])
    /\ \A lo \in Nat : Tree[1][lo] = Leaf(lo)
  <1> DEFINE Row(f, n) ==
                 [lo \in Nat |->
                    IF n = 1 THEN Leaf(lo)
                    ELSE Node(f[Split(n)][lo], f[n - Split(n)][lo + Split(n)])]
             IsTree(b, f) == \A n \in 1..b : f[n] = Row(f, n)
  <1>1. ASSUME NEW n \in Sizes, NEW f, NEW g, \A k \in 1..(n - 1) : f[k] = g[k]
        PROVE  Row(f, n) = Row(g, n)
    <2>1. CASE n = 1
      BY <2>1
    <2>2. CASE n # 1
      <3>1. Split(n) \in 1..(n - 1) /\ n - Split(n) \in 1..(n - 1)
        BY <2>2, SplitIsThePower
      <3>2. f[Split(n)] = g[Split(n)] /\ f[n - Split(n)] = g[n - Split(n)]
        BY <1>1, <3>1
      <3>3. QED BY <3>2
    <2>3. QED BY <2>1, <2>2
  <1> HIDE DEF Row
  <1>2. ASSUME NEW b \in Nat PROVE \E f : IsTree(b, f)
    <2> DEFINE S == {c \in Nat : \E f : IsTree(c, f)}
    <2>1. 0 \in S
      OBVIOUS
    <2>2. ASSUME NEW c \in Nat, c \in S PROVE c + 1 \in S
      <3>1. PICK f : IsTree(c, f)
        BY <2>2
      <3> DEFINE g == [n \in 1..(c + 1) |-> IF n = c + 1 THEN Row(f, n) ELSE f[n]]
      <3>2. ASSUME NEW n \in 1..(c + 1) PROVE g[n] = Row(g, n)
        <4>1. n \in Sizes /\ \A k \in 1..(n - 1) : g[k] = f[k]
          BY DEF Sizes
        <4>2. Row(g, n) = Row(f, n)
          <5> HIDE DEF g
          <5>1. QED BY <4>1, <1>1
        <4>3. g[n] = Row(f, n)
          BY <3>1
        <4>4. QED BY <4>2, <4>3
      <3> HIDE DEF g
      <3>3. QED BY <3>2
    <2> HIDE DEF S
    <2>3. b \in S
      BY <2>1, <2>2, SetInduction
    <2>4. QED BY <2>3 DEF S
  <1>3. ASSUME NEW b \in Nat, NEW c \in Nat, b <= c, NEW f, IsTree(b, f), NEW g, IsTree(c, g)
        PROVE  \A n \in 1..b : f[n] = g[n]
    <2> DEFINE S == {d \in Nat : d <= b => \A n \in 1..d : f[n] = g[n]}
    <2>1. 0 \in S
      OBVIOUS
    <2>2. ASSUME NEW d \in Nat, d \in S PROVE d + 1 \in S
      <3>1. SUFFICES ASSUME d + 1 <= b PROVE f[d + 1] = g[d + 1] /\ \A n \in 1..d : f[n] = g[n]
        OBVIOUS
      <3>2. \A n \in 1..d : f[n] = g[n]
        BY <2>2, <3>1
      <3>3. d + 1 \in Sizes /\ (d + 1) - 1 = d
        BY DEF Sizes
      <3>4. Row(f, d + 1) = Row(g, d + 1)
        BY <1>1, <3>2, <3>3
      <3>5. f[d + 1] = Row(f, d + 1) /\ g[d + 1] = Row(g, d + 1)
        BY <1>3, <3>1
      <3>6. QED BY <3>2, <3>4, <3>5
    <2> HIDE DEF S
    <2>3. b \in S
      BY <2>1, <2>2, SetInduction
    <2>4. QED BY <2>3 DEF S
  <1> DEFINE some(b) == CHOOSE f : IsTree(b, f)
             F == [n \in Sizes |-> some(n)[n]]
  <1>4. ASSUME NEW b \in Nat PROVE IsTree(b, some(b))
    BY <1>2
  <1> HIDE DEF some, IsTree
  <1>5. ASSUME NEW n \in Sizes PROVE F[n] = Row(F, n)
    <2>1. n \in Nat /\ n \in 1..n
      BY DEF Sizes
    <2>2. F[n] = Row(some(n), n)
      BY <1>4, <2>1 DEF IsTree
    <2>3. ASSUME NEW k \in 1..(n - 1) PROVE some(n)[k] = F[k]
      <3>1. k \in Nat /\ k \in Sizes /\ k <= n /\ k \in 1..k
        BY <2>1 DEF Sizes
      <3>2. \A j \in 1..k : some(k)[j] = some(n)[j]
        BY <1>3, <1>4, <2>1, <3>1
      <3>3. QED BY <3>1, <3>2
    <2> HIDE DEF F
    <2>4. QED BY <1>1, <2>2, <2>3
  <1>6. F = [n \in Sizes |-> Row(F, n)]
    <2>1. F = [n \in Sizes |-> F[n]]
      OBVIOUS
    <2> HIDE DEF F
    <2>2. QED BY <1>5, <2>1
  <1> HIDE DEF F
  <1>7. Tree = [n \in Sizes |-> Row(Tree, n)]
    <2>1. F = [n \in Sizes |-> [lo \in Nat |->
                  IF n = 1 THEN Leaf(lo)
                  ELSE Node(F[Split(n)][lo], F[n - Split(n)][lo + Split(n)])]]
      BY <1>6 DEF Row
    <2> HIDE DEF Row
    <2>2. Tree = [n \in Sizes |-> [lo \in Nat |->
                  IF n = 1 THEN Leaf(lo)
                  ELSE Node(Tree[Split(n)][lo], Tree[n - Split(n)][lo + Split(n)])]]
      BY <2>1 DEF Tree
    <2>3. QED BY <2>2 DEF Row
  <1>8. 1 \in Sizes
    BY DEF Sizes
  <1>9. QED BY <1>7, <1>8 DEF Row

\* And so has the recursion of the audit paths.
LEMMA PathEquation ==
    /\ \A n \in Sizes, lo \in Nat, m \in Nat :
          n # 1 => AuditPath[n][lo][m] =
                     IF m < Split(n)
                     THEN Append(AuditPath[Split(n)][lo][m], Tree[n - Split(n)][lo + Split(n)])
                     ELSE Append(AuditPath[n - Split(n)][lo + Split(n)][m - Split(n)],
                                 Tree[Split(n)][lo])
    /\ \A lo \in Nat, m \in Nat : AuditPath[1][lo][m] = <<>>
  <1> DEFINE Row(f, n) ==
                 [lo \in Nat |-> [m \in Nat |->
                    IF n = 1 THEN <<>>
                    ELSE IF m < Split(n)
                         THEN Append(f[Split(n)][lo][m], Tree[n - Split(n)][lo + Split(n)])
                         ELSE Append(f[n - Split(n)][lo + Split(n)][m - Split(n)],
                                     Tree[Split(n)][lo])]]
             IsPath(b, f) == \A n \in 1..b : f[n] = Row(f, n)
  <1>1. ASSUME NEW n \in Sizes, NEW f, NEW g, \A k \in 1..(n - 1) : f[k] = g[k]
        PROVE  Row(f, n) = Row(g, n)
    <2>1. CASE n = 1
      BY <2>1
    <2>2. CASE n # 1
      <3>1. Split(n) \in 1..(n - 1) /\ n - Split(n) \in 1..(n - 1)
        BY <2>2, SplitIsThePower
      <3>2. f[Split(n)] = g[Split(n)] /\ f[n - Split(n)] = g[n - Split(n)]
        BY <1>1, <3>1
      <3>3. QED BY <3>2
    <2>3. QED BY <2>1, <2>2
  <1> HIDE DEF Row
  <1>2. ASSUME NEW b \in Nat PROVE \E f : IsPath(b, f)
    <2> DEFINE S == {c \in Nat : \E f : IsPath(c, f)}
    <2>1. 0 \in S
      OBVIOUS
    <2>2. ASSUME NEW c \in Nat, c \in S PROVE c + 1 \in S
      <3>1. PICK f : IsPath(c, f)
        BY <2>2
      <3> DEFINE g == [n \in 1..(c + 1) |-> IF n = c + 1 THEN Row(f, n) ELSE f[n]]
      <3>2. ASSUME NEW n \in 1..(c + 1) PROVE g[n] = Row(g, n)
        <4>1. n \in Sizes /\ \A k \in 1..(n - 1) : g[k] = f[k]
          BY DEF Sizes
        <4>2. Row(g, n) = Row(f, n)
          <5> HIDE DEF g
          <5>1. QED BY <4>1, <1>1
        <4>3. g[n] = Row(f, n)
          BY <3>1
        <4>4. QED BY <4>2, <4>3
      <3> HIDE DEF g
      <3>3. QED BY <3>2
    <2> HIDE DEF S
    <2>3. b \in S
      BY <2>1, <2>2, SetInduction
    <2>4. QED BY <2>3 DEF S
  <1>3. ASSUME NEW b \in Nat, NEW c \in Nat, b <= c, NEW f, IsPath(b, f), NEW g, IsPath(c, g)
        PROVE  \A n \in 1..b : f[n] = g[n]
    <2> DEFINE S == {d \in Nat : d <= b => \A n \in 1..d : f[n] = g[n]}
    <2>1. 0 \in S
      OBVIOUS
    <2>2. ASSUME NEW d \in Nat, d \in S PROVE d + 1 \in S
      <3>1. SUFFICES ASSUME d + 1 <= b PROVE f[d + 1] = g[d + 1] /\ \A n \in 1..d : f[n] = g[n]
        OBVIOUS
      <3>2. \A n \in 1..d : f[n] = g[n]
        BY <2>2, <3>1
      <3>3. d + 1 \in Sizes /\ (d + 1) - 1 = d
        BY DEF Sizes
      <3>4. Row(f, d + 1) = Row(g, d + 1)
        BY <1>1, <3>2, <3>3
      <3>5. f[d + 1] = Row(f, d + 1) /\ g[d + 1] = Row(g, d + 1)
        BY <1>3, <3>1
      <3>6. QED BY <3>2, <3>4, <3>5
    <2> HIDE DEF S
    <2>3. b \in S
      BY <2>1, <2>2, SetInduction
    <2>4. QED BY <2>3 DEF S
  <1> DEFINE some(b) == CHOOSE f : IsPath(b, f)
             F == [n \in Sizes |-> some(n)[n]]
  <1>4. ASSUME NEW b \in Nat PROVE IsPath(b, some(b))
    BY <1>2
  <1> HIDE DEF some, IsPath
  <1>5. ASSUME NEW n \in Sizes PROVE F[n] = Row(F, n)
    <2>1. n \in Nat /\ n \in 1..n
      BY DEF Sizes
    <2>2. F[n] = Row(some(n), n)
      BY <1>4, <2>1 DEF IsPath
    <2>3. ASSUME NEW k \in 1..(n - 1) PROVE some(n)[k] = F[k]
      <3>1. k \in Nat /\ k \in Sizes /\ k <= n /\ k \in 1..k
        BY <2>1 DEF Sizes
      <3>2. \A j \in 1..k : some(k)[j] = some(n)[j]
        BY <1>3, <1>4, <2>1, <3>1
      <3>3. QED BY <3>1, <3>2
    <2> HIDE DEF F
    <2>4. QED BY <1>1, <2>2, <2>3
  <1>6. F = [n \in Sizes |-> Row(F, n)]
    <2>1. F = [n \in Sizes |-> F[n]]
      OBVIOUS
    <2> HIDE DEF F
    <2>2. QED BY <1>5, <2>1
  <1> HIDE DEF F
  <1>7. AuditPath = [n \in Sizes |-> Row(AuditPath, n)]
    <2>1. F = [n \in Sizes |-> [lo \in Nat |-> [m \in Nat |->
                  IF n = 1 THEN <<>>
                  ELSE IF m < Split(n)
                       THEN Append(F[Split(n)][lo][m], Tree[n - Split(n)][lo + Split(n)])
                       ELSE Append(F[n - Split(n)][lo + Split(n)][m - Split(n)],
                                   Tree[Split(n)][lo])]]]
      BY <1>6 DEF Row
    <2> HIDE DEF Row
    <2>2. AuditPath = [n \in Sizes |-> [lo \in Nat |-> [m \in Nat |->
                  IF n = 1 THEN <<>>
                  ELSE IF m < Split(n)
                       THEN Append(AuditPath[Split(n)][lo][m], Tree[n - Split(n)][lo + Split(n)])
                       ELSE Append(AuditPath[n - Split(n)][lo + Split(n)][m - Split(n)],
                                   Tree[Split(n)][lo])]]]
      BY <2>1 DEF AuditPath
    <2>3. QED BY <2>2 DEF Row
  <1>8. 1 \in Sizes
    BY DEF Sizes
  <1>9. ASSUME NEW n \in Sizes, NEW lo \in Nat, NEW m \in Nat
        PROVE  AuditPath[n][lo][m] = Row(AuditPath, n)[lo][m]
    <2>1. AuditPath[n] = Row(AuditPath, n)
      <3> DEFINE R(n0) == Row(AuditPath, n0)
      <3> HIDE DEF R
      <3>1. AuditPath = [n0 \in Sizes |-> R(n0)]
        BY <1>7 DEF R
      <3>2. AuditPath[n] = R(n)
        BY <3>1
      <3>3. QED BY <3>2 DEF R
    <2>2. QED BY <2>1
  <1>10. ASSUME NEW n \in Sizes, NEW lo \in Nat, NEW m \in Nat
         PROVE  Row(AuditPath, n)[lo][m] =
                  IF n = 1 THEN <<>>
                  ELSE IF m < Split(n)
                       THEN Append(AuditPath[Split(n)][lo][m], Tree[n - Split(n)][lo + Split(n)])
                       ELSE Append(AuditPath[n - Split(n)][lo + Split(n)][m - Split(n)],
                                   Tree[Split(n)][lo])
    BY DEF Row
  <1>11. QED BY <1>8, <1>9, <1>10

-----------------------------------------------------------------------------
\* Every hash of a tree, of any size and place.
Trees == UNION {{Tree[n][lo] : lo \in Nat} : n \in Sizes}

LEMMA TreesAreHashes ==
    /\ \A n \in Sizes, lo \in Nat : Tree[n][lo] \in Trees
    /\ Short \notin Trees
  <1>1. \A n \in Sizes, lo \in Nat : Tree[n][lo] \in Trees
    BY DEF Trees
  <1>2. \A n \in Sizes, lo \in Nat : Tree[n][lo] # Short
    BY TreeEquation, Hashes
  <1>3. Short \notin Trees
    BY <1>2 DEF Trees
  <1>4. QED BY <1>1, <1>3

\* An audit path is a sequence of hashes of trees.
LEMMA PathsAreHashes ==
    ASSUME NEW n \in Sizes, NEW lo \in Nat, NEW m \in Nat
    PROVE  AuditPath[n][lo][m] \in Seq(Trees)
  <1> DEFINE S == {b \in Nat : \A k \in 1..b : \A l \in Nat, i \in Nat : AuditPath[k][l][i] \in Seq(Trees)}
  <1>1. 0 \in S
    OBVIOUS
  <1>2. ASSUME NEW b \in Nat, b \in S PROVE b + 1 \in S
    <2>1. ASSUME NEW l \in Nat, NEW i \in Nat PROVE AuditPath[b + 1][l][i] \in Seq(Trees)
      <3>1. CASE b + 1 = 1
        <4>1. <<>> \in Seq(Trees) /\ AuditPath[1][l][i] = <<>>
          BY PathEquation
        <4>2. QED BY <3>1, <4>1
      <3>2. CASE b + 1 # 1
        <4> DEFINE k == Split(b + 1)
        <4>1. b + 1 \in Sizes
          BY DEF Sizes
        <4>2. k \in 1..b /\ (b + 1) - k \in 1..b
          BY <3>2, <4>1, SplitIsThePower
        <4>3. k \in Sizes /\ (b + 1) - k \in Sizes /\ l + k \in Nat
          BY <4>2 DEF Sizes
        <4>4. Tree[(b + 1) - k][l + k] \in Trees /\ Tree[k][l] \in Trees
          BY <4>3, TreesAreHashes
        <4>5. AuditPath[b + 1][l][i] =
                IF i < k THEN Append(AuditPath[k][l][i], Tree[(b + 1) - k][l + k])
                ELSE Append(AuditPath[(b + 1) - k][l + k][i - k], Tree[k][l])
          BY <3>2, <4>1, PathEquation
        <4> HIDE DEF k
        <4>6. AuditPath[k][l][i] \in Seq(Trees)
          BY <1>2, <4>2
        <4>7. i >= k => i - k \in Nat
          BY <4>2
        <4>8. i >= k => AuditPath[(b + 1) - k][l + k][i - k] \in Seq(Trees)
          BY <1>2, <4>2, <4>3, <4>7
        <4>9. CASE i < k
          BY <4>4, <4>5, <4>6, <4>9
        <4>10. CASE ~(i < k)
          <5>1. i >= k
            BY <4>2, <4>10
          <5>2. QED BY <4>4, <4>5, <4>8, <4>10, <5>1
        <4>11. QED BY <4>9, <4>10
      <3>3. QED BY <3>1, <3>2
    <2>2. \A k \in 1..(b + 1) : k = b + 1 \/ k \in 1..b
      OBVIOUS
    <2>3. ASSUME NEW k \in 1..(b + 1), NEW l \in Nat, NEW i \in Nat
          PROVE  AuditPath[k][l][i] \in Seq(Trees)
      <3>1. CASE k = b + 1
        BY <2>1, <3>1
      <3>2. CASE k \in 1..b
        BY <1>2, <3>2
      <3>3. QED BY <2>2, <3>1, <3>2
    <2>4. b + 1 \in Nat
      OBVIOUS
    <2>5. QED BY <2>3, <2>4
  <1> HIDE DEF S
  <1>3. n \in S
    BY <1>1, <1>2, SetInduction DEF Sizes
  <1>4. n \in 1..n
    BY DEF Sizes
  <1>5. QED BY <1>3, <1>4 DEF S

-----------------------------------------------------------------------------
(* Positions: node f of height h, where s is the last one of that height *)

\* The position above leaf m of a tree of b leaves.
At(b, m, h, f, s) ==
    /\ h \in Nat /\ f \in Nat /\ s \in Nat /\ f <= s
    /\ f * Pow2[h] <= m /\ m < f * Pow2[h] + Pow2[h]
    /\ s * Pow2[h] <= b - 1 /\ b - 1 < s * Pow2[h] + Pow2[h]

\* The leaves below it: the first one, and how many.
First(h, f) == f * Pow2[h]

Width(b, h, f, s) == IF f < s THEN Pow2[h] ELSE b - f * Pow2[h]

LEMMA PositionRange ==
    ASSUME NEW b \in Sizes, NEW m \in 0..(b - 1), NEW h, NEW f, NEW s, At(b, m, h, f, s)
    PROVE  /\ First(h, f) \in Nat /\ First(h, f) <= m
           /\ Pow2[h] \in Nat /\ Pow2[h] > 0
           /\ Width(b, h, f, s) \in 1..Pow2[h] /\ Width(b, h, f, s) \in Sizes
           /\ m < First(h, f) + Width(b, h, f, s)
           /\ f < s => First(h, f) + Pow2[h] < b
           /\ f = s => Width(b, h, f, s) = b - First(h, f) /\ b <= First(h, f) + Pow2[h]
           /\ m - First(h, f) \in Nat
  <1> DEFINE P == Pow2[h]
  <1>1. h \in Nat /\ f \in Nat /\ s \in Nat /\ f <= s /\ b \in Nat /\ b > 0 /\ m \in Nat
    BY DEF At, Sizes
  <1>2. P \in Nat /\ P > 0
    BY <1>1, PowersOfTwo DEF Sizes
  <1>3. f * P <= m /\ m < f * P + P /\ s * P <= b - 1 /\ b - 1 < s * P + P
    BY DEF At
  <1> HIDE DEF P
  <1>4. f * P \in Nat /\ s * P \in Nat
    BY <1>1, <1>2
  <1>5. f < s => f * P + P <= s * P
    BY <1>1, <1>2
  <1>6. CASE f < s
    <2>1. Width(b, h, f, s) = P
      BY <1>6 DEF Width, P
    <2>2. QED BY <1>1, <1>2, <1>3, <1>4, <1>5, <1>6, <2>1 DEF First, P, Sizes
  <1>7. CASE f = s
    <2>1. Width(b, h, f, s) = b - f * P
      BY <1>1, <1>7 DEF Width, P
    <2>2. b - f * P \in 1..P /\ b <= f * P + P /\ m < f * P + (b - f * P)
      BY <1>1, <1>2, <1>3, <1>4, <1>7
    <2>3. QED BY <1>1, <1>2, <1>3, <1>4, <1>7, <2>1, <2>2 DEF First, P, Sizes
  <1>8. QED BY <1>1, <1>6, <1>7

-----------------------------------------------------------------------------
\* What the reference has for that position: the hash below it, and the audit
\* path of leaf m within it.
TreeAt(b, h, f, s) == Tree[Width(b, h, f, s)][First(h, f)]

PathAt(b, m, h, f, s) == AuditPath[Width(b, h, f, s)][First(h, f)][m - First(h, f)]

\* What a shift leaves of a number.
LEMMA Halves ==
    ASSUME NEW n \in Nat
    PROVE  /\ n \div 2 \in Nat
           /\ n % 2 = 0 \/ n % 2 = 1
           /\ n % 2 = 0 => n = 2 * (n \div 2)
           /\ n % 2 = 1 => n = 2 * (n \div 2) + 1
  <1>1. n \div 2 \in Nat /\ (n % 2 = 0 \/ n % 2 = 1)
    OBVIOUS
  <1>2. n % 2 = 0 => n = 2 * (n \div 2)
    OBVIOUS
  <1>3. n % 2 = 1 => n = 2 * (n \div 2) + 1
    OBVIOUS
  <1>4. QED BY <1>1, <1>2, <1>3

LEMMA HalvesGrow ==
    ASSUME NEW n \in Nat, NEW k \in Nat, n <= k
    PROVE  n \div 2 <= k \div 2
  OBVIOUS

LEMMA Doubling ==
    ASSUME NEW n \in Nat, NEW k \in Nat
    PROVE  (2 * n) * k = n * (2 * k) /\ (2 * n + 1) * k = n * (2 * k) + k
  OBVIOUS

\* A shift goes up one level.
LEMMA UpALevel ==
    ASSUME NEW b \in Sizes, NEW m \in 0..(b - 1), NEW h, NEW f, NEW s, At(b, m, h, f, s)
    PROVE  /\ At(b, m, h + 1, f \div 2, s \div 2)
           /\ Pow2[h + 1] = 2 * Pow2[h]
           /\ f % 2 = 0 => First(h + 1, f \div 2) = First(h, f)
           /\ f % 2 = 1 => First(h + 1, f \div 2) = First(h, f) - Pow2[h]
           /\ f % 2 = 0 \/ f % 2 = 1
  <1> DEFINE P == Pow2[h]
             g == f \div 2
             t == s \div 2
  <1>1. h \in Nat /\ f \in Nat /\ s \in Nat /\ f <= s /\ b \in Nat /\ m \in Nat
    BY DEF At, Sizes
  <1>2. P \in Nat /\ P > 0 /\ Pow2[h + 1] = 2 * P
    BY <1>1, PowersOfTwo DEF Sizes
  <1>3. f * P <= m /\ m < f * P + P /\ s * P <= b - 1 /\ b - 1 < s * P + P
    BY DEF At
  <1>4. /\ g \in Nat /\ (f % 2 = 0 \/ f % 2 = 1)
        /\ (f % 2 = 0 => f = 2 * g) /\ (f % 2 = 1 => f = 2 * g + 1)
        /\ t \in Nat /\ (s % 2 = 0 \/ s % 2 = 1)
        /\ (s % 2 = 0 => s = 2 * t) /\ (s % 2 = 1 => s = 2 * t + 1)
        /\ g <= t
    BY <1>1, Halves, HalvesGrow
  <1> HIDE DEF P, g, t
  <1>5. g * (2 * P) \in Nat /\ t * (2 * P) \in Nat
    BY <1>2, <1>4
  <1>6. f % 2 = 0 => f * P = g * (2 * P)
    <2>1. (2 * g) * P = g * (2 * P)
      BY <1>2, <1>4, Doubling
    <2>2. f % 2 = 0 => f = 2 * g
      BY <1>4
    <2>3. QED BY <2>1, <2>2
  <1>7. f % 2 = 1 => f * P = g * (2 * P) + P
    <2>1. (2 * g + 1) * P = g * (2 * P) + P
      BY <1>2, <1>4, Doubling
    <2>2. f % 2 = 1 => f = 2 * g + 1
      BY <1>4
    <2>3. QED BY <2>1, <2>2
  <1>8. s % 2 = 0 => s * P = t * (2 * P)
    <2>1. (2 * t) * P = t * (2 * P)
      BY <1>2, <1>4, Doubling
    <2>2. s % 2 = 0 => s = 2 * t
      BY <1>4
    <2>3. QED BY <2>1, <2>2
  <1>9. s % 2 = 1 => s * P = t * (2 * P) + P
    <2>1. (2 * t + 1) * P = t * (2 * P) + P
      BY <1>2, <1>4, Doubling
    <2>2. s % 2 = 1 => s = 2 * t + 1
      BY <1>4
    <2>3. QED BY <2>1, <2>2
  <1>10. /\ g * (2 * P) <= m /\ m < g * (2 * P) + 2 * P
         /\ t * (2 * P) <= b - 1 /\ b - 1 < t * (2 * P) + 2 * P
    BY <1>1, <1>2, <1>3, <1>4, <1>5, <1>6, <1>7, <1>8, <1>9
  <1>11. At(b, m, h + 1, g, t)
    BY <1>1, <1>2, <1>4, <1>10 DEF At
  <1>12. First(h, f) = f * P /\ First(h + 1, g) = g * (2 * P)
    BY <1>2 DEF First, P
  <1>13. QED BY <1>2, <1>4, <1>5, <1>6, <1>7, <1>11, <1>12 DEF P, g, t

\* The last node of a level without a left neighbour is its own parent.
LEMMA UpAlone ==
    ASSUME NEW b \in Sizes, NEW m \in 0..(b - 1), NEW h, NEW f, At(b, m, h, f, f), f % 2 = 0
    PROVE  /\ First(h + 1, f \div 2) = First(h, f)
           /\ TreeAt(b, h + 1, f \div 2, f \div 2) = TreeAt(b, h, f, f)
           /\ PathAt(b, m, h + 1, f \div 2, f \div 2) = PathAt(b, m, h, f, f)
  <1>1. First(h + 1, f \div 2) = First(h, f) /\ At(b, m, h + 1, f \div 2, f \div 2)
    BY UpALevel
  <1>2. Width(b, h + 1, f \div 2, f \div 2) = Width(b, h, f, f)
    BY <1>1, PositionRange
  <1>3. QED BY <1>1, <1>2 DEF TreeAt, PathAt

\* An even node before the last one has its parent's right half beside it.
LEMMA UpFromLeft ==
    ASSUME NEW b \in Sizes, NEW m \in 0..(b - 1), NEW h, NEW f, NEW s, At(b, m, h, f, s),
           f % 2 = 0, f < s
    PROVE  \E w \in Sizes :
              /\ w <= Pow2[h]
              /\ First(h + 1, f \div 2) = First(h, f)
              /\ TreeAt(b, h + 1, f \div 2, s \div 2)
                    = Node(TreeAt(b, h, f, s), Tree[w][First(h, f) + Pow2[h]])
              /\ PathAt(b, m, h + 1, f \div 2, s \div 2)
                    = Append(PathAt(b, m, h, f, s), Tree[w][First(h, f) + Pow2[h]])
  <1> DEFINE P == Pow2[h]
             c == First(h, f)
             g == f \div 2
             t == s \div 2
             W == Width(b, h + 1, g, t)
  <1>1. At(b, m, h + 1, g, t) /\ Pow2[h + 1] = 2 * P /\ First(h + 1, g) = c
    BY UpALevel
  <1>2. P \in Nat /\ P > 0 /\ c \in Nat /\ c <= m /\ c + P < b /\ Width(b, h, f, s) = P
        /\ b \in Nat /\ m - c \in Nat /\ m < c + P
    BY PositionRange DEF Width, Sizes
  <1>3. W \in 1..(2 * P) /\ (g < t => W = 2 * P) /\ (g = t => W = b - c) /\ g <= t
        /\ (g = t => b <= c + 2 * P) /\ W \in Sizes /\ g \in Nat /\ t \in Nat
    <2>1. /\ W \in 1..Pow2[h + 1] /\ W \in Sizes
          /\ g = t => W = b - First(h + 1, g) /\ b <= First(h + 1, g) + Pow2[h + 1]
      <3> HIDE DEF g, t, W
      <3>1. QED BY <1>1, PositionRange DEF W
    <2>2. g < t => W = Pow2[h + 1]
      BY DEF Width
    <2>3. g <= t /\ g \in Nat /\ t \in Nat
      BY <1>1 DEF At
    <2>4. QED BY <1>1, <2>1, <2>2, <2>3
  <1> DEFINE w == W - P
  <1> HIDE DEF P, c, g, t, W
  <1>4. w \in Nat /\ w > 0 /\ w <= P /\ W # 1 /\ W - P = w
    BY <1>2, <1>3
  <1>5. Split(W) = P
    <2>1. P < W /\ W <= 2 * P
      BY <1>2, <1>3, <1>4
    <2>2. h \in Nat
      BY DEF At
    <2>3. QED BY <1>3, <1>4, <2>1, <2>2, SplitIsThePower DEF P
  <1>6. Tree[W][c] = Node(Tree[P][c], Tree[w][c + P])
    BY <1>2, <1>3, <1>4, <1>5, TreeEquation
  <1>7. AuditPath[W][c][m - c] = Append(AuditPath[P][c][m - c], Tree[w][c + P])
    <2>1. m - c < P
      BY <1>2
    <2> DEFINE i == m - c
    <2>2. i \in Nat /\ i < P
      BY <1>2, <2>1
    <2> HIDE DEF i
    <2>3. AuditPath[W][c][i] =
             IF i < Split(W)
             THEN Append(AuditPath[Split(W)][c][i], Tree[W - Split(W)][c + Split(W)])
             ELSE Append(AuditPath[W - Split(W)][c + Split(W)][i - Split(W)], Tree[Split(W)][c])
      BY <1>2, <1>3, <1>4, <2>2, PathEquation
    <2>4. QED BY <1>4, <1>5, <2>2, <2>3 DEF i
  <1>8. w \in Sizes
    BY <1>4 DEF Sizes
  <1>9. /\ TreeAt(b, h + 1, g, t) = Tree[W][c]
        /\ PathAt(b, m, h + 1, g, t) = AuditPath[W][c][m - c]
    BY <1>1 DEF TreeAt, PathAt, W
  <1>10. TreeAt(b, h, f, s) = Tree[P][c] /\ PathAt(b, m, h, f, s) = AuditPath[P][c][m - c]
    BY <1>2 DEF TreeAt, PathAt, c
  <1>11. QED BY <1>1, <1>4, <1>6, <1>7, <1>8, <1>9, <1>10 DEF P, c, g, t

\* An odd node has its parent's left half beside it.
LEMMA UpFromRight ==
    ASSUME NEW b \in Sizes, NEW m \in 0..(b - 1), NEW h, NEW f, NEW s, At(b, m, h, f, s),
           f % 2 = 1
    PROVE  /\ First(h, f) - Pow2[h] \in Nat
           /\ First(h + 1, f \div 2) = First(h, f) - Pow2[h]
           /\ TreeAt(b, h + 1, f \div 2, s \div 2)
                    = Node(Tree[Pow2[h]][First(h, f) - Pow2[h]], TreeAt(b, h, f, s))
           /\ PathAt(b, m, h + 1, f \div 2, s \div 2)
                    = Append(PathAt(b, m, h, f, s), Tree[Pow2[h]][First(h, f) - Pow2[h]])
  <1> DEFINE P == Pow2[h]
             c == First(h, f)
             d == First(h, f) - Pow2[h]
             g == f \div 2
             t == s \div 2
             w == Width(b, h, f, s)
             W == Width(b, h + 1, g, t)
  <1>1. At(b, m, h + 1, g, t) /\ Pow2[h + 1] = 2 * P /\ First(h + 1, g) = d
    BY UpALevel
  <1>2. P \in Nat /\ P > 0 /\ c \in Nat /\ c <= m /\ w \in 1..P /\ w \in Sizes /\ b \in Nat /\ m \in Nat
        /\ (f < s => w = P) /\ (f = s => w = b - c) /\ f \in Nat /\ s \in Nat /\ f <= s
    <2>1. P \in Nat /\ P > 0 /\ c \in Nat /\ c <= m /\ w \in 1..P /\ w \in Sizes /\ (f = s => w = b - c)
      BY PositionRange
    <2>2. f < s => w = P
      BY DEF Width
    <2>3. b \in Nat /\ m \in Nat /\ f \in Nat /\ s \in Nat /\ f <= s
      BY DEF Sizes, At
    <2>4. QED BY <2>1, <2>2, <2>3
  <1>3. W \in 1..(2 * P) /\ (g < t => W = 2 * P) /\ (g = t => W = b - d) /\ g <= t
        /\ W \in Sizes /\ d \in Nat
    <2>1. /\ W \in 1..Pow2[h + 1] /\ W \in Sizes /\ First(h + 1, g) \in Nat
          /\ g = t => W = b - First(h + 1, g)
      <3> HIDE DEF g, t, W
      <3>1. QED BY <1>1, PositionRange DEF W
    <2>2. g < t => W = Pow2[h + 1]
      BY DEF Width
    <2>3. g <= t
      BY <1>1 DEF At
    <2>4. QED BY <1>1, <2>1, <2>2, <2>3
  <1>4. (g < t => f < s) /\ (g = t => f = s) /\ (g < t \/ g = t)
    BY <1>2
  <1>5. d + P = c /\ m - c \in Nat /\ m - d = (m - c) + P
    BY <1>2
  <1> HIDE DEF P, c, d, g, t, w, W
  <1>6. W = P + w
    BY <1>2, <1>3, <1>4, <1>5
  <1>7. Split(W) = P /\ W # 1 /\ W - P = w
    <2>1. P < W /\ W <= 2 * P /\ W # 1 /\ W - P = w
      BY <1>2, <1>3, <1>6
    <2>2. h \in Nat
      BY DEF At
    <2>3. QED BY <1>3, <2>1, <2>2, SplitIsThePower DEF P
  <1>8. Tree[W][d] = Node(Tree[P][d], Tree[w][c])
    BY <1>3, <1>5, <1>7, TreeEquation
  <1>9. AuditPath[W][d][m - d] = Append(AuditPath[w][c][m - c], Tree[P][d])
    <2> DEFINE i == m - d
    <2>1. i \in Nat /\ ~(i < P) /\ i - P = m - c
      BY <1>2, <1>5
    <2> HIDE DEF i
    <2>2. AuditPath[W][d][i] =
             IF i < Split(W)
             THEN Append(AuditPath[Split(W)][d][i], Tree[W - Split(W)][d + Split(W)])
             ELSE Append(AuditPath[W - Split(W)][d + Split(W)][i - Split(W)], Tree[Split(W)][d])
      BY <1>3, <1>7, <2>1, PathEquation
    <2>3. QED BY <1>5, <1>7, <2>1, <2>2 DEF i
  <1>10. /\ TreeAt(b, h + 1, g, t) = Tree[W][d]
         /\ PathAt(b, m, h + 1, g, t) = AuditPath[W][d][m - d]
    BY <1>1 DEF TreeAt, PathAt, W
  <1>11. TreeAt(b, h, f, s) = Tree[w][c] /\ PathAt(b, m, h, f, s) = AuditPath[w][c][m - c]
    BY DEF TreeAt, PathAt, c, w
  <1>12. QED BY <1>1, <1>3, <1>8, <1>9, <1>10, <1>11 DEF P, d, g, t

\* At the top the reference is the tree, with the audit path of the leaf in it.
LEMMA AtTheRoot ==
    ASSUME NEW b \in Sizes, NEW m \in 0..(b - 1), NEW h, NEW f, At(b, m, h, f, 0)
    PROVE  /\ f = 0 /\ First(h, f) = 0 /\ b <= Pow2[h]
           /\ TreeAt(b, h, f, 0) = Tree[b][0]
           /\ PathAt(b, m, h, f, 0) = AuditPath[b][0][m]
  <1>1. f = 0 /\ h \in Nat /\ Pow2[h] \in Nat /\ b \in Nat /\ m - 0 = m
    BY PowersOfTwo DEF At, Sizes
  <1>2. First(h, f) = 0 /\ Width(b, h, f, 0) = b
    BY <1>1 DEF First, Width
  <1>3. b <= Pow2[h]
    BY <1>1, <1>2, PositionRange
  <1>4. QED BY <1>1, <1>2, <1>3 DEF TreeAt, PathAt

-----------------------------------------------------------------------------
(* The right edge of a tree *)

\* The leaves from lo on are below one node of the right edge.
Spine(b, lo) ==
    \E e \in Nat, k \in Nat : lo = k * Pow2[e] /\ lo < b /\ b <= lo + Pow2[e]

\* The right child of a node of the right edge is one.
LEMMA SpineGoesDown ==
    ASSUME NEW b \in Sizes, NEW lo \in Nat, Spine(b, lo), b - lo # 1
    PROVE  b - lo \in Sizes /\ Split(b - lo) \in Sizes /\ Spine(b, lo + Split(b - lo))
  <1>1. PICK e \in Nat, k \in Nat : lo = k * Pow2[e] /\ lo < b /\ b <= lo + Pow2[e]
    BY DEF Spine
  <1> DEFINE n == b - lo
  <1>2. n \in Sizes /\ n # 1 /\ n \in Nat /\ b \in Nat
    BY <1>1 DEF Sizes
  <1> HIDE DEF n
  <1>3. PICK d \in Nat : Split(n) = Pow2[d]
    BY <1>2, SplitIsThePower
  <1>4. Pow2[d] < n /\ n <= 2 * Pow2[d] /\ Pow2[d] \in Nat /\ Pow2[e] \in Nat /\ Pow2[d] \in Sizes
    <2>1. Split(n) \in 1..(n - 1) /\ n <= 2 * Split(n)
      BY <1>2, SplitIsThePower
    <2>2. Pow2[d] \in Sizes /\ Pow2[e] \in Sizes
      BY PowersOfTwo
    <2>3. QED BY <1>2, <1>3, <2>1, <2>2 DEF Sizes
  <1>5. Pow2[d] < Pow2[e]
    BY <1>1, <1>2, <1>4 DEF n
  <1>6. PICK c \in Sizes : Pow2[e] = 2 * c * Pow2[d]
    BY <1>5, PowersDouble, PowersGrow
  <1>7. c \in Nat
    BY DEF Sizes
  <1> DEFINE j == k * (2 * c) + 1
  <1>8. lo + Pow2[d] = j * Pow2[d]
    <2>1. \A P \in Nat : k * (2 * c * P) + P = (k * (2 * c) + 1) * P
      BY <1>7
    <2>2. QED BY <1>1, <1>4, <1>6, <2>1
  <1>9. j \in Nat
    BY <1>7
  <1> HIDE DEF j
  <1>10. lo + Pow2[d] < b /\ b <= (lo + Pow2[d]) + Pow2[d]
    BY <1>2, <1>4 DEF n
  <1>11. Spine(b, lo + Pow2[d])
    BY <1>8, <1>9, <1>10 DEF Spine
  <1>12. QED BY <1>2, <1>3, <1>4, <1>11 DEF n

\* The right edge has no node that starts within the left half of another.
LEMMA SpineSkips ==
    ASSUME NEW b \in Sizes, NEW lo \in Nat, Spine(b, lo), NEW h \in Nat, NEW g \in Nat,
           g * (2 * Pow2[h]) < lo, g * (2 * Pow2[h]) + Pow2[h] < b
    PROVE  g * (2 * Pow2[h]) + Pow2[h] <= lo
  <1>1. PICK e \in Nat, k \in Nat : lo = k * Pow2[e] /\ lo < b /\ b <= lo + Pow2[e]
    BY DEF Spine
  <1> DEFINE P == Pow2[h]
             Q == Pow2[e]
             c == g * (2 * P)
  <1>2. P \in Nat /\ Q \in Nat /\ P > 0 /\ Q > 0 /\ b \in Nat
    BY PowersOfTwo DEF Sizes
  <1> SUFFICES ASSUME lo < c + P PROVE FALSE
    BY <1>2
  <1>3. CASE e <= h
    <2>1. \E d \in Nat : P = d * Q
      <3>1. CASE e = h
        <4>1. 1 \in Nat /\ P = 1 * Q
          BY <1>2, <3>1
        <4>2. QED BY <4>1
      <3>2. CASE e < h
        <4>1. PICK d \in Sizes : Pow2[h] = 2 * d * Pow2[e]
          BY <3>2, PowersGrow
        <4>2. 2 * d \in Nat
          BY DEF Sizes
        <4>3. QED BY <4>1, <4>2
      <3>3. QED BY <1>3, <3>1, <3>2
    <2>2. PICK d \in Nat : P = d * Q
      BY <2>1
    <2> HIDE DEF P, Q, c
    <2> DEFINE u == g * (2 * d) + d
    <2>3. u \in Nat /\ c + P = u * Q
      BY <1>2, <2>2 DEF c
    <2> HIDE DEF u
    <2>4. k < u => k * Q + Q <= u * Q
      BY <1>2, <2>3
    <2>5. u <= k => u * Q <= k * Q
      BY <1>2, <2>3
    <2>6. k * Q \in Nat /\ u * Q \in Nat
      BY <1>2, <2>3
    <2>7. lo = k * Q /\ b <= lo + Q /\ c + P < b
      BY <1>1 DEF P, Q, c
    <2>8. QED BY <1>2, <2>3, <2>4, <2>5, <2>6, <2>7
  <1>4. CASE h < e
    <2>1. PICK d \in Sizes : Pow2[e] = 2 * d * Pow2[h]
      BY <1>4, PowersGrow
    <2>2. d \in Nat /\ Q = 2 * d * P
      BY <2>1 DEF Sizes
    <2> HIDE DEF P, Q, c
    <2> DEFINE u == k * d
    <2>3. u \in Nat /\ k * Q = u * (2 * P)
      BY <1>2, <2>2
    <2> HIDE DEF u
    <2>4. g < u => g * (2 * P) + 2 * P <= u * (2 * P)
      BY <1>2, <2>3
    <2>5. u <= g => u * (2 * P) <= g * (2 * P)
      BY <1>2, <2>3
    <2>6. u * (2 * P) \in Nat /\ g * (2 * P) \in Nat
      BY <1>2, <2>3
    <2>7. lo = k * Q /\ c < lo /\ c = g * (2 * P)
      BY <1>1 DEF P, Q, c
    <2>8. QED BY <1>2, <2>3, <2>4, <2>5, <2>6, <2>7
  <1>5. QED BY <1>3, <1>4

-----------------------------------------------------------------------------
(* What holds of the hash x that the code has reached, with the nodes q *)

\* It is the hash of the tree there if and only if the leaf and its audit path
\* up to there are what the log committed to.
Meets(b, m, v, h, f, s, x, q) ==
    /\ x = TreeAt(b, h, f, s) <=> v = Leaf(m) /\ q = PathAt(b, m, h, f, s)
    /\ Len(q) = Len(PathAt(b, m, h, f, s))

\* It has gone past the root.
Exceeds(b, m, s, x, q) ==
    s = 0 /\ x # Tree[b][0] /\ Len(q) > Len(AuditPath[b][0][m])

\* It is not the hash of a tree of half that height or less.
Deep(h, x) == \A n \in Sizes, lo \in Nat : x = Tree[n][lo] => Pow2[h] < 2 * n

\* It is not the hash of a node of the right edge further right.
OffSpine(b, c, x) == \A lo \in Nat : Spine(b, lo) /\ c < lo => x # Tree[b - lo][lo]

Claim(b, m, v, h, f, s, x, q) ==
    /\ At(b, m, h, f, s)
    /\ Meets(b, m, v, h, f, s, x, q) \/ Exceeds(b, m, s, x, q)
    /\ f < s => Deep(h, x)
    /\ f = s => OffSpine(b, First(h, f), x)

\* Two sequences with a last element each are equal if both parts are.
LEMMA AppendEqual ==
    ASSUME NEW S, NEW q \in Seq(S), NEW T, NEW t \in Seq(T), NEW x, NEW y
    PROVE  /\ Append(q, x) = Append(t, y) <=> q = t /\ x = y
           /\ Len(Append(q, x)) = Len(q) + 1 /\ Len(Append(t, y)) = Len(t) + 1
           /\ Len(q) \in Nat /\ Len(t) \in Nat
  <1> DEFINE q1 == Append(q, x)
             t1 == Append(t, y)
  <1>1. /\ Len(q) \in Nat /\ Len(q1) = Len(q) + 1 /\ q1[Len(q) + 1] = x
        /\ \A i \in 1..Len(q) : q1[i] = q[i]
    OBVIOUS
  <1>2. /\ Len(t) \in Nat /\ Len(t1) = Len(t) + 1 /\ t1[Len(t) + 1] = y
        /\ \A i \in 1..Len(t) : t1[i] = t[i]
    OBVIOUS
  <1>3. ASSUME q1 = t1 PROVE q = t /\ x = y
    <2>1. Len(q) = Len(t)
      BY <1>1, <1>2, <1>3
    <2> HIDE DEF q1, t1
    <2>2. \A i \in 1..Len(q) : q[i] = t[i]
      BY <1>1, <1>2, <1>3, <2>1
    <2>3. x = y
      BY <1>1, <1>2, <1>3, <2>1
    <2>4. QED BY <2>1, <2>2, <2>3
  <1>4. QED BY <1>1, <1>2, <1>3

-----------------------------------------------------------------------------
(* How it goes up with the code *)

\* Without a left neighbour: the hash is its parent's.
LEMMA ClimbAlone ==
    ASSUME NEW b \in Sizes, NEW m \in 0..(b - 1), NEW v, NEW h, NEW f, NEW x, NEW q,
           Claim(b, m, v, h, f, f, x, q), f % 2 = 0
    PROVE  Claim(b, m, v, h + 1, f \div 2, f \div 2, x, q)
  <1>1. At(b, m, h, f, f) /\ OffSpine(b, First(h, f), x)
        /\ (Meets(b, m, v, h, f, f, x, q) \/ Exceeds(b, m, f, x, q))
    BY DEF Claim
  <1> DEFINE g == f \div 2
  <1>2. /\ At(b, m, h + 1, g, g) /\ First(h + 1, g) = First(h, f)
        /\ TreeAt(b, h + 1, g, g) = TreeAt(b, h, f, f)
        /\ PathAt(b, m, h + 1, g, g) = PathAt(b, m, h, f, f)
    BY <1>1, UpALevel, UpAlone
  <1>3. f = 0 => g = 0
    OBVIOUS
  <1> HIDE DEF g
  <1>4. Meets(b, m, v, h, f, f, x, q) => Meets(b, m, v, h + 1, g, g, x, q)
    BY <1>2 DEF Meets
  <1>5. Exceeds(b, m, f, x, q) => Exceeds(b, m, g, x, q)
    BY <1>3 DEF Exceeds
  <1>6. ~(g < g)
    BY <1>2 DEF At
  <1>7. Claim(b, m, v, h + 1, g, g, x, q)
    BY <1>1, <1>2, <1>4, <1>5, <1>6 DEF Claim
  <1>8. QED BY <1>7 DEF g

\* The hash of a tree of two leaves or more is a node, and the part right of
\* its split is at least the smaller one.
LEMMA NodesAreTrees ==
    ASSUME NEW n \in Sizes, NEW lo \in Nat, NEW x, NEW y, Node(x, y) = Tree[n][lo]
    PROVE  /\ n # 1 /\ Split(n) \in Sizes /\ n - Split(n) \in Sizes /\ lo + Split(n) \in Nat
           /\ \E e \in Nat : Split(n) = Pow2[e]
           /\ Split(n) < n /\ n <= 2 * Split(n)
           /\ x = Tree[Split(n)][lo] /\ y = Tree[n - Split(n)][lo + Split(n)]
  <1>1. n # 1
    BY TreeEquation, Hashes
  <1>2. /\ \E e \in Nat : Split(n) = Pow2[e]
        /\ Split(n) \in 1..(n - 1) /\ n - Split(n) \in 1..(n - 1) /\ n <= 2 * Split(n)
    BY <1>1, SplitIsThePower
  <1>3. Tree[n][lo] = Node(Tree[Split(n)][lo], Tree[n - Split(n)][lo + Split(n)])
    BY <1>1, TreeEquation
  <1>4. x = Tree[Split(n)][lo] /\ y = Tree[n - Split(n)][lo + Split(n)]
    BY <1>3, Hashes
  <1>5. n \in Nat
    BY DEF Sizes
  <1>6. QED BY <1>1, <1>2, <1>4, <1>5 DEF Sizes

\* A power of two above half of another is no smaller.
LEMMA AboveHalf ==
    ASSUME NEW d \in Nat, NEW e \in Nat, Pow2[d] < 2 * Pow2[e]
    PROVE  Pow2[d] <= Pow2[e]
  <1>1. Pow2[d] \in Nat /\ Pow2[e] \in Nat
    BY PowersOfTwo DEF Sizes
  <1>2. Pow2[e] < Pow2[d] => 2 * Pow2[e] <= Pow2[d]
    BY PowersDouble
  <1>3. QED BY <1>1, <1>2

\* A parent is deep when the child that was reached is.
LEMMA DeepUp ==
    ASSUME NEW h \in Nat, NEW x, NEW p, Deep(h, x)
    PROVE  Deep(h + 1, Node(x, p)) /\ Deep(h + 1, Node(p, x))
  <1>1. Pow2[h + 1] = 2 * Pow2[h] /\ Pow2[h] \in Nat
    BY PowersOfTwo DEF Sizes
  <1>2. ASSUME NEW n \in Sizes, NEW lo \in Nat, Node(x, p) = Tree[n][lo] \/ Node(p, x) = Tree[n][lo]
        PROVE  Pow2[h + 1] < 2 * n
    <2> DEFINE k == Split(n)
    <2>1. /\ k \in Sizes /\ n - k \in Sizes /\ lo + k \in Nat
          /\ \E e \in Nat : k = Pow2[e]
          /\ k < n /\ n <= 2 * k
          /\ x = Tree[k][lo] \/ x = Tree[n - k][lo + k]
      BY <1>2, NodesAreTrees
    <2> HIDE DEF k
    <2>2. Pow2[h] < 2 * k \/ Pow2[h] < 2 * (n - k)
      BY <2>1 DEF Deep
    <2>3. n \in Nat /\ k \in Nat
      BY <2>1 DEF Sizes
    <2>4. Pow2[h] < 2 * k
      BY <1>1, <2>1, <2>2, <2>3
    <2>5. Pow2[h] <= k
      BY <2>1, <2>4, AboveHalf
    <2>6. QED BY <1>1, <2>1, <2>3, <2>5
  <1>3. QED BY <1>2 DEF Deep

\* With its parent's right half beside it.
LEMMA ClimbFromLeft ==
    ASSUME NEW b \in Sizes, NEW m \in 0..(b - 1), NEW v, NEW h, NEW f, NEW s, NEW x, NEW S,
           NEW q \in Seq(S), NEW p,
           Claim(b, m, v, h, f, s, x, q), f % 2 = 0, f < s
    PROVE  Claim(b, m, v, h + 1, f \div 2, s \div 2, Node(x, p), Append(q, p))
  <1> DEFINE g == f \div 2
             t == s \div 2
             c == First(h, f)
             P == Pow2[h]
  <1>1. At(b, m, h, f, s) /\ Deep(h, x) /\ h \in Nat
    BY DEF Claim, At
  <1>2. s # 0 /\ Meets(b, m, v, h, f, s, x, q)
    BY <1>1 DEF Claim, Exceeds, At
  <1>3. /\ At(b, m, h + 1, g, t) /\ Pow2[h + 1] = 2 * P
        /\ First(h + 1, g) = c
    <2> HIDE DEF g, t, c, P
    <2>1. /\ At(b, m, h + 1, f \div 2, s \div 2) /\ Pow2[h + 1] = 2 * Pow2[h]
          /\ First(h + 1, f \div 2) = First(h, f)
      <3>1. At(b, m, h + 1, f \div 2, s \div 2) /\ Pow2[h + 1] = 2 * Pow2[h]
        BY <1>1, UpALevel
      <3>2. First(h + 1, f \div 2) = First(h, f)
        BY <1>1, UpFromLeft
      <3>3. QED BY <3>1, <3>2
    <2>2. QED BY <2>1 DEF g, t, c, P
  <1>4. PICK w \in Sizes :
              /\ w <= P
              /\ TreeAt(b, h + 1, g, t) = Node(TreeAt(b, h, f, s), Tree[w][c + P])
              /\ PathAt(b, m, h + 1, g, t) = Append(PathAt(b, m, h, f, s), Tree[w][c + P])
    BY <1>1, UpFromLeft
  <1>5. /\ c \in Nat /\ P \in Nat /\ P > 0 /\ c + P < b /\ b \in Nat
        /\ Width(b, h, f, s) \in Sizes /\ m - c \in Nat
    BY <1>1, PositionRange DEF Sizes
  <1>6. g = t => b <= c + 2 * P
    <2> HIDE DEF g, t
    <2>1. QED BY <1>3, PositionRange
  <1>7. PathAt(b, m, h, f, s) \in Seq(Trees)
    BY <1>5, PathsAreHashes DEF PathAt
  <1>8. c = g * (2 * P) /\ g \in Nat
    BY <1>3 DEF First, At
  <1> HIDE DEF g, t, c, P
  <1>9. Meets(b, m, v, h + 1, g, t, Node(x, p), Append(q, p))
    <2>1. Node(x, p) = TreeAt(b, h + 1, g, t) <=> x = TreeAt(b, h, f, s) /\ p = Tree[w][c + P]
      BY <1>4, Hashes
    <2>2. /\ Append(q, p) = PathAt(b, m, h + 1, g, t)
                <=> q = PathAt(b, m, h, f, s) /\ p = Tree[w][c + P]
          /\ Len(Append(q, p)) = Len(q) + 1
          /\ Len(PathAt(b, m, h + 1, g, t)) = Len(PathAt(b, m, h, f, s)) + 1
      <3> DEFINE u == PathAt(b, m, h, f, s)
                 y == Tree[w][c + P]
      <3>1. u \in Seq(Trees) /\ PathAt(b, m, h + 1, g, t) = Append(u, y)
        BY <1>4, <1>7
      <3> HIDE DEF u, y
      <3>2. /\ Append(q, p) = Append(u, y) <=> q = u /\ p = y
            /\ Len(Append(q, p)) = Len(q) + 1 /\ Len(Append(u, y)) = Len(u) + 1
        BY <3>1, AppendEqual
      <3>3. QED BY <3>1, <3>2 DEF u, y
    <2>3. QED BY <1>2, <2>1, <2>2 DEF Meets
  <1>10. Deep(h + 1, Node(x, p))
    BY <1>1, DeepUp
  <1>11. ASSUME g = t, NEW lo \in Nat, Spine(b, lo), c < lo, Node(x, p) = Tree[b - lo][lo]
         PROVE  FALSE
    <2>1. b - lo \in Sizes
      BY <1>5, <1>11 DEF Spine, Sizes
    <2> DEFINE k == Split(b - lo)
    <2>2. /\ k \in Sizes /\ (\E e \in Nat : k = Pow2[e]) /\ k < b - lo /\ x = Tree[k][lo]
      BY <1>11, <2>1, NodesAreTrees
    <2> HIDE DEF k
    <2>3. P < 2 * k /\ k \in Nat
      BY <1>1, <2>2 DEF Deep, Sizes, P
    <2>4. P <= k
      BY <1>1, <2>2, <2>3, AboveHalf DEF P
    <2>5. c + P <= lo
      BY <1>1, <1>5, <1>8, <1>11, SpineSkips DEF P
    <2>6. QED BY <1>5, <1>6, <1>11, <2>2, <2>3, <2>4, <2>5
  <1>12. g = t => OffSpine(b, First(h + 1, g), Node(x, p))
    BY <1>3, <1>11 DEF OffSpine
  <1>13. Claim(b, m, v, h + 1, g, t, Node(x, p), Append(q, p))
    BY <1>3, <1>9, <1>10, <1>12 DEF Claim
  <1>14. QED BY <1>13 DEF g, t

\* With its parent's left half beside it.
LEMMA ClimbFromRight ==
    ASSUME NEW b \in Sizes, NEW m \in 0..(b - 1), NEW v, NEW h, NEW f, NEW s, NEW x, NEW S,
           NEW q \in Seq(S), NEW p,
           Claim(b, m, v, h, f, s, x, q), f % 2 = 1
    PROVE  Claim(b, m, v, h + 1, f \div 2, s \div 2, Node(p, x), Append(q, p))
  <1> DEFINE g == f \div 2
             t == s \div 2
             c == First(h, f)
             P == Pow2[h]
  <1>1. At(b, m, h, f, s) /\ h \in Nat /\ f \in Nat /\ s \in Nat /\ f <= s
    BY DEF Claim, At
  <1>2. s # 0 /\ Meets(b, m, v, h, f, s, x, q)
    BY <1>1 DEF Claim, Exceeds
  <1>3. /\ At(b, m, h + 1, g, t) /\ Pow2[h + 1] = 2 * P
    BY <1>1, UpALevel
  <1>4. /\ c - P \in Nat /\ First(h + 1, g) = c - P
        /\ TreeAt(b, h + 1, g, t) = Node(Tree[P][c - P], TreeAt(b, h, f, s))
        /\ PathAt(b, m, h + 1, g, t) = Append(PathAt(b, m, h, f, s), Tree[P][c - P])
    BY <1>1, UpFromRight
  <1>5. /\ c \in Nat /\ P \in Nat /\ P > 0 /\ c < b /\ b \in Nat
        /\ Width(b, h, f, s) \in Sizes /\ m - c \in Nat
    BY <1>1, PositionRange DEF Sizes
  <1>6. (g = t => f = s) /\ (g < t => f < s)
    BY <1>1
  <1>7. PathAt(b, m, h, f, s) \in Seq(Trees)
    BY <1>5, PathsAreHashes DEF PathAt
  <1>8. c - P = g * (2 * P) /\ g \in Nat
    BY <1>3, <1>4 DEF First, At
  <1> HIDE DEF g, t, c, P
  <1>9. Meets(b, m, v, h + 1, g, t, Node(p, x), Append(q, p))
    <2>1. Node(p, x) = TreeAt(b, h + 1, g, t) <=> x = TreeAt(b, h, f, s) /\ p = Tree[P][c - P]
      BY <1>4, Hashes
    <2>2. /\ Append(q, p) = PathAt(b, m, h + 1, g, t)
                <=> q = PathAt(b, m, h, f, s) /\ p = Tree[P][c - P]
          /\ Len(Append(q, p)) = Len(q) + 1
          /\ Len(PathAt(b, m, h + 1, g, t)) = Len(PathAt(b, m, h, f, s)) + 1
      <3> DEFINE u == PathAt(b, m, h, f, s)
                 y == Tree[P][c - P]
      <3>1. u \in Seq(Trees) /\ PathAt(b, m, h + 1, g, t) = Append(u, y)
        BY <1>4, <1>7
      <3> HIDE DEF u, y
      <3>2. /\ Append(q, p) = Append(u, y) <=> q = u /\ p = y
            /\ Len(Append(q, p)) = Len(q) + 1 /\ Len(Append(u, y)) = Len(u) + 1
        BY <3>1, AppendEqual
      <3>3. QED BY <3>1, <3>2 DEF u, y
    <2>3. QED BY <1>2, <2>1, <2>2 DEF Meets
  <1>10. g < t => Deep(h + 1, Node(p, x))
    BY <1>1, <1>6, DeepUp DEF Claim
  <1>11. ASSUME g = t, NEW lo \in Nat, Spine(b, lo), c - P < lo, Node(p, x) = Tree[b - lo][lo]
         PROVE  FALSE
    <2>1. b - lo \in Sizes
      BY <1>5, <1>11 DEF Spine, Sizes
    <2> DEFINE k == Split(b - lo)
    <2>2. b - lo # 1 /\ k \in Sizes /\ lo + k \in Nat /\ x = Tree[(b - lo) - k][lo + k]
      BY <1>11, <2>1, NodesAreTrees
    <2>3. Spine(b, lo + k)
      BY <1>11, <2>2, SpineGoesDown
    <2> HIDE DEF k
    <2>4. c <= lo
      <3>1. g * (2 * P) < lo /\ g * (2 * P) + P < b
        BY <1>5, <1>8, <1>11
      <3>2. g * (2 * P) + P <= lo
        BY <1>1, <1>8, <1>11, <3>1, SpineSkips DEF P
      <3>3. QED BY <1>5, <1>8, <3>2
    <2>5. c < lo + k /\ b - (lo + k) = (b - lo) - k
      BY <1>5, <2>2, <2>4 DEF Sizes
    <2>6. OffSpine(b, c, x)
      BY <1>6, <1>11 DEF Claim, c
    <2>7. QED BY <2>2, <2>3, <2>5, <2>6 DEF OffSpine
  <1>12. g = t => OffSpine(b, First(h + 1, g), Node(p, x))
    BY <1>4, <1>11 DEF OffSpine
  <1>13. Claim(b, m, v, h + 1, g, t, Node(p, x), Append(q, p))
    BY <1>3, <1>9, <1>10, <1>12 DEF Claim
  <1>14. QED BY <1>13 DEF g, t

\* Past the root.
LEMMA ClimbPastRoot ==
    ASSUME NEW b \in Sizes, NEW m \in 0..(b - 1), NEW v, NEW h, NEW x, NEW S,
           NEW q \in Seq(S), NEW p, Claim(b, m, v, h, 0, 0, x, q)
    PROVE  Claim(b, m, v, h + 1, 0, 0, Node(p, x), Append(q, p))
  <1>1. At(b, m, h, 0, 0) /\ OffSpine(b, First(h, 0), x) /\ h \in Nat
    BY DEF Claim, At
  <1>2. At(b, m, h + 1, 0, 0) /\ First(h + 1, 0) = First(h, 0)
    <2>1. PICK f : f = 0
      OBVIOUS
    <2>2. f \div 2 = 0 /\ f % 2 = 0
      BY <2>1
    <2>3. At(b, m, h, f, f)
      BY <1>1, <2>1
    <2>4. At(b, m, h + 1, f \div 2, f \div 2) /\ First(h + 1, f \div 2) = First(h, f)
      BY <2>2, <2>3, UpALevel
    <2>5. QED BY <2>1, <2>2, <2>4
  <1>3. First(h, 0) = 0 /\ b <= Pow2[h] /\ PathAt(b, m, h, 0, 0) = AuditPath[b][0][m]
        /\ First(h + 1, 0) = 0
    BY <1>1, <1>2, AtTheRoot
  <1>4. b \in Nat /\ b > 0 /\ m \in Nat
    BY DEF Sizes
  <1>5. Spine(b, 0)
    <2>1. 0 = 0 * Pow2[h] /\ Pow2[h] \in Nat /\ 0 \in Nat
      <3>1. Pow2[h] \in Nat
        BY <1>1, PowersOfTwo DEF Sizes
      <3>2. QED BY <3>1
    <2>2. 0 < b /\ b <= 0 + Pow2[h]
      BY <1>3, <1>4, <2>1
    <2>3. QED BY <1>1, <2>1, <2>2 DEF Spine
  <1>6. ASSUME NEW lo \in Nat, Spine(b, lo), Node(p, x) = Tree[b - lo][lo]
        PROVE  FALSE
    <2>1. b - lo \in Sizes
      BY <1>4, <1>6 DEF Spine, Sizes
    <2> DEFINE k == Split(b - lo)
    <2>2. b - lo # 1 /\ k \in Sizes /\ lo + k \in Nat /\ x = Tree[(b - lo) - k][lo + k]
      BY <1>6, <2>1, NodesAreTrees
    <2>3. Spine(b, lo + k)
      BY <1>6, <2>2, SpineGoesDown
    <2> HIDE DEF k
    <2>4. 0 < lo + k /\ b - (lo + k) = (b - lo) - k
      BY <1>4, <2>2 DEF Sizes
    <2>5. QED BY <1>1, <1>3, <2>2, <2>3, <2>4 DEF OffSpine
  <1>7. Node(p, x) # Tree[b][0]
    <2>1. b - 0 = b /\ 0 \in Nat
      BY <1>4
    <2>2. QED BY <1>5, <1>6, <2>1
  <1>8. Len(Append(q, p)) > Len(AuditPath[b][0][m])
    <2>1. AuditPath[b][0][m] \in Seq(Trees)
      BY <1>4, PathsAreHashes
    <2>2. Len(AuditPath[b][0][m]) \in Nat /\ Len(q) \in Nat /\ Len(Append(q, p)) = Len(q) + 1
      BY <2>1
    <2>3. Len(q) >= Len(AuditPath[b][0][m])
      BY <1>3, <2>2 DEF Claim, Meets, Exceeds
    <2>4. QED BY <2>2, <2>3
  <1>9. Exceeds(b, m, 0, Node(p, x), Append(q, p))
    BY <1>7, <1>8 DEF Exceeds
  <1>10. OffSpine(b, First(h + 1, 0), Node(p, x))
    BY <1>6 DEF OffSpine
  <1>11. QED BY <1>2, <1>9, <1>10 DEF Claim

\* Below the root the audit path is shorter than that of the tree.
LEMMA PathIsShorter ==
    ASSUME NEW b \in Sizes, NEW m \in 0..(b - 1), NEW h, NEW f, NEW s, At(b, m, h, f, s), s # 0
    PROVE  Len(PathAt(b, m, h, f, s)) < Len(AuditPath[b][0][m])
  <1> DEFINE Shorter(i, g, t) == Len(PathAt(b, m, i, g, t)) < Len(AuditPath[b][0][m])
             S == {d \in Nat : \A i, g, t : At(b, m, i, g, t) /\ t # 0 /\ t <= d => Shorter(i, g, t)}
  <1>1. 0 \in S
    BY DEF At
  <1>2. ASSUME NEW d \in Nat, d \in S PROVE d + 1 \in S
    <2>1. SUFFICES ASSUME NEW i, NEW g, NEW t, At(b, m, i, g, t), t # 0, t <= d + 1
                   PROVE  Shorter(i, g, t)
      OBVIOUS
    <2> DEFINE u == t \div 2
    <2>2. At(b, m, i + 1, g \div 2, u) /\ (g % 2 = 0 \/ g % 2 = 1)
      BY <2>1, UpALevel
    <2>3. t \in Nat /\ u \in Nat /\ u <= d /\ g \in Nat /\ g <= t
      BY <2>1 DEF At
    <2> HIDE DEF u
    <2>4. u # 0 => Shorter(i + 1, g \div 2, u)
      BY <1>2, <2>2, <2>3
    <2>5. u = 0 => PathAt(b, m, i + 1, g \div 2, u) = AuditPath[b][0][m]
      BY <2>2, AtTheRoot
    <2>6. CASE g = t /\ g % 2 = 0
      <3>1. PathAt(b, m, i + 1, g \div 2, u) = PathAt(b, m, i, g, t)
        BY <2>1, <2>6, UpAlone DEF u
      <3>2. u # 0
        BY <2>1, <2>3, <2>6, Halves DEF u
      <3>3. QED BY <2>4, <3>1, <3>2
    <2>7. CASE ~(g = t /\ g % 2 = 0)
      <3>1. \E p : PathAt(b, m, i + 1, g \div 2, u) = Append(PathAt(b, m, i, g, t), p)
        <4>1. CASE g % 2 = 1
          BY <2>1, <4>1, UpFromRight DEF u
        <4>2. CASE g % 2 = 0
          <5>1. g < t
            BY <2>3, <2>7, <4>2
          <5>2. QED BY <2>1, <4>2, <5>1, UpFromLeft DEF u
        <4>3. QED BY <2>2, <4>1, <4>2
      <3>2. Width(b, i, g, t) \in Sizes /\ First(i, g) \in Nat /\ m - First(i, g) \in Nat
        BY <2>1, PositionRange
      <3>3. PathAt(b, m, i, g, t) \in Seq(Trees)
        BY <3>2, PathsAreHashes DEF PathAt
      <3>4. PICK p : PathAt(b, m, i + 1, g \div 2, u) = Append(PathAt(b, m, i, g, t), p)
        BY <3>1
      <3>5. /\ Len(PathAt(b, m, i + 1, g \div 2, u)) = Len(PathAt(b, m, i, g, t)) + 1
            /\ Len(PathAt(b, m, i, g, t)) \in Nat
        BY <3>3, <3>4
      <3>6. AuditPath[b][0][m] \in Seq(Trees)
        BY PathsAreHashes DEF Sizes
      <3>7. Len(AuditPath[b][0][m]) \in Nat
        BY <3>6
      <3>8. QED BY <2>4, <2>5, <3>5, <3>7
    <2>8. QED BY <2>6, <2>7
  <1> HIDE DEF S
  <1>3. s \in Nat /\ s \in S
    BY <1>1, <1>2, SetInduction DEF At
  <1>4. s <= s
    BY <1>3
  <1>5. QED BY <1>3, <1>4 DEF S

-----------------------------------------------------------------------------
(* The inductive invariant of VerifyInclusion *)

\* Between two nodes of the path: at some height, r and the path are as claimed.
Hashing ==
    /\ index \in 0..(size - 1)
    /\ \E h : Claim(size, index, leaf, h, fn, sn, r, path)

\* While the shifts are under way: so were r and the path before the last node,
\* which was the neighbour of that hash.
Climbing ==
    /\ index \in 0..(size - 1)
    /\ \E h, x, p, q :
          /\ Claim(size, index, leaf, h, fn, sn, x, q) /\ q \in Seq(Sent(size))
          /\ path = Append(q, p)
          /\ r = IF fn % 2 = 1 \/ fn = sn THEN Node(p, x) ELSE Node(x, p)

MerkleInv ==
    /\ size \in Nat /\ index \in Int /\ index <= size /\ path \in Seq(Sent(size))
    /\ verdict \in {"none", "hashing", "climbing", "accepted", "refused"}
    /\ verdict = "none" => path = <<>>
    /\ verdict \in {"hashing", "climbing"} => size # 0
    /\ verdict = "hashing" => Hashing
    /\ verdict = "climbing" => Climbing
    /\ AcceptsExactlyProofs

LEMMA BeginInv == MerkleInv /\ Begin => MerkleInv'
  <1> SUFFICES ASSUME MerkleInv, Begin PROVE MerkleInv'
    OBVIOUS
  <1>1. /\ size \in Nat /\ index \in Int /\ index <= size /\ path = <<>> /\ path \in Seq(Sent(size))
        /\ UNCHANGED <<size, index, leaf, path>>
    BY DEF MerkleInv, Begin
  <1>2. Sent(size)' = Sent(size)
    BY <1>1 DEF Sent
  <1>3. CASE leaf # Short /\ index >= 0 /\ index < size
    <2>1. verdict' = "hashing" /\ fn' = index /\ sn' = size - 1 /\ r' = leaf
      BY <1>3 DEF Begin
    <2>2. size \in Sizes /\ index \in 0..(size - 1) /\ size # 0 /\ index \in Nat
      BY <1>1, <1>3 DEF Sizes
    <2>3. Pow2[0] = 1 /\ 0 \in Nat
      BY PowersOfTwo
    <2>4. At(size, index, 0, index, size - 1)
      BY <1>1, <2>2, <2>3 DEF At
    <2>5. First(0, index) = index /\ Width(size, 0, index, size - 1) = 1
      BY <1>1, <2>2, <2>3 DEF First, Width
    <2>6. TreeAt(size, 0, index, size - 1) = Leaf(index)
      BY <2>2, <2>5, TreeEquation DEF TreeAt
    <2>7. PathAt(size, index, 0, index, size - 1) = <<>>
      <3>1. index - index = 0
        BY <1>1
      <3>2. AuditPath[1][index][0] = <<>>
        BY <2>2, PathEquation
      <3>3. QED BY <2>5, <3>1, <3>2 DEF PathAt
    <2>8. Meets(size, index, leaf, 0, index, size - 1, leaf, <<>>)
      BY <2>6, <2>7 DEF Meets
    <2>9. Deep(0, leaf)
      BY <2>3 DEF Deep, Sizes
    <2>10. index = size - 1 => OffSpine(size, First(0, index), leaf)
      BY <1>1, <2>5 DEF OffSpine, Spine
    <2>11. Claim(size, index, leaf, 0, index, size - 1, leaf, <<>>)
      BY <2>4, <2>8, <2>9, <2>10 DEF Claim
    <2>12. Hashing'
      BY <1>1, <2>1, <2>2, <2>11 DEF Hashing
    <2>13. AcceptsExactlyProofs'
      BY <2>1 DEF AcceptsExactlyProofs
    <2>14. QED BY <1>1, <1>2, <2>1, <2>2, <2>12, <2>13 DEF MerkleInv
  <1>4. CASE ~(leaf # Short /\ index >= 0 /\ index < size)
    <2>1. verdict' = "refused"
      BY <1>4 DEF Begin
    <2>2. ~TheProof'
      BY <1>1, <1>4, Hashes DEF TheProof
    <2>3. AcceptsExactlyProofs'
      BY <2>1, <2>2 DEF AcceptsExactlyProofs
    <2>4. QED BY <1>1, <1>2, <2>1, <2>3 DEF MerkleInv
  <1>5. QED BY <1>3, <1>4

LEMMA HashInv == ASSUME NEW p \in Sent(size), MerkleInv, Hash(p) PROVE MerkleInv'
  <1>1. /\ size \in Nat /\ index \in Int /\ index <= size /\ path \in Seq(Sent(size))
        /\ UNCHANGED <<size, index, leaf, fn, sn>> /\ path' = Append(path, p)
        /\ Hashing /\ size # 0
    BY DEF MerkleInv, Hash
  <1>2. Sent(size)' = Sent(size)
    BY <1>1 DEF Sent
  <1>3. path' \in Seq(Sent(size)')
    BY <1>1, <1>2
  <1>4. CASE p = Short
    <2>1. verdict' = "refused"
      BY <1>4 DEF Hash
    <2>2. ASSUME TheProof' PROVE FALSE
      <3>1. size \in Sizes /\ index \in Nat
        BY <1>1 DEF Sizes, Hashing
      <3>2. AuditPath[size][0][index] \in Seq(Trees)
        BY <1>1, <3>1, PathsAreHashes
      <3>3. path' = AuditPath[size][0][index]
        BY <1>1, <2>2 DEF TheProof
      <3>4. Len(path) \in Nat /\ Len(path') = Len(path) + 1 /\ path'[Len(path) + 1] = Short
        BY <1>1, <1>4
      <3>5. path' \in Seq(Trees) /\ Len(path) + 1 \in 1..Len(path')
        BY <3>2, <3>3, <3>4
      <3>6. Short \in Trees
        BY <3>4, <3>5
      <3>7. QED BY <3>6, TreesAreHashes
    <2>3. AcceptsExactlyProofs'
      BY <2>1, <2>2 DEF AcceptsExactlyProofs
    <2>4. QED BY <1>1, <1>3, <2>1, <2>3 DEF MerkleInv
  <1>5. CASE p # Short
    <2>1. /\ verdict' = "climbing"
          /\ r' = IF fn % 2 = 1 \/ fn = sn THEN Node(p, r) ELSE Node(r, p)
      BY <1>5 DEF Hash
    <2>2. PICK h : Claim(size, index, leaf, h, fn, sn, r, path)
      BY <1>1 DEF Hashing
    <2>3. Climbing'
      <3>1. index' \in 0..(size' - 1)
        BY <1>1 DEF Hashing
      <3>2. \E h0, x, p0, q :
              /\ Claim(size', index', leaf', h0, fn', sn', x, q) /\ q \in Seq(Sent(size)')
              /\ path' = Append(q, p0)
              /\ r' = IF fn' % 2 = 1 \/ fn' = sn' THEN Node(p0, x) ELSE Node(x, p0)
        BY <1>1, <1>2, <2>1, <2>2
      <3>3. QED BY <3>1, <3>2 DEF Climbing
    <2>4. AcceptsExactlyProofs'
      BY <2>1 DEF AcceptsExactlyProofs
    <2>5. QED BY <1>1, <1>3, <2>1, <2>3, <2>4 DEF MerkleInv
  <1>6. QED BY <1>4, <1>5

LEMMA ClimbInv == MerkleInv /\ Climb => MerkleInv'
  <1> SUFFICES ASSUME MerkleInv, Climb PROVE MerkleInv'
    OBVIOUS
  <1>1. /\ size \in Nat /\ index \in Int /\ index <= size /\ path \in Seq(Sent(size))
        /\ UNCHANGED <<size, index, leaf, path, r>>
        /\ Climbing /\ size # 0 /\ index \in 0..(size - 1)
    BY DEF MerkleInv, Climb, Climbing
  <1>2. Sent(size)' = Sent(size) /\ size \in Sizes
    BY <1>1 DEF Sent, Sizes
  <1>3. /\ fn' = fn \div 2 /\ sn' = sn \div 2
        /\ verdict' = IF fn = sn /\ fn # 0 /\ fn % 2 = 0 THEN "climbing" ELSE "hashing"
    BY DEF Climb
  <1>4. PICK h, x, p, q :
          /\ Claim(size, index, leaf, h, fn, sn, x, q) /\ q \in Seq(Sent(size))
          /\ path = Append(q, p)
          /\ r = IF fn % 2 = 1 \/ fn = sn THEN Node(p, x) ELSE Node(x, p)
    BY <1>1 DEF Climbing
  <1>5. fn \in Nat /\ sn \in Nat /\ fn <= sn
    BY <1>4 DEF Claim, At
  <1>6. AcceptsExactlyProofs'
    BY <1>3 DEF AcceptsExactlyProofs
  <1>7. CASE fn = sn /\ fn # 0 /\ fn % 2 = 0
    <2>1. Claim(size, index, leaf, h + 1, fn \div 2, sn \div 2, x, q)
      BY <1>1, <1>2, <1>4, <1>7, ClimbAlone
    <2>2. fn' = sn' /\ r = Node(p, x)
      BY <1>3, <1>4, <1>7
    <2>3. \E h0, x0, p0, q0 :
              /\ Claim(size', index', leaf', h0, fn', sn', x0, q0) /\ q0 \in Seq(Sent(size)')
              /\ path' = Append(q0, p0)
              /\ r' = IF fn' % 2 = 1 \/ fn' = sn' THEN Node(p0, x0) ELSE Node(x0, p0)
      BY <1>1, <1>2, <1>3, <1>4, <2>1, <2>2
    <2>4. Climbing'
      BY <1>1, <2>3 DEF Climbing
    <2>5. QED BY <1>1, <1>2, <1>3, <1>6, <1>7, <2>4 DEF MerkleInv
  <1>8. CASE ~(fn = sn /\ fn # 0 /\ fn % 2 = 0)
    <2>1. verdict' = "hashing"
      BY <1>3, <1>8
    <2>2. Claim(size, index, leaf, h + 1, fn \div 2, sn \div 2, r, path)
      <3>1. CASE fn % 2 = 1
        BY <1>1, <1>2, <1>4, <3>1, ClimbFromRight
      <3>2. CASE fn % 2 = 0 /\ fn < sn
        <4>1. r = Node(x, p)
          BY <1>4, <1>5, <3>2
        <4>2. QED BY <1>1, <1>2, <1>4, <3>2, <4>1, ClimbFromLeft
      <3>3. CASE fn = 0 /\ sn = 0
        <4>1. r = Node(p, x) /\ fn \div 2 = 0 /\ sn \div 2 = 0
          BY <1>4, <3>3
        <4>2. QED BY <1>1, <1>2, <1>4, <3>3, <4>1, ClimbPastRoot
      <3>4. fn % 2 = 0 \/ fn % 2 = 1
        BY <1>5, Halves
      <3>5. QED BY <1>5, <1>8, <3>1, <3>2, <3>3, <3>4
    <2>3. Hashing'
      BY <1>1, <1>3, <2>2 DEF Hashing
    <2>4. QED BY <1>1, <1>2, <1>6, <2>1, <2>3 DEF MerkleInv
  <1>9. QED BY <1>7, <1>8

LEMMA FinishInv == MerkleInv /\ Finish => MerkleInv'
  <1> SUFFICES ASSUME MerkleInv, Finish PROVE MerkleInv'
    OBVIOUS
  <1>1. /\ size \in Nat /\ index \in Int /\ index <= size /\ path \in Seq(Sent(size))
        /\ UNCHANGED <<size, index, leaf, path>>
        /\ Hashing /\ size # 0 /\ index \in 0..(size - 1)
    BY DEF MerkleInv, Finish, Hashing
  <1>2. Sent(size)' = Sent(size) /\ size \in Sizes
    BY <1>1 DEF Sent, Sizes
  <1>3. PICK h : Claim(size, index, leaf, h, fn, sn, r, path)
    BY <1>1 DEF Hashing
  <1>4. verdict' = IF sn = 0 /\ r = Tree[size][0] THEN "accepted" ELSE "refused"
    BY DEF Finish
  <1>5. At(size, index, h, fn, sn)
    BY <1>3 DEF Claim
  <1> DEFINE A == AuditPath[size][0][index]
  <1>6. A \in Seq(Trees)
    BY <1>1, <1>2, PathsAreHashes
  <1>7. Len(A) \in Nat /\ Len(path) \in Nat
    BY <1>1, <1>6
  <1>8. index < size
    BY <1>1
  <1>9. sn = 0 => TreeAt(size, h, fn, sn) = Tree[size][0] /\ PathAt(size, index, h, fn, sn) = A
    BY <1>1, <1>2, <1>5, AtTheRoot
  <1>10. sn # 0 => Len(PathAt(size, index, h, fn, sn)) < Len(A)
    BY <1>1, <1>2, <1>5, PathIsShorter
  <1>11. verdict' = "accepted" <=> leaf = Leaf(index) /\ path = A
    <2>1. CASE Meets(size, index, leaf, h, fn, sn, r, path)
      <3>1. CASE sn = 0
        BY <1>4, <1>9, <2>1, <3>1 DEF Meets
      <3>2. CASE sn # 0
        <4>1. path # A
          BY <1>7, <1>10, <2>1, <3>2 DEF Meets
        <4>2. QED BY <1>4, <3>2, <4>1
      <3>3. QED BY <3>1, <3>2
    <2>2. CASE Exceeds(size, index, sn, r, path)
      <3>1. path # A /\ r # Tree[size][0]
        BY <1>7, <2>2 DEF Exceeds
      <3>2. QED BY <1>4, <3>1
    <2>3. QED BY <1>3, <2>1, <2>2 DEF Claim
  <1>12. TheProof' <=> leaf = Leaf(index) /\ path = A
    BY <1>1, <1>8 DEF TheProof
  <1>13. AcceptsExactlyProofs'
    BY <1>11, <1>12 DEF AcceptsExactlyProofs
  <1>14. QED BY <1>1, <1>2, <1>4, <1>13 DEF MerkleInv

\* VerifyInclusion accepts the audit path of a leaf, of a tree of any size, and
\* refuses whatever else it is given.
THEOREM MerkleVerdict == MerkleSpec => []AcceptsExactlyProofs
  <1>1. MerkleInit => MerkleInv
    <2> SUFFICES ASSUME MerkleInit PROVE MerkleInv
      OBVIOUS
    <2>1. size \in Nat /\ index \in Int /\ index <= size
      BY MerkleAssumption DEF MerkleInit
    <2>2. path = <<>> /\ path \in Seq(Sent(size)) /\ verdict = "none"
      BY DEF MerkleInit
    <2>3. QED BY <2>1, <2>2 DEF MerkleInv, AcceptsExactlyProofs
  <1>2. MerkleInv /\ [MerkleNext]_merkleVars => MerkleInv'
    <2> SUFFICES ASSUME MerkleInv, [MerkleNext]_merkleVars PROVE MerkleInv'
      OBVIOUS
    <2>1. CASE Begin
      BY <2>1, BeginInv
    <2>2. ASSUME NEW p \in Sent(size), Hash(p) PROVE MerkleInv'
      BY <2>2, HashInv
    <2>3. CASE Climb
      BY <2>3, ClimbInv
    <2>4. CASE Finish
      BY <2>4, FinishInv
    <2>5. CASE UNCHANGED merkleVars
      <3>1. Hashing' = Hashing /\ Climbing' = Climbing /\ AcceptsExactlyProofs' = AcceptsExactlyProofs
        BY <2>5 DEF merkleVars, Hashing, Climbing, Sent, AcceptsExactlyProofs, TheProof
      <3>2. QED BY <2>5, <3>1 DEF merkleVars, MerkleInv, Sent
    <2>6. QED BY <2>1, <2>2, <2>3, <2>4, <2>5 DEF MerkleNext
  <1>3. MerkleInv => AcceptsExactlyProofs
    BY DEF MerkleInv
  <1>4. QED BY <1>1, <1>2, <1>3, PTL DEF MerkleSpec

=============================================================================
