------------------------------- MODULE Merkle -------------------------------
(***************************************************************************)
(* internal/rfc6962/merkle.go: the check of an audit path, as the tailer's *)
(* spotCheck uses it on what a log answers.  SHA-256 is taken as a free    *)
(* constructor: two hashes are equal only if they hash the same things.    *)
(* The root is that of a tree of `size' leaves; the leaf hash, the index   *)
(* and the path are whatever the log and its proof make of them.           *)
(***************************************************************************)
EXTENDS Integers, Sequences

CONSTANTS
    MaxSize,   \* bound: leaves of a tree
    MaxPath    \* bound: nodes of an audit path

ASSUME MerkleAssumption == MaxSize \in Nat \ {0} /\ MaxPath \in Nat

VARIABLES
    size, index, leaf,   \* the arguments of VerifyInclusion
    path,                \* the part of auditPath it has read
    fn, sn, r,           \* its local variables
    verdict              \* "none", "hashing", "climbing", "accepted" or "refused"

merkleVars == <<size, index, leaf, path, fn, sn, r, verdict>>

-----------------------------------------------------------------------------
(* Hashes *)

Leaf(i) == <<"leaf", i>>

Node(left, right) == <<"node", left, right>>

\* A byte string that does not have the 32 bytes of a hash.
Short == <<"short">>

-----------------------------------------------------------------------------
(* The tree of RFC 6962: the reference of the properties *)

Sizes == Nat \ {0}

Pow2[e \in Nat] == IF e = 0 THEN 1 ELSE 2 * Pow2[e - 1]

\* The largest power of two below n: where a tree of n leaves is split.
Split(n) == CHOOSE k \in {Pow2[e] : e \in 0..n} : k < n /\ n <= 2 * k

\* Section 2.1: the hash of the leaves lo .. lo + n - 1.
Tree[n \in Sizes] ==
    [lo \in Nat |->
        IF n = 1 THEN Leaf(lo)
        ELSE Node(Tree[Split(n)][lo], Tree[n - Split(n)][lo + Split(n)])]

\* Section 2.1.1: the audit path of leaf m of those leaves.
AuditPath[n \in Sizes] ==
    [lo \in Nat |-> [m \in Nat |->
        IF n = 1 THEN <<>>
        ELSE IF m < Split(n)
             THEN Append(AuditPath[Split(n)][lo][m], Tree[n - Split(n)][lo + Split(n)])
             ELSE Append(AuditPath[n - Split(n)][lo + Split(n)][m - Split(n)],
                         Tree[Split(n)][lo])]]

\* Every hash of that tree, inner ones too.
Subtrees[n \in Sizes] ==
    [lo \in Nat |->
        {Tree[n][lo]} \cup
        (IF n = 1 THEN {}
         ELSE Subtrees[Split(n)][lo] \cup Subtrees[n - Split(n)][lo + Split(n)])]

\* What a log may send for a hash of a tree of n leaves.
Sent(n) == (IF n = 0 THEN {} ELSE Subtrees[n][0]) \cup {Leaf(n), Short}

-----------------------------------------------------------------------------
(* VerifyInclusion *)

\* The checks of the arguments.
Begin ==
    /\ verdict = "none"
    /\ IF leaf # Short /\ index >= 0 /\ index < size
       THEN /\ verdict' = "hashing"
            /\ fn' = index
            /\ sn' = size - 1
            /\ r' = leaf
       ELSE verdict' = "refused" /\ UNCHANGED <<fn, sn, r>>
    /\ UNCHANGED <<size, index, leaf, path>>

\* One node of the path: a left neighbour if the position is odd or at the
\* right edge, else a right one.
Hash(p) ==
    /\ verdict = "hashing"
    /\ path' = Append(path, p)
    /\ IF p = Short
       THEN verdict' = "refused" /\ UNCHANGED r
       ELSE /\ verdict' = "climbing"
            /\ r' = IF fn % 2 = 1 \/ fn = sn THEN Node(p, r) ELSE Node(r, p)
    /\ UNCHANGED <<size, index, leaf, fn, sn>>

\* Mutant: a node at the right edge climbs one level only.
Climb_OneLevel ==
    /\ verdict = "climbing"
    /\ fn' = fn \div 2
    /\ sn' = sn \div 2
    /\ verdict' = "hashing"
    /\ UNCHANGED <<size, index, leaf, path, r>>

\* Up one level, and at the right edge past those without a left neighbour: the
\* body of the inner loop, or the shifts behind it.
Climb ==
    /\ verdict = "climbing"
    /\ fn' = fn \div 2
    /\ sn' = sn \div 2
    /\ verdict' = IF fn = sn /\ fn # 0 /\ fn % 2 = 0 THEN "climbing" ELSE "hashing"
    /\ UNCHANGED <<size, index, leaf, path, r>>

\* Mutant: a path that ends below the root is accepted.
Finish_AnyLength ==
    /\ verdict = "hashing"
    /\ verdict' = IF r = Tree[size][0] THEN "accepted" ELSE "refused"
    /\ UNCHANGED <<size, index, leaf, path, fn, sn, r>>

\* The path is at its end.
Finish ==
    /\ verdict = "hashing"
    /\ verdict' = IF sn = 0 /\ r = Tree[size][0] THEN "accepted" ELSE "refused"
    /\ UNCHANGED <<size, index, leaf, path, fn, sn, r>>

-----------------------------------------------------------------------------

\* What spotCheck passes on: the size and the root are signed, the leaf is an
\* entry of the batch or anything else, the index and the path come with it.
MerkleInit ==
    /\ size \in 0..MaxSize
    /\ index \in -1..size
    /\ leaf \in Sent(size)
    /\ path = <<>> /\ fn = 0 /\ sn = 0 /\ r = Short
    /\ verdict = "none"

MerkleNext ==
    \/ Begin
    \/ Len(path) < MaxPath /\ \E p \in Sent(size) : Hash(p)
    \/ Climb
    \/ Finish

MerkleSpec == MerkleInit /\ [][MerkleNext]_merkleVars

-----------------------------------------------------------------------------
(* Properties *)

TheProof ==
    /\ index \in 0..(size - 1)
    /\ leaf = Leaf(index) /\ path = AuditPath[size][0][index]

\* VerifyInclusion accepts the leaf at that index with its audit path, for every
\* leaf of every tree, the tree of one leaf and the right edge of one that is not
\* a power of two among them; and it accepts nothing else: no inner node for a
\* leaf, no other position, no shorter or longer path.
AcceptsExactlyProofs ==
    /\ verdict = "accepted" => TheProof
    /\ verdict = "refused" => ~TheProof
=============================================================================
