------------------------------- MODULE Merkle -------------------------------
(***************************************************************************)
(* Merkle trees and authentication paths (crates/ledger/src/merkle.rs).    *)
(* A digest is the term that was hashed, so hashing is injective, and      *)
(* leaves, inner nodes and the empty tree never meet.                      *)
(***************************************************************************)
EXTENDS Lists

HashLeaf(data) == <<"leaf", data>>
HashNode(left, right) == <<"node", left, right>>
EmptyRoot == <<"empty">>

\* One round of MerkleTree::build: hash pairs, promote a lone node unchanged.
Parents(nodes) ==
    [i \in 1..(Len(nodes) + 1) \div 2 |->
        IF 2 * i <= Len(nodes) THEN HashNode(nodes[2 * i - 1], nodes[2 * i])
                               ELSE nodes[2 * i - 1]]

\* MerkleTree::build: the levels, from the leaves up to the root.
Build(leaves) ==
    LET level[l \in 0..Len(leaves)] ==
            IF l = 0 THEN leaves ELSE Parents(level[l - 1])
        top == CHOOSE l \in DOMAIN level :
            /\ Len(level[l]) <= 1
            /\ \A k \in 0..l - 1 : Len(level[k]) > 1
    IN  [l \in 1..top + 1 |-> level[l - 1]]

\* MerkleTree::root.
Root(tree) == IF Last(tree) = <<>> THEN EmptyRoot ELSE Last(tree)[1]

\* Treats a promoted node as if it had been paired with itself.
HopToItself(nodes, idx) ==
    IF idx % 2 = 1 THEN <<[sibling |-> nodes[idx], siblingIsLeft |-> TRUE]>>
    ELSE IF idx + 1 < Len(nodes)
         THEN <<[sibling |-> nodes[idx + 2], siblingIsLeft |-> FALSE]>>
         ELSE <<[sibling |-> nodes[idx + 1], siblingIsLeft |-> FALSE]>>

\* The hop of MerkleTree::proof at one level, none for a promoted node.  The
\* index idx counts from 0.
Hop(nodes, idx) ==
    IF idx % 2 = 1 THEN <<[sibling |-> nodes[idx], siblingIsLeft |-> TRUE]>>
    ELSE IF idx + 1 < Len(nodes)
         THEN <<[sibling |-> nodes[idx + 2], siblingIsLeft |-> FALSE]>>
         ELSE <<>>

\* The index at each level: idx /= 2 from one to the next.
IndexAt(tree, index) ==
    LET idx[l \in 1..Len(tree)] == IF l = 1 THEN index ELSE idx[l - 1] \div 2
    IN  idx

\* MerkleTree::proof, for an index in range.
Path(tree, index) ==
    Flatten([l \in 1..Len(tree) - 1 |-> Hop(tree[l], IndexAt(tree, index)[l])])

\* One step of MerklePath::compute_root.
Combined(step, acc) ==
    IF step.siblingIsLeft THEN HashNode(step.sibling, acc)
                          ELSE HashNode(acc, step.sibling)

\* MerklePath::compute_root.
ComputeRoot(path, leaf) ==
    LET acc[i \in 0..Len(path)] ==
            IF i = 0 THEN leaf ELSE Combined(path[i], acc[i - 1])
    IN  acc[Len(path)]

-----------------------------------------------------------------------------
\* The leaves a sequence of data gives rise to, as tree and as root.
TreeOf(data) == Build([i \in DOMAIN data |-> HashLeaf(data[i])])
RootOf(data) == Root(TreeOf(data))

\* The path for the i-th datum leads to the root from that datum, and from no
\* other one of the sequence.
PathBinds(data, i) ==
    LET tree == TreeOf(data)
        path == Path(tree, i - 1)
        root == Root(tree)
    IN  \A j \in DOMAIN data :
            (ComputeRoot(path, HashLeaf(data[j])) = root) <=> (data[j] = data[i])
=============================================================================
