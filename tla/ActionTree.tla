----------------------------- MODULE ActionTree -----------------------------
(***************************************************************************)
(* The sparse Merkle tree of arm_core/src/tree.rs.  A tree is the function *)
(* from heights to the nodes stored at that height; node k of the code's   *)
(* zero-based vector is element k + 1.  Nodes that the tree does not store *)
(* are the default node of their height.                                   *)
(***************************************************************************)
EXTENDS Hash, Integers, SequencesExt

CONSTANT EmptyLeaf   \* the bytes "EMPTY", preimage of the default leaf

\* Fault: the default leaf stands for missing nodes at every height.
EmptyNodeFlat(height) == Keccak(<<EmptyLeaf>>)

\* The default node at a height, the last entry of empty_nodes(height).
EmptyNode(height) ==
  LET node[h \in 0..height] == IF h = 0 THEN Keccak(<<EmptyLeaf>>)
                                        ELSE HashTwo(node[h - 1], node[h - 1])
  IN  node[height]

\* The least depth at which 2^depth leaves hold n of them.
Depth(n) == CHOOSE d \in 0..n : 2^d >= n /\ \A c \in 0..(d - 1) : 2^c < n

\* Fault: a missing sibling is replaced by the last node of the level.
NodeAtOrLast(level, height, index) ==
  IF index + 1 \in DOMAIN level THEN level[index + 1] ELSE level[Len(level)]

\* The node at a zero-based index of a level, or the default one.
NodeAt(level, height, index) ==
  IF index + 1 \in DOMAIN level THEN level[index + 1] ELSE EmptyNode(height)

\* The stored parents of the nodes stored at a height.
Parents(level, height) ==
  [p \in 1..((Len(level) + 1) \div 2) |->
     HashTwo(level[2 * p - 1], NodeAt(level, height, 2 * p - 1))]

\* Callers rule the empty list out: there the code returns EmptyTree.
ComputeTree(leaves) ==
  LET nodes[h \in 0..Depth(Len(leaves))] ==
        IF h = 0 THEN leaves ELSE Parents(nodes[h - 1], h - 1)
  IN  nodes

TreeDepth(tree) == CHOOSE d \in DOMAIN tree : \A h \in DOMAIN tree : h <= d

Root(tree) == tree[TreeDepth(tree)][1]

TreeRoot(leaves) == Root(ComputeTree(leaves))

\* Fault: the sibling is always taken to be the next node.
SiblingIndexNext(index) == index + 1

\* The index a bit-flip away.
SiblingIndex(index) == IF index % 2 = 0 THEN index + 1 ELSE index - 1

\* Which flag prove_for records for the sibling of the node at an index.
SiblingIsLeft(index) == index % 2 = 0

\* The path of the first leaf equal to the given one.
ProveFor(tree, leaf) ==
  LET first == CHOOSE k \in DOMAIN tree[0] :
                 tree[0][k] = leaf /\ \A j \in 1..(k - 1) : tree[0][j] # leaf
      index(level) == (first - 1) \div 2^level
  IN  [k \in 1..TreeDepth(tree) |->
         [node   |-> NodeAt(tree[k - 1], k - 1, SiblingIndex(index(k - 1))),
          isLeft |-> SiblingIsLeft(index(k - 1))]]

\* The root that a path asserts for a leaf.
ComputeRoot(path, leaf) ==
  FoldLeft(LAMBDA acc, sibling : IF sibling.isLeft THEN HashTwo(sibling.node, acc)
                                                   ELSE HashTwo(acc, sibling.node),
           leaf, path)

VerifyPath(path, leaf, root) == ComputeRoot(path, leaf) = root
=============================================================================
