--------------------------- MODULE ActionTreeProofs ---------------------------
(***************************************************************************)
(* The tree of an action, for any number of tags: its root is that of the  *)
(* full tree, determines the tags, and is where the siblings of any leaf   *)
(* lead.                                                                   *)
(***************************************************************************)
EXTENDS BasicProofs, MCActionTree

-----------------------------------------------------------------------------
(* The lists of tags.                                                      *)

\* A list in AllLists is a list of tags as the lemmas about trees want it.
LEMMA ListsAreTagLists ==
  ASSUME NEW list \in AllLists
  PROVE  IsTagList(list)
<1>1. PICK n \in 1..MaxLeaves : list \in [1..n -> Tags] /\ list[1] \in Nullifiers
  BY DEF AllLists
<1>2. n \in Nat \ {0} /\ DOMAIN list = 1..n /\ Len(list) = n
  BY <1>1, BoundAssumption
<1>3. IsLevel(list, Len(list))
  BY <1>1, <1>2 DEF IsLevel
<1>4. \E r, key : list[1] = HashTwo(Keccak(<<r>>), key)
  <2>1. PICK c \in Commitments, key \in NullifierKeys : list[1] = HashTwo(c, key)
    BY <1>1 DEF Nullifiers
  <2>2. PICK r \in Resources : c = Keccak(<<r>>)
    BY DEF Commitments
  <2>. QED  BY <2>1, <2>2
<1>5. \A k \in DOMAIN list : list[k] # Keccak(<<EmptyLeaf>>)
  <2>1. \A r \in Resources : Keccak(<<r>>) # Keccak(<<EmptyLeaf>>)
    BY EmptyLeafAssumption DEF Keccak
  <2>2. \A n1 \in Nullifiers : n1 # Keccak(<<EmptyLeaf>>)
    BY HashTwoIsNotOne DEF Nullifiers
  <2>. QED  BY <1>1, <1>2, <2>1, <2>2 DEF Tags, Commitments
<1>. QED  BY <1>3, <1>4, <1>5 DEF IsTagList

\* leaves is always such a list.
LEMMA LeavesAreLists == Spec => [](leaves \in AllLists)
<1>1. Init => leaves \in AllLists
  <2>. SUFFICES ASSUME NEW n \in Nullifiers, leaves = <<n>>
                PROVE  leaves \in AllLists
    BY DEF Init
  <2>1. leaves \in [1..1 -> Tags] /\ leaves[1] \in Nullifiers
    BY DEF Tags
  <2>2. 1 \in 1..MaxLeaves
    BY BoundAssumption
  <2>. QED  BY <2>1, <2>2 DEF AllLists
<1>2. leaves \in AllLists /\ [Push]_leaves => (leaves \in AllLists)'
  <2>. SUFFICES ASSUME leaves \in AllLists, Push
                PROVE  leaves' \in AllLists
    OBVIOUS
  <2>1. PICK n \in 1..MaxLeaves : leaves \in [1..n -> Tags] /\ leaves[1] \in Nullifiers
    BY DEF AllLists
  <2>2. PICK t \in Tags : leaves' = Append(leaves, t)
    BY DEF Push
  <2>3. n \in Nat \ {0} /\ Len(leaves) = n /\ n + 1 \in 1..MaxLeaves
    BY <2>1, BoundAssumption DEF Push
  <2>4. leaves \in Seq(Tags)
    BY <2>1, <2>3
  <2>5. leaves' \in [1..(n + 1) -> Tags] /\ leaves'[1] = leaves[1]
    <3>1. leaves' \in Seq(Tags) /\ Len(leaves') = n + 1 /\ leaves'[1] = leaves[1]
      BY <2>2, <2>3, <2>4
    <3>. QED  BY <2>3, <3>1
  <2>. QED  BY <2>1, <2>3, <2>5 DEF AllLists
<1>. QED  BY <1>1, <1>2, PTL DEF Spec

(* No two lists of tags of actions share a root: the root of the action    *)
(* that a resource logic reveals determines all resources of the action    *)
(* and their order.                                                        *)
THEOREM RootsBindTags == Spec => []RootBindsTags
<1>1. leaves \in AllLists => RootBindsTags
  <2>. SUFFICES ASSUME leaves \in AllLists, NEW list \in AllLists,
                       RootOf[list] = TreeRoot(leaves)
                PROVE  list = leaves
    BY DEF RootBindsTags
  <2>1. IsTagList(list) /\ IsTagList(leaves)
    BY ListsAreTagLists
  <2>2. TreeRoot(list) = TreeRoot(leaves)
    BY DEF RootOf
  <2>. QED  BY <2>1, <2>2, RootDetermines
<1>. QED  BY <1>1, LeavesAreLists, PTL

-----------------------------------------------------------------------------
(* The full tree.                                                          *)

\* The rows of the full tree over some leaves.
IsRows(row, list, depth) ==
  row = [h \in 0..depth |->
           IF h = 0
           THEN [k \in 1..2^depth |-> IF k <= Len(list) THEN list[k] ELSE Keccak(<<EmptyLeaf>>)]
           ELSE [k \in 1..2^(depth - h) |->
                   HashTwo(row[h - 1][2 * k - 1], row[h - 1][2 * k])]]

\* PerfectRoot is the node in the last row.
LEMMA RowsExist ==
  ASSUME NEW list, NEW depth \in Nat, depth = Depth(Len(list))
  PROVE  \E row : IsRows(row, list, depth) /\ PerfectRoot(list) = row[depth][1]
<1>. DEFINE lowest == [k \in 1..2^depth |-> IF k <= Len(list) THEN list[k]
                                                              ELSE Keccak(<<EmptyLeaf>>)]
            Above(h, below) == [k \in 1..2^(depth - h) |->
                                  HashTwo(below[2 * k - 1], below[2 * k])]
            UpTo(row, n) == row = [h \in 0..n |-> IF h = 0 THEN lowest
                                                  ELSE Above(h, row[h - 1])]
            T == {n \in Nat : \E row : UpTo(row, n)}
<1>. HIDE DEF lowest, Above
<1>1. 0 \in T
  <2>. DEFINE row == [h \in 0..0 |-> lowest]
  <2>1. UpTo(row, 0)
    OBVIOUS
  <2>. QED  BY <2>1
<1>2. ASSUME NEW n \in Nat, n \in T
      PROVE  n + 1 \in T
  <2>1. PICK row : UpTo(row, n)
    BY <1>2
  <2>. DEFINE more == [h \in 0..(n + 1) |-> IF h <= n THEN row[h] ELSE Above(n + 1, row[n])]
  <2>2. \A h \in 0..(n + 1) : more[h] = IF h = 0 THEN lowest ELSE Above(h, more[h - 1])
    <3>1. \A h \in 0..n : row[h] = IF h = 0 THEN lowest ELSE Above(h, row[h - 1])
      BY <2>1
    <3>. QED  BY <3>1
  <2>3. UpTo(more, n + 1)
    BY <2>2
  <2>. HIDE DEF more, UpTo
  <2>. QED  BY <2>3
<1>. HIDE DEF T
<1>3. depth \in T
  BY <1>1, <1>2, Induction
<1>4. \E row : IsRows(row, list, depth)
  BY <1>3 DEF T, IsRows, lowest, Above
<1>5. PerfectRoot(list) = (CHOOSE row : IsRows(row, list, depth))[depth][1]
  BY DEF PerfectRoot, IsRows
<1>. QED  BY <1>4, <1>5

\* Each row has the stored nodes and, for the rest, the default node.
LEMMA RowsAreLevels ==
  ASSUME NEW list, NEW depth, NEW tree, IsTree(tree, list, depth),
         NEW row, IsRows(row, list, depth)
  PROVE  \A h \in Nat : h <= depth =>
           \A p \in 1..2^(depth - h) : row[h][p] = NodeAt(tree[h], h, p - 1)
<1>. DEFINE Good(h) == \A p \in 1..2^(depth - h) : row[h][p] = NodeAt(tree[h], h, p - 1)
            T == {h \in Nat : h <= depth => Good(h)}
<1>1. depth \in Nat
  BY DEF IsTree
<1>2. 0 \in T
  <2>. SUFFICES ASSUME NEW p \in 1..2^(depth - 0)
                PROVE  row[0][p] = NodeAt(tree[0], 0, p - 1)
    OBVIOUS
  <2>1. p \in 1..2^depth /\ p \in Nat \ {0} /\ p - 1 + 1 = p
    BY <1>1, PowerPositive
  <2>2. row[0][p] = IF p <= Len(list) THEN list[p] ELSE Keccak(<<EmptyLeaf>>)
    BY <1>1, <2>1 DEF IsRows
  <2>3. p \in DOMAIN list <=> p <= Len(list)
    BY <2>1 DEF IsTree, IsLevel
  <2>. QED  BY <2>1, <2>2, <2>3, LeavesAreLowest, EmptyNodeSteps DEF NodeAt
<1>3. ASSUME NEW h \in Nat, h \in T
      PROVE  h + 1 \in T
  <2>. SUFFICES ASSUME h + 1 <= depth, NEW p \in 1..2^(depth - (h + 1))
                PROVE  row[h + 1][p] = NodeAt(tree[h + 1], h + 1, p - 1)
    OBVIOUS
  <2>. DEFINE rest == depth - (h + 1)
  <2>1. /\ rest \in Nat /\ depth - h = rest + 1 /\ h <= depth
        /\ h + 1 \in 0..depth /\ h + 1 # 0 /\ h + 1 - 1 = h
    BY <1>1
  <2>2. /\ p \in Nat \ {0} /\ p - 1 + 1 = p
        /\ 2 * p - 1 \in 1..2^(depth - h) /\ 2 * p \in 1..2^(depth - h)
    <3>1. 2^rest \in Nat /\ 2^(depth - h) = 2^rest + 2^rest
      BY <2>1, PowerPositive, PowerDoubles
    <3>2. p \in 1..2^rest
      OBVIOUS
    <3>. HIDE DEF rest
    <3>. QED  BY <3>1, <3>2
  <2>3. row[h + 1][p] = HashTwo(row[h][2 * p - 1], row[h][2 * p])
    <3>1. \A g \in 0..depth : g # 0 =>
            row[g] = [k \in 1..2^(depth - g) |->
                        HashTwo(row[g - 1][2 * k - 1], row[g - 1][2 * k])]
      BY DEF IsRows
    <3>2. row[h + 1] = [k \in 1..2^(depth - (h + 1)) |->
                          HashTwo(row[h + 1 - 1][2 * k - 1], row[h + 1 - 1][2 * k])]
      BY <2>1, <3>1
    <3>. QED  BY <2>1, <3>2
  <2>4. Good(h)
    BY <1>3, <2>1
  <2>5. /\ row[h][2 * p - 1] = NodeAt(tree[h], h, 2 * p - 1 - 1)
        /\ row[h][2 * p] = NodeAt(tree[h], h, 2 * p - 1)
    BY <2>2, <2>4
  <2>6. PICK size : IsLevel(tree[h], size)
    BY <2>1, LevelSizes
  <2>7. tree[h + 1] = Parents(tree[h], h)
    BY ParentsAreAbove
  <2>8. IsLevel(tree[h + 1], (size + 1) \div 2)
    BY <2>6, <2>7, ParentsAreLevel
  <2>. HIDE DEF Good, T, rest
  <2>9. CASE p <= (size + 1) \div 2
    <3>1. 2 * p - 1 - 1 + 1 = 2 * p - 1 /\ 2 * p - 1 \in DOMAIN tree[h]
      BY <2>2, <2>6, <2>9 DEF IsLevel
    <3>2. row[h][2 * p - 1] = tree[h][2 * p - 1]
      BY <2>5, <3>1 DEF NodeAt
    <3>3. p \in DOMAIN tree[h + 1] /\ p \in 1..((size + 1) \div 2)
      BY <2>2, <2>8, <2>9 DEF IsLevel
    <3>4. NodeAt(tree[h + 1], h + 1, p - 1) = tree[h + 1][p]
      BY <2>2, <3>3 DEF NodeAt
    <3>5. tree[h + 1][p] =
            HashTwo(tree[h][2 * p - 1], NodeAt(tree[h], h, 2 * p - 1))
      BY <2>6, <2>7, <3>3 DEF Parents, IsLevel
    <3>. QED  BY <2>3, <2>5, <3>2, <3>4, <3>5
  <2>10. CASE ~(p <= (size + 1) \div 2)
    <3>1. /\ 2 * p - 1 - 1 + 1 \notin DOMAIN tree[h] /\ 2 * p - 1 + 1 \notin DOMAIN tree[h]
          /\ p - 1 + 1 \notin DOMAIN tree[h + 1]
      BY <2>2, <2>6, <2>8, <2>10 DEF IsLevel
    <3>2. /\ row[h][2 * p - 1] = EmptyNode(h) /\ row[h][2 * p] = EmptyNode(h)
          /\ NodeAt(tree[h + 1], h + 1, p - 1) = EmptyNode(h + 1)
      BY <2>5, <3>1 DEF NodeAt
    <3>. QED  BY <2>3, <3>2, EmptyNodeSteps
  <2>. QED  BY <2>9, <2>10
<1>. HIDE DEF T
<1>4. \A h \in Nat : h \in T
  BY <1>2, <1>3, Induction
<1>. QED  BY <1>4 DEF T

(* Whatever the number of tags, the sparse tree has the root of the full   *)
(* one, though compute_tree stores no node for the missing leaves.         *)
THEOREM RootsArePerfect == Spec => []RootIsPerfectRoot
<1>1. leaves \in AllLists => RootIsPerfectRoot
  <2>. SUFFICES ASSUME leaves \in AllLists
                PROVE  TreeRoot(leaves) = PerfectRoot(leaves)
    BY DEF RootIsPerfectRoot
  <2>. DEFINE depth == Depth(Len(leaves))
              tree  == ComputeTree(leaves)
  <2>1. IsLevel(leaves, Len(leaves))
    BY ListsAreTagLists DEF IsTagList
  <2>2. IsTree(tree, leaves, depth)
    BY <2>1, TreeIs
  <2>3. IsLevel(tree[depth], 1)
    BY <2>1, TopIsRoot
  <2>4. TreeRoot(leaves) = tree[depth][1]
    BY <2>1, TreeRootIs
  <2>5. depth \in Nat /\ depth <= depth
    BY <2>2 DEF IsTree
  <2>6. PICK row : IsRows(row, leaves, depth) /\ PerfectRoot(leaves) = row[depth][1]
    BY <2>5, RowsExist
  <2>. HIDE DEF depth, tree
  <2>7. 1 \in 1..2^(depth - depth)
    <3>1. depth - depth = 0
      BY <2>5
    <3>2. 2^(depth - depth) = 2^0
      BY <3>1
    <3>3. 2^0 = 1
      OBVIOUS
    <3>. QED  BY <3>2, <3>3
  <2>8. row[depth][1] = NodeAt(tree[depth], depth, 1 - 1)
    <3>1. \A h \in Nat : h <= depth =>
            \A p \in 1..2^(depth - h) : row[h][p] = NodeAt(tree[h], h, p - 1)
      BY <2>2, <2>6, RowsAreLevels
    <3>. QED  BY <2>5, <2>7, <3>1
  <2>9. NodeAt(tree[depth], depth, 1 - 1) = tree[depth][1]
    BY <2>3 DEF NodeAt, IsLevel
  <2>. QED  BY <2>4, <2>6, <2>8, <2>9
<1>. QED  BY <1>1, LeavesAreLists, PTL

-----------------------------------------------------------------------------
(* Paths of inclusion.                                                     *)

(* For every leaf of every list of tags, the siblings that prove_for       *)
(* collects, read with the sides that compute_root means, lead to the root *)
(* of the tree.                                                            *)
THEOREM PathsLeadToRoot == Spec => []SiblingsLeadToRoot
<1>1. leaves \in AllLists => SiblingsLeadToRoot
  <2>. SUFFICES ASSUME leaves \in AllLists, NEW leaf \in ToSet(leaves)
                PROVE  VerifyPath(Flip(ProveFor(ComputeTree(leaves), leaf)), leaf,
                                  Root(ComputeTree(leaves)))
    BY DEF SiblingsLeadToRoot
  <2>. DEFINE depth == Depth(Len(leaves))
              tree  == ComputeTree(leaves)
              Here(k) == /\ tree[0][k] = leaf
                         /\ \A j \in 1..(k - 1) : tree[0][j] # leaf
              first == CHOOSE k \in DOMAIN tree[0] : Here(k)
              path  == Flip(ProveFor(tree, leaf))
  <2>1. IsLevel(leaves, Len(leaves))
    BY ListsAreTagLists DEF IsTagList
  <2>2. IsTree(tree, leaves, depth) /\ tree[0] = leaves /\ TreeDepth(tree) = depth
    BY <2>1, TreeIs, LeavesAreLowest, TreeDepthIs
  <2>3. IsLevel(tree[depth], 1)
    BY <2>1, TopIsRoot
  <2>4. Root(tree) = tree[depth][1]
    BY <2>2 DEF Root
  <2>5. depth \in Nat
    BY <2>2 DEF IsTree
  <2>6. first \in DOMAIN tree[0] /\ Here(first)
    <3>. DEFINE S == {k \in DOMAIN leaves : leaves[k] = leaf}
    <3>1. S \subseteq Nat /\ S # {}
      BY <2>1 DEF ToSet, IsLevel
    <3>2. PICK k \in S : \A m \in S : k <= m
      BY <3>1, Least
    <3>3. \A j \in 1..(k - 1) : j \in DOMAIN leaves /\ ~(k <= j)
      BY <2>1, <3>1, <3>2 DEF IsLevel
    <3>4. k \in DOMAIN tree[0] /\ Here(k)
      BY <2>2, <3>2, <3>3
    <3>. HIDE DEF Here
    <3>. QED  BY <3>4
  <2>7. path = [k \in 1..depth |->
                  [node   |-> NodeAt(tree[k - 1], k - 1,
                                     SiblingIndex((first - 1) \div 2^(k - 1))),
                   isLeft |-> ~SiblingIsLeft((first - 1) \div 2^(k - 1))]]
    <3>1. ProveFor(tree, leaf) =
            [k \in 1..depth |->
               [node   |-> NodeAt(tree[k - 1], k - 1,
                                  SiblingIndex((first - 1) \div 2^(k - 1))),
                isLeft |-> SiblingIsLeft((first - 1) \div 2^(k - 1))]]
      <4>. HIDE DEF tree, depth
      <4>. QED  BY <2>2 DEF ProveFor
    <3>. HIDE DEF tree, depth, first
    <3>. QED  BY <3>1 DEF Flip
  <2>. DEFINE index == first - 1
  <2>. HIDE DEF first, path, depth, tree
  <2>8. /\ index \in Nat /\ index < Len(leaves) /\ index + 1 = first
        /\ leaves[first] = leaf
    BY <2>1, <2>2, <2>6 DEF IsLevel
  <2>9. IsPathOf(path, tree, index, depth)
    BY <2>5, <2>7 DEF IsPathOf, index
  <2>10. ComputeRoot(path, leaves[index + 1]) = tree[depth][1]
    BY <2>2, <2>3, <2>8, <2>9, SiblingsLeadUp
  <2>11. ComputeRoot(path, leaf) = Root(tree)
    BY <2>4, <2>8, <2>10
  <2>. QED  BY <2>11 DEF VerifyPath, path, tree
<1>. QED  BY <1>1, LeavesAreLists, PTL
===============================================================================
