---------------------------- MODULE MCActionTree ----------------------------
(***************************************************************************)
(* Every list of tags an action can have, up to a bound, as a state: the   *)
(* list grows by one tag at a time, as tags() chains them, and the tree    *)
(* operators are checked on each.  The nullifiers come first, and there is *)
(* one in every action: the guest derives the nonces of what is created    *)
(* from them and refuses to do so from none.                               *)
(***************************************************************************)
EXTENDS ActionTree, SequencesExt

CONSTANTS Resources,      \* the contents of resources
          NullifierKeys,  \* the keys they are consumed with
          MaxLeaves       \* bound on the resources of one action

ASSUME BoundAssumption == MaxLeaves \in Nat \ {0}

\* A resource has 177 bytes, the word "EMPTY" has five.
ASSUME EmptyLeafAssumption == EmptyLeaf \notin Resources

Commitments == {Keccak(<<r>>) : r \in Resources}
Nullifiers  == {HashTwo(c, k) : c \in Commitments, k \in NullifierKeys}
Tags        == Nullifiers \cup Commitments

\* A key is any 32 bytes: this one is a commitment, so that the nullifiers
\* look like the parents of commitments.
CommitmentAsKey == {Keccak(<<CHOOSE r \in Resources : TRUE>>)}

VARIABLE leaves

Init == leaves \in {<<n>> : n \in Nullifiers}

Push == /\ Len(leaves) < MaxLeaves
        /\ \E t \in Tags : leaves' = Append(leaves, t)

Spec == Init /\ [][Push]_leaves

\* The textbook tree: the leaves padded to a power of two, hashed pairwise.
PerfectRoot(list) ==
  LET depth == Depth(Len(list))
      row[h \in 0..depth] ==
        IF h = 0
        THEN [k \in 1..2^depth |-> IF k <= Len(list) THEN list[k] ELSE Keccak(<<EmptyLeaf>>)]
        ELSE [k \in 1..2^(depth - h) |-> HashTwo(row[h - 1][2 * k - 1], row[h - 1][2 * k])]
  IN  row[depth][1]

AllLists == {list \in UNION {[1..n -> Tags] : n \in 1..MaxLeaves} : list[1] \in Nullifiers}
RootOf   == [list \in AllLists |-> TreeRoot(list)]

Flip(path) == [k \in DOMAIN path |-> [path[k] EXCEPT !.isLeft = ~@]]

-----------------------------------------------------------------------------
(* Storing only non-empty nodes does not change the root: it is the root   *)
(* of the full tree whose missing leaves are the hash of "EMPTY"           *)
(* (compute_tree and empty_nodes).                                         *)
RootIsPerfectRoot == TreeRoot(leaves) = PerfectRoot(leaves)

(* Two actions with different tag lists never share an action root, the    *)
(* only thing that ties a resource logic to the other resources of its     *)
(* action (ActionVerifierInput::verify, ResourceLogicInstance).            *)
RootBindsTags == \A list \in AllLists : RootOf[list] = TreeRoot(leaves) => list = leaves

(* The siblings prove_for collects are the right ones, padding included:   *)
(* read with the side that compute_root means by is_left, the path leads   *)
(* from the leaf to the root.                                              *)
SiblingsLeadToRoot ==
  LET tree == ComputeTree(leaves)
  IN  \A leaf \in ToSet(leaves) :
        VerifyPath(Flip(ProveFor(tree, leaf)), leaf, Root(tree))

(* tree.rs promises path construction and verification: the proof computed *)
(* for a leaf verifies against the root of the tree.                       *)
ProofVerifies ==
  LET tree == ComputeTree(leaves)
  IN  \A leaf \in ToSet(leaves) : VerifyPath(ProveFor(tree, leaf), leaf, Root(tree))
=============================================================================
