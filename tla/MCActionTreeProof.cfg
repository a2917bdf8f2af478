SPECIFICATION Spec
CONSTANTS
  EmptyLeaf = EmptyLeaf
  Resources = {r1, r2}
  NullifierKeys <- CommitmentAsKey
  MaxLeaves = 5
INVARIANT ProofVerifies
CHECK_DEADLOCK FALSE
