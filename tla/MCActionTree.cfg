SPECIFICATION Spec
CONSTANTS
  EmptyLeaf = EmptyLeaf
  Resources = {r1, r2}
  NullifierKeys <- CommitmentAsKey
  MaxLeaves = 5
INVARIANTS
  RootIsPerfectRoot
  RootBindsTags
  SiblingsLeadToRoot
CHECK_DEADLOCK FALSE
