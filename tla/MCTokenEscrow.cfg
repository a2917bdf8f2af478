SPECIFICATION Spec
CONSTANTS
  logic = logic
  f = f
  otherF = otherF
  t1 = t1
  t2 = t2
  alice = alice
  bob = bob
  keyA = keyA
  keyB = keyB
  nk = nk
  hiding = hiding
  otherHiding = otherHiding
  seed = seed
  p1 = p1
  p2 = p2
  d = d
  EmptyLeaf = EmptyLeaf
  Kinds = {}
  Generator = G
  Order = 11
  LogicVmCommit = LogicVmCommit
  ZeroRoot = ZeroRoot
  IndexModulus = 4
  None = None
  Addresses <- MCAddresses
  AuthorityKeys <- MCKeys
  Forwarder <- MCForwarder
  Tokens <- MCTokens
  Accounts <- MCAccounts
  Deposits <- MCDeposits
  HolderKey = nk
  Proposals <- MCProposals
  MaxResources = 4
  MaxIntents = 3
INVARIANTS
  Backed
  CreatedIsSpendable
PROPERTIES
  SpendsAuthorized
  PaidAsCommitted
CHECK_DEADLOCK FALSE
