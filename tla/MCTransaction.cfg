SPECIFICATION Spec
CONSTANTS
  logicA = logicA
  logicB = logicB
  label = label
  value = value
  G = G
  key = key
  otherKey = otherKey
  seed1 = seed1
  seed2 = seed2
  seed3 = seed3
  hiding = hiding
  data = data
  otherRoot = otherRoot
  otherData = otherData
  sibling = sibling
  wrongProof = wrongProof
  EmptyLeaf = EmptyLeaf
  Kinds <- MCKinds
  Generator = G
  Order = 11
  LogicVmCommit = LogicVmCommit
  ZeroRoot = ZeroRoot
  NotOnCurve = NotOnCurve
  IndexModulus = 2
  Instances <- MCInstances
  VerifierInputs <- MCVerifierInputs
  Transactions <- MCTransactions
INVARIANTS
  TypeOK
  NoDoubleSpend
  NoDoubleCreation
  NoCommitmentDuplication
  Balanced
  LogicsApprovedTheAction
  DeltaProofCoversTags
  DeltaProofNotMalleable
PROPERTY ImplementsContract
CHECK_DEADLOCK FALSE
