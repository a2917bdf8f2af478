SPECIFICATION Spec
CONSTANTS
  logicA = logicA
  logicB = logicB
  label = label
  value = value
  G = G
  key = key
  otherKey = otherKey
  seed1 = seed1
  seed2 = seed2
  seed3 = seed3
  hiding = hiding
  data = data
  root = root
  sibling = sibling
  wrongProof = wrongProof
  EmptyLeaf = EmptyLeaf
  Kinds <- MCKinds
  Generator = G
  Order = 11
  LogicVmCommit = LogicVmCommit
  ZeroRoot = ZeroRoot
  NotOnCurve = NotOnCurve
  IndexModulus = 4
  ConsumedWitness <- MCConsumedWitness
  CreatedWitness <- MCCreatedWitness
  KindTable <- MCKindTable
  ActionRoot = {root}
  Witnesses <- MCWitnesses
  NoDigest = NoDigest
INVARIANTS
  TypeOK
  CreatedCommitmentsDistinct
  LogicProofsNotReused
PROPERTY ImplementsContract
CHECK_DEADLOCK FALSE
