SPECIFICATION Spec
CONSTANTS
  logicA = logicA
  logicB = logicB
  label = label
  value = value
  G = G
  key = key
  otherKey = otherKey
  seed1 = seed1
  seed2 = seed2
  seed3 = seed3
  hiding = hiding
  data = data
  sibling = sibling
  wrongProof = wrongProof
  EmptyLeaf = EmptyLeaf
  Kinds <- MCKinds
  Generator = G
  Order = 11
  LogicVmCommit = LogicVmCommit
  ZeroRoot = ZeroRoot
  NotOnCurve = NotOnCurve
  IndexModulus = 4
  Workers = {p1, p2}
  Submissions <- MCSubmissions
  MaxApplied = 3
INVARIANTS
  ConsumedOnce
  CommitmentsUnique
  AppliedOnce
  ConsumedWereCreated
  Conserved
PROPERTIES
  TurnedDownForCause
  ImplementsIdeal
SYMMETRY WorkersSymmetry
CHECK_DEADLOCK FALSE
