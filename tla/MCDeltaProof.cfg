SPECIFICATION Spec
CONSTANTS
  p1 = p1
  p2 = p2
  p3 = p3
  Parties = {p1, p2, p3}
  Order = 31
  XCoordinate <- MCXCoordinate
  YIsOdd <- MCYIsOdd
  Secrets <- MCSecrets
  Excesses = {0, 5}
  Hashes = {0, 17}
  LastBytes = {0, 26, 27, 28, 29, 30, 31, 255}
INVARIANTS
  KeysAddUp
  ProofMeansBalanced
  OneEncoding
CHECK_DEADLOCK FALSE
