SPECIFICATION MCSpec
CONSTANTS
  Curves <- MCCurves
  Expansions <- MCExpansions
  LimbBits = 4
INVARIANTS
  EveryMessageHasAPoint
  MapIsSimplifiedSWU
  IdentityOnlyFromOpposites
  IsogenyMapsCurves
  CharactersFit
  C2IsRootOfMinusZCubed
CHECK_DEADLOCK FALSE
