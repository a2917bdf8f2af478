SPECIFICATION Spec
CONSTANTS
  Runs = {r1, r2}
  MaxVersion = 1
PROPERTIES
  UnusableOnlyIfDisturbed
  RefusedOnlyIfStaleOrMixed
SYMMETRY RunsSymmetry
