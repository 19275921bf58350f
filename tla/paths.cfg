SPECIFICATION Spec
CONSTANTS
  Parts = 2
  W = 4
  Card <- Tree
  Inputs <- Given
  Pairs <- Lists
  MaxOps = 4
INVARIANTS TreeSound CommandsExact
 
