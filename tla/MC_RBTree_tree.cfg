SPECIFICATION Spec
CONSTANTS
  Keys <- MCKeys
INVARIANT RedBlack
INVARIANT QueriesRight
PROPERTY ActsAsSet
PROPERTY RepairsClimb
