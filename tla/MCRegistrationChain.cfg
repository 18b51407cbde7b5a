CONSTANTS
  Obj = {v1, v2}
  Name = {n}
  Class = {A, B}
  MaxTables = 7
  MaxDepth = 5
  MaxMembers = 1
SPECIFICATION Spec
SYMMETRY ChainSymmetry
INVARIANTS StackBalanced ChainsOnTheirTables
PROPERTY ReopenedIsSame
CHECK_DEADLOCK FALSE
