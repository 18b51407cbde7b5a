CONSTANTS
  Ref = {r1}
  Item = {i1, i2}
  Tmp = Tmp
  Table = {t1}
  Key = {a, b}
  Literal = {b}
  Slot = {1, 2, 3, 4, 5, 6, 7, 8, 9}
  Free = Free
  Nil = Nil
  NoRef = NoRef
  RefNil = RefNil
  MaxFields = 2
SPECIFICATION Spec
PROPERTY AssignmentWrites
CHECK_DEADLOCK FALSE
