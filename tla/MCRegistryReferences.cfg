CONSTANTS
  Ref = {r1, r2}
  Item = {i1, i2}
  Tmp = Tmp
  Table = {t1, t2}
  Key = {a, b}
  Literal = {b}
  Slot = {1, 2, 3, 4, 5, 6, 7, 8, 9, 10}
  Free = Free
  Nil = Nil
  NoRef = NoRef
  RefNil = RefNil
  MaxFields = 2
SPECIFICATION Spec
SYMMETRY RefSymmetry
VIEW RefView
INVARIANTS RTypeOK OneOwner
PROPERTIES ImplementsValues ChainIsChild
CHECK_DEADLOCK FALSE
