CONSTANTS
  Object = {o1, o2}
  Null = Null
  Handle = {h1, h2}
  NoHandle = NoHandle
  MaxHolders = 1
SPECIFICATION Spec
INVARIANT HookSeesObject
CHECK_DEADLOCK FALSE
