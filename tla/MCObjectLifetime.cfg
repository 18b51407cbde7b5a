CONSTANTS
  Object = {o1, o2}
  Null = Null
  Handle = {h1, h2}
  NoHandle = NoHandle
  MaxHolders = 2
SPECIFICATION FairSpec
INVARIANTS NoVainDestructor ReachableObjectAlive
PROPERTIES ImplementsOwnership GarbageIsDestroyed
CHECK_DEADLOCK FALSE
