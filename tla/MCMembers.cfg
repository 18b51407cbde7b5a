CONSTANTS
  NoClass = NoClass
  Class <- MCClass
  Subobject <- MCSubobject
  BaseLists <- MCBaseLists
  OptionSets <- MCOptions
  Name = {"f", "__len"}
  MetaName = {"__len"}
  MaxOps = 3
SPECIFICATION MCSpec
INVARIANTS FastIsFull NearestMemberWins SettersFirst
PROPERTIES ProtectedMethods OverrideKeepsSuper
CHECK_DEADLOCK FALSE
