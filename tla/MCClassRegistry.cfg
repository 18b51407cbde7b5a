CONSTANTS
  NoClass = NoClass
  Class <- MCClass
  Subobject <- MCSubobject
  BaseLists <- MCBaseLists
  OptionSets <- MCOptionSets
SPECIFICATION Spec
INVARIANTS TypeOK PointerSound ConstRespected ListedOnceWithCast
PROPERTIES ImplementsHierarchy
CHECK_DEADLOCK FALSE
