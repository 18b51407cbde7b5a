CONSTANTS
  CharHalf = 1
  ShortHalf = 2
  IntHalf = 8
  LongHalf = 8
  LongLongHalf = 16
  LuaHalf = 8
  Inputs <- MCInputs
  Scripts <- MCScripts
  Wanted <- MCWanted
  Conversions <- MCConversions
  Bases <- MCBases
  Capacity = 4
  Below = 2
SPECIFICATION Spec
INVARIANTS RoundTrip IntegersArrive CheckedConverts PushIsWhole GetReadsOnly
CHECK_DEADLOCK FALSE
