CONSTANTS
  Type = {"number", "table", "object"}
  Classes = {"object"}
  Loose = {"table", "object"}
  Functions <- MCFunctions
  Sets <- MCSets
  Arguments <- MCArguments
  SafeCFunctions = FALSE
  MaxErrors = 2
  MaxFrames = 6
  MaxKept = 0
SPECIFICATION FairSpec
INVARIANTS StackRestored ResultsOnly 
PROPERTIES NoErrorVanishes FlightsLand
CHECK_DEADLOCK FALSE
