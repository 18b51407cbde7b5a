CONSTANTS
  Handle = {h1, h2, h3}
  Value = {v1, v2}
  Error = {e1}
  Type <- MCType
SPECIFICATION Spec
INVARIANTS HoldsWhatItSays SafeWithoutThrow Balanced
PROPERTY ImplementsOutcomes
SYMMETRY Interchangeable
CHECK_DEADLOCK FALSE
