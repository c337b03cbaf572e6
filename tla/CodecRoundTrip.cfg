SPECIFICATION Spec
CONSTANTS
  Slots = {"r1", "r2"}
  Inputs <- MCInputs
  Length <- MCLength
  Quoted <- MCQuoted
  NoiseKeys = {"encrypted_content"}
  Inline = 4
  Subtree = 4
  RefSize = 1
  MaxPuts = 2
  Mantissa = 3
INVARIANTS LoadsNormalForm PrefetchIsExact
CHECK_DEADLOCK FALSE
