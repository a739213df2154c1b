SPECIFICATION Spec
CONSTANTS
  Faults = {"F-002", "F-016"}
  MaxTrouble = 0
INVARIANT
  AddressFaultTakesEffect
