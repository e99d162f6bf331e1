CONSTANTS
  Digit = 3
  Nibble = 2
  Sizes = {0, 5, 9}
  Attempts = 2
  MaxReads = 2
SPECIFICATION Spec
CHECK_DEADLOCK FALSE
INVARIANTS
  DeliversWhatWasAsked
  CommandsOnlyIdleDrive
PROPERTIES
  ReadsReturn
