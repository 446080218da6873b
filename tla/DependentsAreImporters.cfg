SPECIFICATION IndexSpec
CONSTANTS
  Files = {"f", "g"}
  MaxEdits = 1
INVARIANT DependentsAreImporters
CHECK_DEADLOCK FALSE
