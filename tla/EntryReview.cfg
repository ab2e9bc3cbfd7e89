SPECIFICATION Spec
CONSTANTS
  None = None
  Entries = {e1}
  Requests = {r1, r2, r3}
  Original <- MCOriginal
  Bodies <- MCBodies
SYMMETRY MCSymmetry
CHECK_DEADLOCK FALSE
INVARIANTS WholeEntries OkMeansDone
PROPERTY VerdictIsFinal
