SPECIFICATION Spec
CONSTANTS
  Tools = {"search_tax_law"}
  Misnamed = {"other"}
  MaxIterations = 3
  MaxUses = 2
  MaxBeats = 1
CHECK_DEADLOCK FALSE
INVARIANTS EndsOnce CallsAnswered CallsTold
PROPERTY Ends
