SPECIFICATION Spec
CONSTANTS
  Requests = {r1, r2}
  Rate <- MCRate
  Parts = 4
  Accounts = {"1402", "1403"}
  OtherCurrency = {"1403"}
  Bookings <- MCBookings
  Back = 1
  Window = 1
  MaxDay = 3
  MaxBookings = 2
  None = None
CONSTRAINT Stage
SYMMETRY MCSymmetry
CHECK_DEADLOCK FALSE
INVARIANTS AnswersTheNewest NoHole NothingToPost RefusedForCause
