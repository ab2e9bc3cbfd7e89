SPECIFICATION FairSpec
CONSTANTS
  None = None
  Accounts = {krw, krw2, fx}
  Foreign = {fx}
  Runs = {r1}
  Faults = {"rollback", "lostAck", "kill"}
CHECK_DEADLOCK FALSE
INVARIANTS CountsMatchOutcomes FlagMeansWritten DoneMeansCompleted
PROPERTY StreamEnds
