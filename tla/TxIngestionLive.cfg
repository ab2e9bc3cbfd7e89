SPECIFICATION FairSpec
CONSTANTS
  krw = krw
  krw2 = krw2
  fx = fx
  k1 = k1
  k2 = k2
  x1 = x1
  f1 = f1
  s1 = s1
  w1 = w1
  w2 = w2
  None = None
  Accounts = {krw}
  Foreign = {}
  Keys = {k1, k2}
  Rows <- MCKrwRows
  FetchRuns = {f1}
  SyncRuns = {s1}
  Workers = {w1, w2}
  Faulty = {w1}
  SendBatch = 1
  BatchSize = 2
  MaxReceive = 2
  MaxDuplicates = 1
CHECK_DEADLOCK FALSE
INVARIANT NoStrandedRow
PROPERTY EveryRowSettled
