SPECIFICATION Spec
CONSTANTS
  vat = vat
  corp = corp
  ann = ann
  bob = bob
  eve = eve
  c1 = c1
  c2 = c2
  c3 = c3
  c4 = c4
  Laws = {vat, corp}
  Registry <- MCRegistry
  MaxRevision = 2
  Units <- MCUnits
  Runs = {x1, x2, x3}
  None = None
  Rules = {k1}
  Admins = {ann, bob, eve}
  Unknown = {eve}
  Calls = {c1, c2, c3, c4}
  By <- MCBy
CONSTRAINT Stage
SYMMETRY MCSymmetry
CHECK_DEADLOCK FALSE
INVARIANTS RowsHaveObjects SettledIsCurrent GapIsSeen AnsweredIsRecorded
