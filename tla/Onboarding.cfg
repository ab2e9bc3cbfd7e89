SPECIFICATION Spec
CONSTANTS
  None = None
  k1 = k1
  k2 = k2
  b1 = b1
  Keys = {k1, k2}
  Brns = {b1}
  Requests = {r1, r2, r3}
  Faulty = {r1, r2, r3}
  Inputs <- MCInputs
SYMMETRY MCSymmetry
CHECK_DEADLOCK FALSE
INVARIANTS SameKeySameTenant CreatedMeansOwner OneTenantPerBrn
