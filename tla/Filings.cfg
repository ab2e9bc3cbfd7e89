SPECIFICATION Spec
CONSTANTS
  None = None
  Profiles <- MCProfiles
  Holidays <- MCAdHoc
  Generators = {g1, g2}
  StartMonths <- MCStart
  Horizon = 1
  DraftKinds = {"COMPREHENSIVE_INCOME"}
SYMMETRY MCSymmetry
INVARIANTS OnlyStatutoryFilings NoGap
PROPERTY RerunsAreHarmless
