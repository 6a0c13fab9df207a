SPECIFICATION Spec
CONSTANTS
  Values = {v1, v2}
  Empty = Empty
  Part = Part
  Missing = Missing
  MaxRuns = 2
  v1 = v1
  v2 = v2
SYMMETRY ValueSymmetry
INVARIANT TokenSurvivesCrash
PROPERTY TokenFileAtomic
CHECK_DEADLOCK FALSE
