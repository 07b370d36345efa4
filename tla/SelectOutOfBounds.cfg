SPECIFICATION Spec
CONSTANTS
  MaxNodes = 4
  MaxUniform = 5
  MaxKids = 2
  LabelWidth = 90
  LanternSizes = {64}
  MaxMarks = 0
  MaxSolved = 0
  NoLabel = 0
  LabelOf <- MCLabelOf
  Mins = {2, 3}
  MaxChanges = 0
  MaxSearched = 1
  Viewports = {8}
  MaxZoom = 0
  Limits = {1}
  MaxSteps = 2
INVARIANTS
  SelectMayBeOutOfBounds
CHECK_DEADLOCK FALSE
