SPECIFICATION Spec
CONSTANTS
  MaxNodes = 5
  MaxUniform = 10
  MaxKids = 3
  LabelWidth = 90
  LanternSizes = {64}
  MaxMarks = 1
  MaxSolved = 2
  NoLabel = 0
  LabelOf <- MCLabelOf
  Mins = {2, 3}
  MaxChanges = 2
  MaxSearched = 7
  Viewports = {4, 20}
  MaxZoom = 1
  Limits = {1, 2}
  MaxSteps = 2
INVARIANTS
  LayoutExact
  PatternsExact
  HistogramExact
  SelectionExact
  PixelsExact
  IcicleExact
  ThrottleCatchesUp
PROPERTIES
  RestHidden
  DrawsOutsideRarely
CHECK_DEADLOCK FALSE
