SPECIFICATION Spec
CONSTANTS
  Executions = {"A", "B"}
  Mergers = {"m1", "m2"}
  LeftOf <- MCLeftOf
  RightOf <- MCRightOf
  Reported = {"BRANCH", "FAILED"}
  MaxNodes = 6
  MaxKids = 2
  Watched = {"m1"}
  WithNogoods = {"B"}
  Contributing <- MCContributing
INVARIANTS
  MergedFaithful
  MergeCounted
  LocationsSound
  PentagonsStayVisible
  CreditWhereDue
PROPERTIES
  MergesEnd
CHECK_DEADLOCK FALSE
