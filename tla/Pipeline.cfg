SPECIFICATION Spec
CONSTANTS
  c1 = c1
  c2 = c2
  Shared = Shared
  Nil = Nil
  Conns = {c1, c2}
  SearchOf <- TwoSearches
  Announced <- Unnumbereds
  MaxSent = 2
  Saving = FALSE
INVARIANTS
  SearchesSound
  DoneMeansBuilt
PROPERTIES
  ServedInTheEnd
  ImplementsDelivery
CHECK_DEADLOCK FALSE
