SPECIFICATION Spec
CONSTANTS
  c1 = c1
  c2 = c2
  Shared = Shared
  Nil = Nil
  Conns = {c1, c2}
  SearchOf <- OneSearch
  Announced <- OneId
  MaxSent = 2
  Saving = TRUE
INVARIANTS
  NothingMissing
CHECK_DEADLOCK FALSE
