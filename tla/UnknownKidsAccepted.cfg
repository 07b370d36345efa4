SPECIFICATION Spec
CONSTANTS
  MaxNodes = 5
  MaxKids = 2
  Uids = {u1, u2, u3, u4, u5}
  NoUid = NoUid
  NoMsg = NoMsg
SYMMETRY Symmetry
INVARIANTS
  UnknownKidsAccepted
CHECK_DEADLOCK FALSE
