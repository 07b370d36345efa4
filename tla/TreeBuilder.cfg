SPECIFICATION Spec
CONSTANTS
  MaxNodes = 6
  MaxKids = 2
  Uids = {u1, u2, u3, u4, u5}
  NoUid = NoUid
  NoMsg = NoMsg
SYMMETRY Symmetry
INVARIANTS
  BuildsWhatIsSent
  IdMapSound
PROPERTIES
  ImplementsNodeTree
CHECK_DEADLOCK FALSE
