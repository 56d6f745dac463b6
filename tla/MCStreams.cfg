SPECIFICATION AllSpec
CONSTANTS
  Items = 2
  MaxFrames = 2
  MaxParts = 2
  MaxBuffer = 2
  Request = {q1, q2}
  PageSize = 1
  MaxPages = 2
  MaxId = 3
  MaxErase = 1
  Person = {p1, p2}
  Role = {"collaborator"}
  Invite = {"invite"}
INVARIANTS StreamsTypeOK
PROPERTIES BridgeHolds StoreHolds BackByInvitationOnly
SYMMETRY Sym
CHECK_DEADLOCK FALSE
