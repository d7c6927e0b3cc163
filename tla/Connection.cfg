\* One connection at a time, whose client may send anything.
CONSTANTS
  Conns = {c1, c2}
  Tools = {c2}
  HelloId = "x"
  ToolId = "y"
  OtherIds = {"x", "y"}
  OtherKinds = {"overlong", "junk", "hello", "call", "other"}
  MayLeave = TRUE
  MayStop = FALSE
  None = None
  MaxClients = 1
  MaxInFlight = 2
  MailboxSize = 1
  SocketSize = 1
  MaxFrames = 4
  MaxEvents = 0
SPECIFICATION Spec
INVARIANTS SlotsAccounted Unambiguous
CHECK_DEADLOCK FALSE
