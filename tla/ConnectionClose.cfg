\* A client that need not read beside one of the program's own tools; the
\* server closes.
CONSTANTS
  Conns = {c1, c2}
  Tools = {c2}
  HelloId = "x"
  ToolId = "y"
  OtherIds = {"y"}
  OtherKinds = {"hello", "call"}
  MayLeave = FALSE
  MayStop = TRUE
  None = None
  MaxClients = 2
  MaxInFlight = 1
  MailboxSize = 2
  SocketSize = 1
  MaxFrames = 2
  MaxEvents = 1
SPECIFICATION FairSpec
INVARIANTS ClientsAccounted ReplyMatches
PROPERTIES NotHeldUp Drains
CHECK_DEADLOCK FALSE
