SPECIFICATION Spec
CONSTANTS
  Pieces <- MCPieces
  MaxPieces = 3
INVARIANTS PreviewHonest DeviceChosen LocationFaithful
CHECK_DEADLOCK FALSE
