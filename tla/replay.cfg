CONSTANTS
  MinPrefix = 1
  Short = 0
  Medium = 1
  Files <- MCFiles
  Above <- MCAbove
  Attempts <- MCAttempts
  Piece <- MCPiece
  SetNames <- MCSetNames
  Closer <- MCCloser
  Outputs <- MCOutputs
  Limit = 1
  MaxCalls = 3
  MaxKills = 1
SPECIFICATION Spec
INVARIANTS
  TasksAreWellCut
  
  RescuesAreEarned
