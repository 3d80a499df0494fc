\* Four blocks paused under the default limit of four hold a fifth back.
SPECIFICATION TaskFairSpec
CONSTANTS
  N = 5
  NoPort = NoPort
  outer = outer
  Ports <- MCPort
  Names <- MCNames
  Given <- MCGiven
  Plans <- MCPausePlans
PROPERTIES
  OnlyThatBlockWaits
CHECK_DEADLOCK FALSE
