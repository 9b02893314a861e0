SPECIFICATION Spec
CONSTANTS
  Lines <- MCLines
  Payloads <- MCPayloads
  Parse <- MCParse
  Said <- MCSaid
  Names <- MCNames
  ChannelOf <- MCChannelOf
  NoChannel = ""
  MaxPayloads = 1
  MaxCommands = 1
  LowerOf <- MCLowerOf
INVARIANT
  RunsUntilClosed
CHECK_DEADLOCK FALSE
