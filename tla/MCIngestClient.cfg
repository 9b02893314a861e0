SPECIFICATION FairSpec
CONSTANTS
  Lines <- MCLines
  Payloads <- MCPayloads
  Parse <- MCParse
  Said <- MCSaid
  Names <- MCNames
  ChannelOf <- MCChannelOf
  NoChannel = ""
  MaxPayloads = 2
  MaxCommands = 3
  LowerOf <- MCLowerOf
INVARIANTS
  ChannelsAgree
  ChatAsSaid
  PingsAccounted
  ParsedAsSaid
PROPERTIES
  PingAnswered
  LoopEnds
CHECK_DEADLOCK FALSE
