SPECIFICATION FairSpec
CONSTANTS
  Programs = {"chat-cli", "auth-cli"}
  AuthCli = "auth-cli"
  MaxLogins = 2
  MaxRequests = 3
  Kinds = {"code", "denied"}
INVARIANTS
  TypeOK
  PageBeforeReturn
PROPERTIES
  LoginsAsPromised
  RequestAnswered
  LoginReturns
CHECK_DEADLOCK FALSE
