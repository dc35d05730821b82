SPECIFICATION FlowSpec
CONSTANTS
  None = None
  Configs <- FlowConfigs
  Usernames = {"alice"}
  Hashes = {h1, h2}
  Secrets = {"s1"}
  Methods = {"password", "login-token", "external"}
  Identities = {"none", "full"}
  LongestTtl = 2
  MaxTokens = 2
  MaxTime = 1
  Keys = {k1}
  Window = 1
  MaxAttempts = 1
  Block = 1
  MaxKeys = 1
  Second = 1
  Requests = {r1, r2}
SYMMETRY FlowSymmetry
PROPERTY AdministratorChangedByItsSession
PROPERTY ChangeSignsOthersOut
CHECK_DEADLOCK FALSE
