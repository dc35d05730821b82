SPECIFICATION FlowSpec
CONSTANTS
  None = None
  Configs <- OneConfig
  Usernames = {"alice"}
  Hashes = {h1, h2}
  Secrets = {"s1"}
  Methods = {"password", "login-token", "external"}
  Identities = {"none"}
  LongestTtl = 2
  MaxTokens = 2
  MaxTime = 0
  Keys = {k1}
  Window = 1
  MaxAttempts = 1
  Block = 1
  MaxKeys = 1
  Second = 1
  Requests = {r1, r2}
INVARIANT NoSessionOfReplacedPassword
CHECK_DEADLOCK FALSE
