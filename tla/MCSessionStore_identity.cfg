SPECIFICATION Spec
CONSTANTS
  None = None
  Configs <- SteadyConfigs
  Usernames = {"alice"}
  Hashes = {"h1"}
  Secrets = {"s1", "s2"}
  Methods = {"external"}
  Identities = {"none", "blank-field"}
  LongestTtl = 3
  MaxTokens = 1
  MaxTime = 1
INVARIANT DocumentLoadable
