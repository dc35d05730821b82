SPECIFICATION Spec
CONSTANTS
  None = None
  Configs <- ShrinkingConfigs
  Usernames = {"alice"}
  Hashes = {"h1"}
  Secrets = {"s1", "s2"}
  Methods = {"password"}
  Identities = {"none"}
  LongestTtl = 3
  MaxTokens = 3
  MaxTime = 3
INVARIANT CapacityHonoured
