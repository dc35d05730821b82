SPECIFICATION Spec
CONSTANTS
  None = None
  Configs <- ChangingConfigs
  Usernames = {"alice", "bob"}
  Hashes = {"h1"}
  Secrets = {"s1", "s2"}
  Methods = {"external"}
  Identities = {"none", "full"}
  LongestTtl = 3
  MaxTokens = 3
  MaxTime = 4
INVARIANT TypeOK
INVARIANT DocumentLoadable
INVARIANT MemoryMatchesDocument
INVARIANT SessionsUnderCurrentSecret
INVARIANT WithinLargestCapacity
INVARIANT OnlyTheCallerSurvives
PROPERTY RevocationIsForever
PROPERTY AdministratorNamedOnce
PROPERTY RestartKeepsLiveSessions
