SPECIFICATION Spec
CONSTANTS
  MaxRuns = 3
  MaxFaults = 2
INVARIANT JournalCoversHost
INVARIANT FailedSetupUndone
INVARIANT InstalledIsComplete
INVARIANT HealthyIsGuarded
PROPERTY ResetAllOrNothing
PROPERTY ForeignSurvives
PROPERTY AcceptedRequestLasts
PROPERTY IssuedUrlSignsIn
PROPERTY EveryReaderAccepts
PROPERTY CredentialsSignIn
CHECK_DEADLOCK FALSE
