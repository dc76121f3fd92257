SPECIFICATION FairSpec
CONSTANTS
  EOF = EOF
  NPages = 3
  IoBuf = 2
  SockBuf = 1
  Rates = {0, 1}
  Builds = {TRUE, FALSE}
  MaxWrites = 1
  MaxMigrations = 2
  MaxFailures = 1
INVARIANTS NoSplitBrain GuestSurvives Released
PROPERTIES HandsOver MigrationEnds
