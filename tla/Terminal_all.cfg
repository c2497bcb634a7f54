SPECIFICATION Spec
CONSTANTS
  NPlugins = 2
  MaxSessions = 3
  MaxMessages = 2
  MaxStarts = 2
  Sessions = {s1, s2}
  Users = {s1}
  MaxVersion = 2
  Responses <- SomeResponses
  Parts = 2
  MaxRetries = 2
  Names <- SomeNames
  Texts <- SomeTexts
  Programs = {p1, p2}
  MaxTokens = 3
SYMMETRY EitherProgram
INVARIANTS
  RuntimesClosed
  SessionFileOwned
  SyncRepairs
  SuccessTrue
  AnswerHonest
  SettingsByPrecedence
  CredentialsKept
CHECK_DEADLOCK FALSE
