CONSTANTS
  Handlers = {"r1", "r2"}
  Keys = {"k1", "k2"}
  Tokens <- MCTokens
  SharedSecret = TRUE
  Jwks = TRUE
  AuthRequired = FALSE
  TTL = 1
  NoToken = NoToken
  NoKid = NoKid
SPECIFICATION KeysSpec
INVARIANTS AnswersForCause
PROPERTIES KeysAreCurrent VerificationsEnd
CHECK_DEADLOCK FALSE
