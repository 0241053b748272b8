CONSTANTS
  Replicas = {r1, r2}
  EnforceDirectory = TRUE
  AutoRegister = TRUE
  Messages = {m1}
  Enabled = {"slack", "discord"}
  maxRetries = 3
SPECIFICATION PlatformSpec
INVARIANTS
  TypeOK
  ServingIsEnrolled
  LostForCause
  PostedTwiceInDoubt
PROPERTIES
  StopsWhenTold
  RegisteredServiceComesUp
  SendingEnds
CHECK_DEADLOCK FALSE
