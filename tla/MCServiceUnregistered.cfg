CONSTANTS
  Replicas = {r1, r2}
  EnforceDirectory = TRUE
  AutoRegister = FALSE
SPECIFICATION FairSpec
PROPERTIES
  RegisteredServiceComesUp
