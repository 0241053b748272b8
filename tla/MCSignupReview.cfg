CONSTANTS
  Ids = {id1, id2}
  Names = {ann, admin}
  Emails = {mail2}
  AdminName = admin
  AdminEmail = mail2
  Absent = Absent
  Workers = {w1, w2}
  LocalEnabled = TRUE
  AutoApprove = FALSE
SPECIFICATION FairSpec
INVARIANTS
  RequestHasItsAccount
  SettledRowsAgree
  RepliesAreTrue
PROPERTIES
  ImplementsLedger
  ImplementsDirectory
  EveryRequestAnswered
