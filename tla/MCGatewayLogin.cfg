CONSTANTS
  admin = admin
  Admin = Admin
  ann = ann
  mail1 = mail1
  mail2 = mail2
  Ids = {id1, id2}
  Names = {admin, Admin}
  Emails = {mail1, mail2}
  AdminName = admin
  AdminEmail = mail1
  Absent = Absent
  Workers = {w1, w2}
  Tokens = {t1}
  TTL = 0
  MaxTime = 1
  NoSession = NoSession
  Lower <- MCLower
  AutoApprove = FALSE
  LdapConfigured = TRUE
  LdapUser = LdapUser
SPECIFICATION Spec
SYMMETRY Symmetry
INVARIANTS
  OwnerGetsIn
  NobodyEntersUndecided
  ServedWhileAlive
PROPERTIES
  SessionsEndOnce
