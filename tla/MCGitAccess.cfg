CONSTANTS
  admin = admin
  Admin = Admin
  bob = bob
  key1 = key1
  key2 = key2
  app = app
  slashApp = slashApp
  appSlug = appSlug
  otherSlug = otherSlug
  Clients = {c1}
  Users = {admin, Admin, bob}
  Keys = {key1, key2}
  Paths = {app, slashApp}
  Slugs = {appSlug, otherSlug}
  Secrets = {s1, s2}
  Fold <- MCFold
  Owner <- MCOwner
  Stripped <- MCStripped
  SlugOf <- MCSlugOf
  Lifetime = 1
  MaxTime = 1
  Nothing = Nothing
SPECIFICATION FairSpec
INVARIANTS
  RunsAsAuthorised
PROPERTIES
  SessionDecided
