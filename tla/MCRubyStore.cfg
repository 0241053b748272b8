CONSTANTS
  t1 = t1
  t2 = t2
  h1 = h1
  h2 = h2
  Threads = {t1, t2}
  ProjectSlugs = {"gitorc-platform"}
  Platform = "gitorc-platform"
  Hooks = {h1, h2}
  Retries = 1
  MaxFaults = 2
SPECIFICATION SmallSpec
INVARIANTS
  StoreTypeOK
  AnsweredProjectsAreFound
PROPERTIES
  DeliveredAtLast
  BothComeUp
