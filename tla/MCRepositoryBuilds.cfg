CONSTANTS
  Workers = {w1, w2}
  Names = {n1}
  Branches = {main, dev}
  Main = main
  Sources = {src}
  Local = Local
  Nothing = Nothing
  Environments <- MCEnvironments
  NoFile = NoFile
  Empty = Empty
  Garbled = Garbled
SPECIFICATION FairSpec
INVARIANTS
  HostedAsAnswered
  ListingIsCurrent
PROPERTIES
  CreateAnswered
  ViewAnswered
