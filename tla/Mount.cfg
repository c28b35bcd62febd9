SPECIFICATION FairSpec
CONSTANTS
  Credentials = {c1, c2, c3}
  Revokers = {v1, v2}
  NoCredential = NoCredential
CHECK_DEADLOCK FALSE
INVARIANTS
  RevokedHasNoTarget
  ActiveOwnsTarget
PROPERTIES
  TargetOnlyForTheWinner
  OnlyItsRevokeTakesTheTarget
  WaitingIssuesEnd
