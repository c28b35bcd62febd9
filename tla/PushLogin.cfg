SPECIFICATION FairSpec
CONSTANTS
  Challenges = {h1, h2}
  Phones = {p1}
  Answers = {a1}
  Resends = {r1, r2}
  None = None
  Attempts = 2
  Completes = 2
CHECK_DEADLOCK FALSE
INVARIANTS
  TypeOK
  OneSignInPerApproval
  SentBackForAReason
  DeniedStaysDenied
PROPERTY WaitingEnds
