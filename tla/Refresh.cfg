SPECIFICATION FairSpec
CONSTANTS
  Tabs = {t1, t2}
  Requests = {q1, q2, q3}
  Refreshes = {f1, f2}
  Login = Login
  None = None
CHECK_DEADLOCK FALSE
INVARIANTS
  OneRefreshPerTab
  SessionNotLost
  LogoutEnds
  NeverRefused
  OneActiveToken
PROPERTIES
  QueuedRequestsEnd
