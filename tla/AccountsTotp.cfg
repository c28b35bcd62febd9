SPECIFICATION Spec
CONSTANTS
  Users = {u1}
  Invitations = {i1}
  Calls = {c1}
  Old = {o1}
  None = None
  MaxTrust = 2
CHECK_DEADLOCK FALSE
INVARIANT OwnTotpCanBeRemoved
