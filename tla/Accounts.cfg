SPECIFICATION Spec
CONSTANTS
  Users = {u1, u2}
  Invitations = {i1}
  Calls = {c1, c2, c3}
  Old = {o1, o2}
  None = None
  MaxTrust = 2
SYMMETRY Symmetry
CHECK_DEADLOCK FALSE
INVARIANTS
  UsersAreComplete
  EnrolmentIsKept
  OneLoginPerCode
  OneGenerationOfCodes
  TrustWithinLimit
  OneDrive
