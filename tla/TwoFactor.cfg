SPECIFICATION Spec
CONSTANTS
  Challenges = {h1, h2}
  Calls = {a1, a2, a3, a4}
  None = None
  MaxFailures = 2
SYMMETRY Symmetry
CHECK_DEADLOCK FALSE
INVARIANTS
  LoginNeedsProof
  TriesBounded
PROPERTIES
  ImplementsLedger
