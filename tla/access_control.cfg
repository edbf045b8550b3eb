\* Two requests of one browser at once.
SPECIFICATION Spec
CONSTANTS
  Users = {u1}
  Browsers = {b1}
  Requests = {q1, q2}
  MaxTokens = 2
  Called <- MCCalled
  None = None
INVARIANTS LoginIsNotLockedOut SessionsAreHeld SessionInv
