\* Two users, four calls: two waiters on one promise, and one more that comes
\* while both of them run. Without symmetry, for the liveness property.
CONSTANTS
  Users = {u1, u2}
  Calls = {c1, c2, c3, c4}
  NoUser = NoUser
  NoCall = NoCall
SPECIFICATION FairSpec
INVARIANTS
  WaitersAwaitTheEntry
  BeginsInArrivalOrder
  SequentialUnlessShared
  SelfAwaitNeverResolves
  LoneResetAwaitsItself
  IInv
PROPERTY
  CallsAnsweredUnlessSelfAwaited
