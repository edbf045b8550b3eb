\* Temporal properties, without symmetry.
CONSTANTS
  Users = {u1}
  NoUser = NoUser
  MaxReconnectAttempts = 1
  MaxTimers = 1
  MaxCalls = 2
SPECIFICATION FairSpec
PROPERTIES
  StartsAnswered
  ImplementsQueue
