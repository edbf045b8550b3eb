CONSTANTS
  Users = {u1}
  MaxCalls = 3
  NoUser = NoUser
  MaxReconnectAttempts = 1
  MaxTimers = 1
SPECIFICATION Spec
INVARIANTS
  IInv
  RegisteredClientIsSound
  PassedOverIsRecovering
  DestroysWhatIsRegistered
