SPECIFICATION Spec
CONSTANTS
  MaxGeneration = 4
  MaxEpoch = 3
  MaxLogins = 2
  MaxRestarts = 2
INVARIANT
  TypeOK
  LogoutHolds
  NewestDurableWins
  DurableIsLoadable
PROPERTY LaterLoginStays
CHECK_DEADLOCK FALSE
