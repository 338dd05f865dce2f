SPECIFICATION Spec
CONSTANTS
  Names = {admin, alice}
  NoName = NoName
  AdminName = admin
  Guessed = {alice}
  Clients = {c1, c2}
  Threshold = 3
  MaxAccounts = 3
  MaxFailures = 4
  MaxTokens = 2
  MaxChanges = 1
CONSTRAINT NotCrowded
SYMMETRY Interchangeable
INVARIANTS
  TypeOK
  CountFollowsTries
  LockComesAnyway
  NamesIdentify
PROPERTIES
  LockOutlivesRequests
  TokensForActive
