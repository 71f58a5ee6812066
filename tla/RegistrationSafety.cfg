SPECIFICATION Spec
CONSTANTS
  Emails = {ext}
  External = {ext}
  NoEmail = none
  NoAddress = none
  MaxAccounts = 3
  MaxCodes = 3
  Handlers = {h1, h2}
  Moderators = {m1}
  TTL = 1
  Cooldown = 1
  MaxAttempts = 1
  StaleAge = 0
  MaxTime = 2
SYMMETRY Symmetry
INVARIANTS
  TypeOK
  GuessesBounded
  CooldownRemembered
  PendingCodesBounded
  AccountsPerEmailBounded
  ApprovedIsListed
  ExternalWasCleared
PROPERTY ConfirmedUsersStay
