SPECIFICATION Spec
CONSTANTS
  RPs = {rp1, rp2}
  NoRP = NoRP
  MaxCredentials = 3
INVARIANTS
  KnownStillSigns
  LoginFindsAllowed
  DiscoverableKnown
  DeletedStaysDeleted
