CONSTANTS
  ann = ann  bob = bob  boss = boss  h1 = h1  h2 = h2
  u1 = u1  u2 = u2  u3 = u3  u4 = u4  u5 = u5
  Slots = {h1, h2}
  People = {ann, boss}
  Updates = {u1, u2, u3}
  Bootstrap = {boss}
  Promotable = {ann}
  Beginnings <- Registering
  Limit = 1
  Window = 1
  MaxClock = 0
  MaxAttempts = 2
  MaxTimeouts = 0
  MaxFaults = 0
SPECIFICATION FairSpec
INVARIANTS
  BootstrapAdminStays
PROPERTIES
  RoleNeverFallsBack
  OnlyStaleChoiceDemotes
  UpdatesEnd
CHECK_DEADLOCK FALSE
