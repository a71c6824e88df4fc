CONSTANTS
  ann = ann  bob = bob  boss = boss  h1 = h1  h2 = h2
  u1 = u1  u2 = u2  u3 = u3  u4 = u4  u5 = u5
  Slots = {h1, h2}
  People = {ann}
  Updates = {u1, u2, u3, u4}
  Bootstrap = {}
  Promotable = {}
  Beginnings <- Conversing
  Limit = 1
  Window = 2
  MaxClock = 1
  MaxAttempts = 2
  MaxTimeouts = 1
  MaxFaults = 1
SYMMETRY BotSymmetry
SPECIFICATION Spec
INVARIANTS
  BotTypeOK
  OneSavePerSummary
  WithinLimit
  CopiesAccountedFor
CHECK_DEADLOCK FALSE
