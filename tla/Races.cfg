CONSTANTS
  l1 = l1  l2 = l2  t1 = t1  t2 = t2
  shipper = shipper  carrier = carrier  other = other  admin = admin
  s1 = s1  s2 = s2  s3 = s3
  Loads = {l1}
  Trucks = {t1, t2}
  Users = {shipper, carrier, admin}
  Admins = {admin}
  ShipperOf <- Shippers
  CarrierOf <- SameCarrier
  Score <- OneFit
  TypeFits <- AllPairs
  Backhaul <- NoPairs
  Free = {t1, t2}
  OnTrip = {}
  SessionIds = {s1, s2}
  MaxPushes = 3
  MaxCrashes = 1
  SendOutcomes = {"SENT", "FAILED"}
  Workload = {"create_load", "create_truck", "register_interest", "reminders", "cancel_load"}
SYMMETRY SessionSymmetry
SPECIFICATION Spec
INVARIANTS
  NoDuplicatePush
  RemindedOnce
CHECK_DEADLOCK FALSE
