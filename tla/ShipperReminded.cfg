CONSTANTS
  l1 = l1  l2 = l2  t1 = t1  t2 = t2
  shipper = shipper  carrier = carrier  other = other  admin = admin
  s1 = s1  s2 = s2  s3 = s3
  Loads = {l1}
  Trucks = {t1}
  Users = {shipper, carrier, other, admin}
  Admins = {admin}
  ShipperOf <- Shippers
  CarrierOf <- SameCarrier
  Score <- NoneFit
  TypeFits <- AllPairs
  Backhaul <- NoPairs
  Free = {t1}
  OnTrip = {}
  SessionIds = {s1}
  MaxPushes = 1
  MaxCrashes = 0
  SendOutcomes = {"SENT"}
  Workload = {"create_load", "create_truck", "reminders"}
SPECIFICATION Spec
INVARIANTS
  OnlyCarriersReminded
CHECK_DEADLOCK FALSE
