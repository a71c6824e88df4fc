CONSTANTS
  l1 = l1  l2 = l2  t1 = t1  t2 = t2
  shipper = shipper  carrier = carrier  other = other  admin = admin
  s1 = s1  s2 = s2  s3 = s3
  Loads = {l1, l2}
  Trucks = {t1, t2}
  Users = {shipper, carrier}
  Admins = {}
  ShipperOf <- Shippers
  CarrierOf <- SameCarrier
  Score <- OneFit
  TypeFits <- AllPairs
  Backhaul <- AllPairs
  Free = {t1}
  OnTrip = {t2}
  SessionIds = {s1, s2}
  MaxPushes = 1
  MaxCrashes = 0
  SendOutcomes = {"SENT"}
  Workload = {"create_load", "create_truck", "register_interest", "proactive"}
SPECIFICATION FairSpec
PROPERTIES
  RequestsEnd
  NewLoadsAreSettled
CHECK_DEADLOCK FALSE
