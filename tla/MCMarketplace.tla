---------------------------- MODULE MCMarketplace ---------------------------
(* Instances of Marketplace for TLC. *)
EXTENDS Claims, TLC

CONSTANTS l1, l2, t1, t2, shipper, carrier, other, admin, s1, s2, s3

Shippers == [l \in Loads |-> shipper]
Carriers == [t \in Trucks |-> IF t = t2 THEN other ELSE carrier]
SameCarrier == [t \in Trucks |-> carrier]
AllFit   == [m \in Loads \X Trucks |-> 90]
NoneFit  == [m \in Loads \X Trucks |-> 0]
OneFit   == [m \in Loads \X Trucks |-> IF m = <<l1, t1>> THEN 90 ELSE 0]
AllPairs == Loads \X Trucks
NoPairs  == {}

SessionSymmetry == Permutations(SessionIds)
=============================================================================
