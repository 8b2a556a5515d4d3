----------------------------- MODULE MCRdmDiscovery -----------------------------
(***************************************************************************)
(* Instances of RdmDiscovery: UIDs of four bits, and every placement of    *)
(* three devices among them.                                               *)
(***************************************************************************)
EXTENDS RdmDiscovery, FiniteSets

Ascending(u) == \A d, e \in Devices : d < e => u[d] < u[e]

AllPlacements == {u \in [Devices -> 1 .. Broadcast - 1] : Ascending(u)}

\* No two devices have neighbouring UIDs.
SpreadPlacements ==
  {u \in AllPlacements : \A d, e \in Devices : u[d] # u[e] + 1}

\* Such placements with a device of UID 3 that stay so when UID 9 becomes 12.
SpreadWith3 ==
  {u \in SpreadPlacements :
     /\ \E d \in Devices : u[d] = 3
     /\ \A d \in Devices : u[d] \notin 11 .. 13}

TwoNeighbours == {[d \in Devices |-> d + 4]}

OnePlacement == {[d \in Devices |-> 4 * d]}

WholeRange == {<<1, Broadcast - 1, 60>>}
ThreeRanges == {<<1, Broadcast - 1, 60>>, <<3, 9, 60>>, <<5, 5, 60>>}
LongSearch == {<<1, Broadcast - 1, 1000>>}
ShortSearch == {<<1, Broadcast - 1, 2>>}
NoRange == {}

OnlyBroadcast == {Broadcast}
BroadcastAnd3 == {Broadcast, 3}
Only3 == {3}
Only4 == {4}
Nobody == {}

\* An address of device 3, and a new UID for the device with UID 9, if any.
SetAddressOrUid == {<<3, Any>>, <<9, 12>>}

DemoDevices == <<10, 5>>
=============================================================================
