---------------------------- MODULE BeaconLimits ----------------------------
(***************************************************************************)
(* The compiled in limits on the beacons of a request (config.h).          *)
(***************************************************************************)
EXTENDS Integers

CONSTANTS
    TOTAL_BEACONS,    \* room for beacons in a request
    MAX_AP_BEACONS    \* most APs a configuration may allow

ASSUME LimitAssumption ==
    /\ TOTAL_BEACONS \in Nat /\ MAX_AP_BEACONS \in Nat
    /\ MAX_AP_BEACONS <= TOTAL_BEACONS
=============================================================================
