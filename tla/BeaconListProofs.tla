-------------------------- MODULE BeaconListProofs --------------------------
(***************************************************************************)
(* What BeaconList bounds for all limits, and for limits that fit.          *)
(***************************************************************************)
EXTENDS BeaconList, TLAPS

\* What a pair of limits in force guarantees.
LEMMA LimitsBounds ==
    ASSUME NEW t, NEW m, <<t, m>> \in Limits
    PROVE  t \in Nat /\ t <= TOTAL_BEACONS /\ m \in Nat
BY LimitAssumption DEF Limits

\* The counts and the limits keep their types: the counts never go below zero
\* (NUM_CELLS is computed in an unsigned type).
THEOREM ListTypeCorrect == Spec => []TypeOK
<1>1. Init => TypeOK
    BY DEF Init, TypeOK
<1>2. TypeOK /\ [Next]_vars => TypeOK'
    <2>. SUFFICES ASSUME TypeOK, [Next]_vars
                  PROVE  TypeOK'
        OBVIOUS
    <2>1. CASE Clear
        BY <2>1 DEF TypeOK, Clear
    <2>2. CASE SetLimits
        BY <2>2 DEF TypeOK, SetLimits
    <2>3. CASE Grow
        BY <2>3 DEF TypeOK, Grow
    <2>4. CASE Trade
        BY <2>4 DEF TypeOK, Trade
    <2>5. CASE UNCHANGED vars
        BY <2>5 DEF TypeOK, vars
    <2>. QED
        BY <2>1, <2>2, <2>3, <2>4, <2>5 DEF Next
<1>. QED
    BY <1>1, <1>2, PTL DEF Spec

\* Whatever limits sky_set_option() and the server choose between two scans,
\* those that do not fit each other included, the sanity check stops a list
\* two beacons above the room.
THEOREM ListBounded == Spec => []Bounded
<1>1. Init => Bounded
    BY LimitAssumption DEF Init, Bounded
<1>2. TypeOK /\ Bounded /\ [Next]_vars => Bounded'
    <2>. SUFFICES ASSUME TypeOK, Bounded, [Next]_vars
                  PROVE  Bounded'
        OBVIOUS
    <2>0. /\ num_ap \in Nat /\ num_cells \in Nat
          /\ TOTAL_BEACONS \in Nat /\ MAX_AP_BEACONS \in Nat
        BY LimitAssumption DEF TypeOK
    <2>1. CASE Clear
        BY <2>0, <2>1 DEF Bounded, Clear
    <2>2. CASE SetLimits
        BY <2>2 DEF Bounded, SetLimits
    <2>3. CASE Grow
        BY <2>0, <2>3 DEF Bounded, Grow
    <2>4. CASE Trade
        \* The sum stays.
        <3>1. num_ap <= MAX_AP_BEACONS + 1 /\ num_ap + num_cells <= TOTAL_BEACONS + 2
            BY <2>4 DEF Trade, Bounded
        <3>2. CASE num_ap' = num_ap + 1 /\ num_cells' = num_cells - 1
            BY <2>0, <3>1, <3>2 DEF Bounded
        <3>3. CASE num_ap' = num_ap - 1 /\ num_cells' = num_cells + 1
            BY <2>0, <3>1, <3>3 DEF Bounded
        <3>. QED
            BY <2>4, <3>2, <3>3 DEF Trade
    <2>5. CASE UNCHANGED vars
        BY <2>5 DEF Bounded, vars
    <2>. QED
        BY <2>1, <2>2, <2>3, <2>4, <2>5 DEF Next
<1>. QED
    BY <1>1, <1>2, ListTypeCorrect, PTL DEF Spec

\* A step under limits that fit each other stays within the room, even if the
\* limits are below what the list holds already.
LEMMA RoomStep ==
    ASSUME TypeOK, Room, Fit, [Next]_vars
    PROVE  Room'
<1>0. /\ num_ap \in Nat /\ num_cells \in Nat
      /\ total_beacons \in Nat /\ total_beacons <= TOTAL_BEACONS
      /\ max_ap_beacons \in Nat /\ max_ap_beacons <= MAX_AP_BEACONS
      /\ max_ap_beacons <= total_beacons
      /\ TOTAL_BEACONS \in Nat /\ MAX_AP_BEACONS \in Nat
    BY LimitsBounds, LimitAssumption DEF TypeOK, Fit
<1>1. CASE Clear
    BY <1>0, <1>1 DEF Room, Clear
<1>2. CASE SetLimits
    BY <1>2 DEF Room, SetLimits
<1>3. CASE Grow
    \* Both kinds are within their limits, which add up to the total.
    BY <1>0, <1>3 DEF Room, Grow
<1>4. CASE Trade
    \* The sum stays, and an AP comes in only below the limit for APs.
    <2>1. num_ap' \in Nat /\ num_cells' \in Nat
        BY <1>4 DEF Trade
    <2>2. CASE num_ap' = num_ap + 1 /\ num_cells' = num_cells - 1
        <3>1. num_ap' <= max_ap_beacons
            BY <1>0, <1>4, <2>2 DEF Trade
        <3>. QED
            BY <1>0, <2>1, <2>2, <3>1 DEF Room
    <2>3. CASE num_ap' = num_ap - 1 /\ num_cells' = num_cells + 1
        BY <1>0, <2>1, <2>3 DEF Room
    <2>. QED
        BY <1>4, <2>2, <2>3 DEF Trade
<1>5. CASE UNCHANGED vars
    BY <1>5 DEF Room, vars
<1>. QED
    BY <1>1, <1>2, <1>3, <1>4, <1>5 DEF Next

\* The spare element of Sky_rctx_t.beacon is used up only under limits that do
\* not fit each other, whatever limits were in force before.
THEOREM ListRoomKept == Spec => RoomKept
<1>1. TypeOK /\ [Next]_vars => [Room /\ Fit => Room']_vars
    BY RoomStep
<1>. QED
    BY <1>1, ListTypeCorrect, PTL DEF Spec, RoomKept

\* The beacon array of Sky_rctx_t is never overrun in a session whose limits
\* always fit each other, however they change between two scans.
THEOREM ListRoom == Spec /\ []Fit => []Room
<1>1. Init => Room
    BY LimitAssumption DEF Init, Room
<1>2. TypeOK /\ Fit /\ Room /\ [Next]_vars => Room'
    BY RoomStep
<1>. QED
    BY <1>1, <1>2, ListTypeCorrect, PTL DEF Spec
=============================================================================
