---------------------------- MODULE BeaconList ----------------------------
(***************************************************************************)
(* What the list of beacons of a request promises, whichever beacons it    *)
(* holds: how many APs and cells there may be.  A beacon is added to a     *)
(* list within its limits, or takes the place of another one, of the kind  *)
(* that is over its limit.  Limits may change between two additions, to    *)
(* any pair the code accepts; not all of them fit each other.              *)
(***************************************************************************)
EXTENDS BeaconLimits

VARIABLES
    num_ap, num_cells,           \* beacons held
    total_beacons, max_ap_beacons   \* the limits in force

vars == <<num_ap, num_cells, total_beacons, max_ap_beacons>>

\* A limit for APs may be above the total, and above what was compiled in.
Limits == (1 .. TOTAL_BEACONS) \X Nat

\* The limits leave a number of cells, and the room for APs is enough.
Fit ==
    /\ max_ap_beacons <= total_beacons
    /\ max_ap_beacons <= MAX_AP_BEACONS

Init ==
    /\ num_ap = 0 /\ num_cells = 0
    /\ <<total_beacons, max_ap_beacons>> \in Limits

Clear ==
    /\ num_ap' = 0 /\ num_cells' = 0
    /\ UNCHANGED <<total_beacons, max_ap_beacons>>

SetLimits ==
    /\ <<total_beacons, max_ap_beacons>>' \in Limits
    /\ UNCHANGED <<num_ap, num_cells>>

\* One more beacon, of either kind, with both kinds within their limits.  The
\* limit on cells is what the APs leave of the total; if they leave less than
\* nothing it stops no cell, and only the sanity check of the request does.
Grow ==
    /\ num_ap <= MAX_AP_BEACONS + 1 /\ num_ap + num_cells <= TOTAL_BEACONS + 1
    /\ \/ num_ap' = num_ap + 1 /\ num_cells' = num_cells
       \/ num_ap' = num_ap /\ num_cells' = num_cells + 1
    /\ num_ap' <= max_ap_beacons
    /\ max_ap_beacons <= total_beacons => num_cells' <= total_beacons - max_ap_beacons
    /\ UNCHANGED <<total_beacons, max_ap_beacons>>

\* The new beacon takes the place of another one, maybe of the other kind,
\* but no AP comes in beyond the limit for APs.
Trade ==
    /\ num_ap <= MAX_AP_BEACONS + 1
    /\ \/ num_ap' = num_ap + 1 /\ num_cells' = num_cells - 1
       \/ num_ap' = num_ap - 1 /\ num_cells' = num_cells + 1
    /\ num_ap' \in Nat /\ num_cells' \in Nat
    /\ num_ap' > num_ap => num_ap' <= max_ap_beacons
    /\ UNCHANGED <<total_beacons, max_ap_beacons>>

Next == Clear \/ SetLimits \/ Grow \/ Trade

Spec == Init /\ [][Next]_vars

TypeOK ==
    /\ num_ap \in Nat /\ num_cells \in Nat
    /\ <<total_beacons, max_ap_beacons>> \in Limits

\* validate_request_ctx() ends the growth of a list, whatever the limits:
\* with the spare element for the beacon that is about to be trimmed in use,
\* one more beacon is let in.
Bounded ==
    /\ num_ap <= MAX_AP_BEACONS + 2
    /\ num_ap + num_cells <= TOTAL_BEACONS + 2

\* The request holds no more than there is room for, and one element of
\* Sky_rctx_t.beacon is to spare for the beacon that is about to be trimmed.
Room ==
    /\ num_ap <= MAX_AP_BEACONS
    /\ num_ap + num_cells <= TOTAL_BEACONS

\* Under limits that fit each other, also if they are below what the request
\* holds already, add_beacon() does not use up the spare element.
RoomKept == [][Room /\ Fit => Room']_vars
===========================================================================
