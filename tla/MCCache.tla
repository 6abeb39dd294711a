------------------------------ MODULE MCCache ------------------------------
(* Instances of Cache for TLC. *)
EXTENDS Cache

\* APs a1 and a2 are virtual APs of one group.
MCGroup == [a1 |-> 1, a2 |-> 1, b |-> 2, c |-> 3]

S(aps, cells, gnss) == [aps |-> aps, cells |-> cells, gnss |-> gnss]
Fix(hpe, pos) == [hpe |-> hpe, pos |-> pos]

\* Scans of APs with and without a serving cell and a fix, one that contains
\* another, fixes of which one is more accurate and the other out of its range,
\* scans of cells only, one of which starts with a neighbour.
MCScan ==
    {S({"a1", "b"}, <<>>, NoGnss),
     S({"a2", "b", "c"}, <<"l1">>, Fix(1, 5)),
     S({"a1", "b"}, <<"l2">>, NoGnss),
     S({"a1", "b", "c"}, <<"l1">>, Fix(2, 0)),
     S({}, <<"l1", "n">>, NoGnss),
     S({}, <<"n">>, NoGnss)}

MCSearchAgain ==
    {S({"a1", "b"}, <<>>, NoGnss), S({"a1", "b", "c"}, <<>>, NoGnss)}

MCOption == {<<"cache_beacon_threshold", 1>>}
MCOverride == {[max_ap_beacons |-> 2, total_beacons |-> 3]}
MCStricter == {<<"cache_match_all_threshold", 70>>}
============================================================================
