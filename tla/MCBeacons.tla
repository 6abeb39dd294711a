----------------------------- MODULE MCBeacons -----------------------------
(* Instances of Wire, and with it of Beacons, for TLC. *)
EXTENDS Wire

Ap(mac, rssi, connected) ==
    [type |-> "AP", mac |-> mac, freq |-> 2412, rssi |-> rssi, connected |-> connected,
     age |-> 0, used |-> FALSE]

Cell(type, ids, rssi, connected) ==
    [type |-> type, id1 |-> ids.id1, id2 |-> ids.id2, id3 |-> ids.id3, id4 |-> ids.id4,
     id5 |-> ids.id5, freq |-> ids.freq, ta |-> ids.ta,
     rssi |-> rssi, connected |-> connected, age |-> 0]

\* Two groups of virtual APs, one by the local admin bit, the other with an AP
\* that is connected, and a mac that is not valid; strengths out of range,
\* unknown and equal; cells of several types, a neighbour, a cell only partly
\* known.
MCScan ==
    {Ap(<<1, 0>>, -50, FALSE), Ap(<<1, 0>>, -40, FALSE), Ap(<<1, 2>>, -5, FALSE),
     Ap(<<3, 4>>, -45, TRUE), [Ap(<<3, 5>>, -40, FALSE) EXCEPT !.freq = -1],
     Ap(<<0, 0>>, -50, FALSE),
     Cell("LTE", Lte(1, 20, 310, 410, 503, UNKNOWN.freq, 0), -90, TRUE),
     Cell("NR", NrNeighbor(100, 500), -90, TRUE),
     Cell("CDMA", Cdma(65536 + 9, 0, 8), -90, FALSE),
     Cell("UMTS", Umts(1, 20, UNKNOWN.id1, 410, 0, 412), -90, FALSE)}

\* Two groups of virtual APs, and an AP of its own.
MCVirtual ==
    {Ap(<<1, 0, 0>>, -40, FALSE), Ap(<<1, 0, 1>>, -45, FALSE),
     Ap(<<7, 0, 8>>, -50, FALSE), Ap(<<7, 0, 9>>, -55, FALSE), Ap(<<12, 4, 4>>, -60, FALSE)}

\* One cell of each kind and its neighbour, with the greatest ids documented.
MCCells ==
    {Cell("LTE", Lte(65535, 268435455, 799, 999, 503, 45589, 7690), -90, TRUE),
     Cell("LTE", LteNeighbor(503, 45589), -90, FALSE),
     Cell("GSM", Gsm(65535, 65535, 799, 999, 63, 1023, 63), -90, FALSE),
     Cell("GSM", GsmNeighbor(63, 1023), -90, FALSE),
     Cell("UMTS", Umts(65535, 268435455, 799, 999, 511, 10833), -90, FALSE),
     Cell("UMTS", UmtsNeighbor(511, 10833), -90, FALSE),
     Cell("CDMA", Cdma(32767, 65535, 65535), -90, FALSE),
     Cell("NBIOT", NbIot(799, 999, 268435455, 65535, 503, 45589), -90, FALSE),
     Cell("NBIOT", NbIotNeighbor(503, 45589), -90, FALSE),
     Cell("NR", Nr(799, 999, MaxNci, 65535, 1007, 3279165, 3846), -90, FALSE),
     Cell("NR", NrNeighbor(1007, 3279165), -90, FALSE)}

\* Unknown, unknown as documented, before the epoch, in the past and the future.
MCTimestamp == {0, -1, 5, 11, 14}

MCUsedMacs == {{}, {<<1, 0>>}}
MCVirtualUsed == {{}, {<<1, 0, 0>>, <<1, 0, 1>>}}

\* Values within and beyond the limits; overrides that are obeyed and ignored.
\* A total of 2 is below either limit for APs that is above it.
MCOption ==
    {<<"total_beacons", 1>>, <<"total_beacons", 4>>, <<"total_beacons", 5>>,
     <<"max_ap_beacons", 2>>, <<"max_ap_beacons", 3>>, <<"max_ap_beacons", 4>>}
MCOverride ==
    {[total_beacons |-> 1, max_ap_beacons |-> 2],
     [total_beacons |-> 2, max_ap_beacons |-> 3]}
MCMisfit == {<<"total_beacons", 2>>}

\* Three groups with more children than a request has room for.
MCChildren ==
    [mac \in {scan.mac : scan \in {s \in Scan : IsAp(s)}} |->
        IF mac \in {<<1, 0>>, <<3, 4>>} THEN 2 ELSE IF mac = <<3, 5>> THEN 1 ELSE 0]

Fix(lat, alt, nsat) == [lat |-> lat, alt |-> alt, nsat |-> nsat]

\* Positions known and unknown, out of range, too old and from the future.
MCGnssCall ==
    {[fix |-> Fix(40, NaN, 4), timestamp |-> 11], [fix |-> Fix(50, 8900, 100), timestamp |-> 0],
     [fix |-> Fix(60, 8901, 4), timestamp |-> 11], [fix |-> Fix(NaN, NaN, 0), timestamp |-> 12],
     [fix |-> Fix(30, 0, 101), timestamp |-> 0], [fix |-> Fix(20, 0, 4), timestamp |-> 10],
     [fix |-> Fix(10, 0, 4), timestamp |-> 14]}
============================================================================
