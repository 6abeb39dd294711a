----------------------------- MODULE CellPlugin -----------------------------
(***************************************************************************)
(* The cell plugin (cell_plugin_basic.c) as operators on beacons: equality *)
(* and order of cells.                                                     *)
(***************************************************************************)
EXTENDS Cells, ApPlugin

NON_NMR == 256

\* Position in Sky_beacon_type_t.
TypeRank == [AP |-> 1, NR |-> 3, LTE |-> 4, UMTS |-> 5, NBIOT |-> 6, CDMA |-> 7, GSM |-> 8]

IsCell(b) == b.type \in CellType

\* A neighbour, known by its physical id and channel only.
IsNmr(b) == IsCell(b) /\ b.id2 = UNKNOWN.id2

SameIds(a, b, ids) == \A id \in ids : a[id] = b[id]

\* Neighbours are compared by physical id and channel, but CDMA and GSM cells
\* with unknown ids equal no other.
CellEqual(a, b) ==
    /\ a.type = b.type
    /\ SameIds(a, b, PrimaryIds(a.type))
    /\ \/ PrimaryIds(a.type) \subseteq Known(a)
       \/ a.type \notin {"CDMA", "GSM"} /\ SameIds(a, b, {"id5", "freq"})

CellPriority(b) ==
    (IF b.connected THEN CONNECTED ELSE 0) + (IF IsNmr(b) THEN 0 ELSE NON_NMR)

\* b goes before x in the list.
CellFirst(b, x) ==
    IF CellPriority(b) # CellPriority(x) THEN CellPriority(b) > CellPriority(x)
    ELSE IF b.age # x.age THEN b.age < x.age
    ELSE IF b.type # x.type THEN TypeRank[b.type] < TypeRank[x.type]
    ELSE EffectiveRssi(b) >= EffectiveRssi(x)
=============================================================================
