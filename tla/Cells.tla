-------------------------------- MODULE Cells --------------------------------
(***************************************************************************)
(* The ids of a cell: what each sky_add_cell_*() call makes of its         *)
(* arguments, and which ids validate_beacon() takes.                       *)
(*                                                                         *)
(* The ids are the fields id1 .. id5, freq and ta of struct cell.  A call  *)
(* leaves the fields its kind of cell does not have at 0.                  *)
(***************************************************************************)
EXTENDS Integers

CONSTANT MaxNci    \* greatest NR cell identity, 2^36 - 1

CellType == {"NR", "LTE", "UMTS", "NBIOT", "CDMA", "GSM"}

\* SKY_UNKNOWN_ID1 .. SKY_UNKNOWN_ID6 and SKY_UNKNOWN_TA.
UNKNOWN ==
    [id1 |-> 65535, id2 |-> 65535, id3 |-> -1, id4 |-> -1, id5 |-> -1, freq |-> -1, ta |-> -1]

IdName == DOMAIN UNKNOWN

Ids(id1, id2, id3, id4, id5, freq, ta) ==
    [id1 |-> id1, id2 |-> id2, id3 |-> id3, id4 |-> id4, id5 |-> id5, freq |-> freq, ta |-> ta]

Lte(tac, e_cellid, mcc, mnc, pci, earfcn, ta) == Ids(mcc, mnc, tac, e_cellid, pci, earfcn, ta)
Gsm(lac, ci, mcc, mnc, bsic, arfcn, ta) == Ids(mcc, mnc, lac, ci, bsic, arfcn, ta)
Umts(lac, ucid, mcc, mnc, psc, uarfcn) == Ids(mcc, mnc, lac, ucid, psc, uarfcn, 0)
Cdma(sid, nid, bsid) == Ids(0, sid % 65536, nid, bsid, 0, 0, 0)
NbIot(mcc, mnc, e_cellid, tac, ncid, earfcn) == Ids(mcc, mnc, tac, e_cellid, ncid, earfcn, 0)
Nr(mcc, mnc, nci, tac, pci, nrarfcn, ta) == Ids(mcc, mnc, tac, nci, pci, nrarfcn, ta)

\* A neighbour is a cell of which only id5 and the channel are known.
LteNeighbor(pci, earfcn) == [UNKNOWN EXCEPT !.id5 = pci, !.freq = earfcn]
GsmNeighbor(bsic, arfcn) == [UNKNOWN EXCEPT !.id5 = bsic, !.freq = arfcn]
UmtsNeighbor(psc, uarfcn) == [UNKNOWN EXCEPT !.id5 = psc, !.freq = uarfcn, !.ta = 0]
NbIotNeighbor(ncid, earfcn) == [UNKNOWN EXCEPT !.id5 = ncid, !.freq = earfcn, !.ta = 0]
NrNeighbor(pci, nrarfcn) == [UNKNOWN EXCEPT !.id5 = pci, !.freq = nrarfcn]

----------------------------------------------------------------------------
\* What validate_beacon() takes.

\* The ids that must be known together or not at all.
PrimaryIds(type) ==
    CASE type = "CDMA" -> {"id2", "id3", "id4"}
      [] type = "GSM" -> {"id1", "id2", "id3", "id4"}
      [] OTHER -> {"id1", "id2", "id4"}

\* Least value of an id that is compared with its greatest value only.
Lowest == -2147483647

\* The least and the greatest value of each id that is compared with them.
IdRange ==
    [LTE |-> [id1 |-> <<200, 799>>, id2 |-> <<0, 999>>, id3 |-> <<1, 65535>>, id4 |-> <<0, 268435455>>,
              id5 |-> <<Lowest, 503>>, freq |-> <<Lowest, 262143>>, ta |-> <<0, 7690>>],
     NBIOT |-> [id1 |-> <<200, 799>>, id2 |-> <<0, 999>>, id3 |-> <<1, 65535>>,
                id4 |-> <<0, 268435455>>, id5 |-> <<0, 503>>, freq |-> <<0, 262143>>],
     GSM |-> [id1 |-> <<200, 799>>, id2 |-> <<0, 999>>, id5 |-> <<0, 63>>, freq |-> <<1, 1023>>,
              ta |-> <<0, 63>>],
     UMTS |-> [id1 |-> <<200, 799>>, id2 |-> <<0, 999>>, id4 |-> <<0, 268435455>>,
               id5 |-> <<Lowest, 511>>, freq |-> <<412, 262143>>],
     CDMA |-> [id2 |-> <<0, 32767>>, id3 |-> <<0, 65535>>, id4 |-> <<0, 65535>>],
     NR |-> [id1 |-> <<200, 799>>, id2 |-> <<0, 999>>, id4 |-> <<0, MaxNci>>, id5 |-> <<0, 107>>,
             freq |-> <<0, 3279165>>, ta |-> <<0, 3846>>]]

Known(b) == {id \in IdName : b[id] # UNKNOWN[id]}

ValidIds(b) ==
    /\ PrimaryIds(b.type) \cap Known(b) \in {{}, PrimaryIds(b.type)}
    /\ b.type = "CDMA" => PrimaryIds(b.type) \subseteq Known(b)
    /\ \A id \in DOMAIN IdRange[b.type] \cap Known(b) :
          LET bounds == IdRange[b.type][id] IN bounds[1] <= b[id] /\ b[id] <= bounds[2]

----------------------------------------------------------------------------
\* What the comments of the sky_add_cell_*() calls promise to take.

DocumentedRange ==
    [IdRange EXCEPT !.LTE.id5 = <<0, 503>>, !.LTE.freq = <<0, 45589>>,
                    !.NBIOT.freq = <<0, 45589>>, !.UMTS.id5 = <<0, 511>>,
                    !.UMTS.freq = <<412, 10833>>, !.NR.id5 = <<0, 1007>>]

DocumentedIds(b) ==
    /\ PrimaryIds(b.type) \subseteq Known(b) \/ (b.type # "CDMA" /\ Known(b) \subseteq {"id5", "freq", "ta"})
    /\ \A id \in DOMAIN DocumentedRange[b.type] \cap Known(b) :
          LET bounds == DocumentedRange[b.type][id] IN bounds[1] <= b[id] /\ b[id] <= bounds[2]
=============================================================================
