-------------------------------- MODULE Wire --------------------------------
(***************************************************************************)
(* What the server reads in a request and what the client reads in the     *)
(* answer (proto.c and the getters of utilities.c): the fields of the      *)
(* beacons and of the position, the choice of virtual APs, and the APs the *)
(* server says it used.                                                    *)
(*                                                                         *)
(* A message is a record of its fields; a field that is not sent has its   *)
(* protobuf default, 0 or the empty list.                                  *)
(***************************************************************************)
EXTENDS Beacons

CONSTANTS
    CharBit,     \* CHAR_BIT
    Children,    \* virtual APs the premium plugin found for a MAC
    GnssCall,    \* calls of sky_add_gnss(): the fix and its timestamp
    NaN          \* a value that is not known

ASSUME WireAssumption ==
    /\ CharBit \in Nat \ {0}
    /\ \A s \in Scan : IsAp(s) => s.mac \in DOMAIN Children /\ Children[s.mac] \in Nat

----------------------------------------------------------------------------
\* APs.

MacToInt(mac) == FoldLeft(LAMBDA n, nibble : 16 * n + nibble, 0, mac)

\* The getters take the first num_ap beacons for the APs and as many after them
\* as there are cells for the cells.
Aps(list) == SubSeq(list, 1, ApCount(list))

CellsOf(list) ==
    LET n == ApCount(list)
    IN  SubSeq(list, n + 1, n + Cardinality({i \in n + 1 .. Len(list) : IsCell(list[i])}))

Field(list, name) == [i \in DOMAIN list |-> list[i][name]]

\* The index of the first connected AP plus 1.
ConnectedApField(list) ==
    LET connected == {i \in DOMAIN list : list[i].connected}
    IN  IF connected = {} THEN 0 ELSE Min(connected)

\* Mutant: the common value is sent as it is.
OptimizedRepeatedFieldPlain(values) ==
    IF Len(values) > 1 /\ \A i \in DOMAIN values : values[i] = values[1]
    THEN [common |-> values[1], list |-> <<>>]
    ELSE [common |-> 0, list |-> values]

\* Several equal values are sent as one, plus 1.
OptimizedRepeatedField(values) ==
    IF Len(values) > 1 /\ \A i \in DOMAIN values : values[i] = values[1]
    THEN [common |-> values[1] + 1, list |-> <<>>]
    ELSE [common |-> 0, list |-> values]

ApFields(list) ==
    [connected_idx_plus_1 |-> ConnectedApField(list),
     mac |-> [i \in DOMAIN list |-> MacToInt(list[i].mac)],
     frequency |-> OptimizedRepeatedField(Field(list, "freq")),
     neg_rssi |-> [i \in DOMAIN list |-> -list[i].rssi],
     age |-> OptimizedRepeatedField(Field(list, "age"))]

----------------------------------------------------------------------------
\* Cells.

\* Mutant: fields are sent as they are in the beacon.
GetCellIdRaw(b, id) == b[id]

\* What the getters tell of an id of a cell: CDMA cells have three ids only,
\* and three kinds of cells have a timing advance.
GetCellId(b, id) ==
    IF \/ b.type = "CDMA" /\ id \in {"id1", "id5", "freq"}
       \/ b.type \notin {"GSM", "LTE", "NR"} /\ id = "ta"
    THEN UNKNOWN[id] ELSE b[id]

CellFieldElement(value, unknown) == IF value = unknown THEN 0 ELSE value + 1

CellField(b) ==
    [type |-> b.type,
     id_plus_1 |-> [id \in IdName |-> CellFieldElement(GetCellId(b, id), UNKNOWN[id])],
     connected |-> b.connected, neg_rssi |-> -b.rssi, age |-> b.age]

CellFields(cells) == [i \in DOMAIN cells |-> CellField(cells[i])]

----------------------------------------------------------------------------
\* Virtual APs.  Child number v of the AP at place i is the pair <<v, i>>; the
\* AP itself is <<0, i>>.

\* Children of the AP at each place of the list.
Groups(list) == [i \in DOMAIN list |-> Children[list[i].mac]]

ChildrenOf(groups) == UNION {(1 .. groups[i]) \X {i} : i \in DOMAIN groups}

\* They are taken in rounds: first one of each AP, then the second one of each.
Earlier(q, p) == q[1] < p[1] \/ (q[1] = p[1] /\ q[2] < p[2])

Place(p, others) == Cardinality({q \in others : Earlier(q, p)})

\* Mutant: an AP sends all its children before the next one sends any.
SelectVapInOrder(groups, max) ==
    {p \in ChildrenOf(groups) :
        Cardinality({q \in ChildrenOf(groups) :
                        q[2] < p[2] \/ (q[2] = p[2] /\ q[1] < p[1])}) < max}

\* The children that are sent, no more than max of them.
SelectVap(groups, max) ==
    {p \in ChildrenOf(groups) : Place(p, ChildrenOf(groups)) < max}

\* The groups that are sent: index of the parent and number of children.  They
\* are sent in the order of their parents.
VapData(list) ==
    LET sent == SelectVap(Groups(list), config.max_vap_per_rq)
    IN  {[parent |-> i - 1, children |-> Cardinality({p \in sent : p[2] = i})] :
            i \in {i \in DOMAIN list : \E p \in sent : p[2] = i}}

----------------------------------------------------------------------------
\* The position.  lat stands for both coordinates and nsat for the values that
\* are tested in the same way.

NoFix == [lat |-> NaN]
NoGnss == [fix |-> NoFix, age |-> 0]

GnssTimed(call) == TIME_UNAVAILABLE \notin {rctx.time, call.timestamp}

GnssTimeOk(call) ==
    GnssTimed(call) => Epoch < call.timestamp /\ call.timestamp <= rctx.time

GnssFixOk(fix) ==
    fix.lat # NaN /\ (fix.alt = NaN \/ fix.alt \in -1200 .. 8900) /\ fix.nsat <= 100

\* Mutant: a fix that is rejected replaces the one that is held.
AddGnssUnchecked(gnss, call) ==
    IF GnssTimeOk(call) THEN [fix |-> call.fix, age |-> 0] ELSE gnss

\* sky_add_gnss() in a request of time rctx.time.  The age is set first: a
\* position that is unknown or out of range leaves the fix but not its age.
AddGnss(gnss, call) ==
    LET age == IF GnssTimed(call) THEN rctx.time - call.timestamp ELSE 0
    IN  IF ~GnssTimeOk(call) THEN gnss
        ELSE [fix |-> IF GnssFixOk(call.fix) THEN call.fix ELSE gnss.fix, age |-> age]

HasGnss(gnss) == gnss.fix.lat # NaN

\* What the getters tell of the fix.
GetGnss(gnss, name) ==
    IF HasGnss(gnss) THEN gnss.fix[name] ELSE IF name = "nsat" THEN 0 ELSE NaN

\* A value in the whole units of the message.  What becomes of NaN is undefined;
\* NaN stands for it.
Scaled(value, units) == IF value = NaN THEN NaN ELSE units * value

\* Positions are sent in millionths of a degree, heights in decimetres.
GnssFields(gnss) ==
    [lat |-> Scaled(GetGnss(gnss, "lat"), 1000000),
     alt |-> Scaled(GetGnss(gnss, "alt"), 10),
     nsat |-> GetGnss(gnss, "nsat"),
     age |-> gnss.age]

----------------------------------------------------------------------------
\* The message.  A registration has no body.

Rq(kind, list, gnss) ==
    IF kind = "registration"
    THEN [aps |-> <<>>, vaps |-> {}, cells |-> <<>>, gnss |-> <<>>]
    ELSE [aps |-> IF Aps(list) = <<>> THEN <<>> ELSE <<ApFields(Aps(list))>>,
          vaps |-> VapData(Aps(list)),
          cells |-> CellFields(CellsOf(list)),
          gnss |-> IF HasGnss(gnss) THEN <<GnssFields(gnss)>> ELSE <<>>]

----------------------------------------------------------------------------
\* The APs the server used.  A byte is the set of its bits that are set.

\* Mutant: the first byte holds the first bits.
UsedApFirstByte(bytes, n) ==
    LET k == 1 + n \div CharBit
    IN  k \in DOMAIN bytes /\ n % CharBit \in bytes[k]

\* GET_USED_AP: the last byte holds the first bits.  The byte before the first
\* one is the high byte of the size of the field, which is 0 (little endian).
UsedAp(bytes, n) ==
    LET k == Len(bytes) - n \div CharBit
    IN  k \in DOMAIN bytes /\ n % CharBit \in bytes[k]

\* What apply_used_info_to_ap() sets: the APs, up to two more than there are
\* bits for, then the children, whether they were sent or not.  A child beyond
\* the last bit is set to 0 or left as it is, and not in the result.
ApplyUsedInfoToAp(list, bytes) ==
    LET bits == Len(bytes) * CharBit
        aps == {0} \X DOMAIN list
        slots == aps \cup {p \in ChildrenOf(Groups(list)) : p[1] <= config.max_vap_per_ap}
        set == {p \in slots : Place(p, slots) <= IF p \in aps THEN bits + 1 ELSE bits - 1}
    IN  [p \in set |-> UsedAp(bytes, Place(p, slots))]

----------------------------------------------------------------------------
\* The server, as far as the client relies on it.

\* A field with a common value, or a list; what is not there is 0.
ReadRepeated(field, n) ==
    [i \in 1 .. n |->
        IF field.common > 0 THEN field.common - 1
        ELSE IF i \in DOMAIN field.list THEN field.list[i] ELSE 0]

\* The beacons the server reads in a request.
ReadAps(rq) ==
    IF rq.aps = <<>> THEN <<>>
    ELSE LET aps == rq.aps[1]
             n == Len(aps.mac)
             freq == ReadRepeated(aps.frequency, n)
             age == ReadRepeated(aps.age, n)
         IN  [i \in 1 .. n |->
                 [mac |-> aps.mac[i], freq |-> freq[i], rssi |-> -aps.neg_rssi[i],
                  age |-> age[i], first |-> i = aps.connected_idx_plus_1]]

\* The fields that the server is told of each type.
Relevant ==
    [type \in CellType |->
        CASE type = "CDMA" -> {"id2", "id3", "id4"}
          [] type \in {"UMTS", "NBIOT"} -> IdName \ {"ta"}
          [] OTHER -> IdName]

\* Fields that are not sent are unknown.
ReadCells(rq) ==
    [i \in DOMAIN rq.cells |->
        LET cell == rq.cells[i]
        IN  [type |-> cell.type, connected |-> cell.connected, rssi |-> -cell.neg_rssi,
             age |-> cell.age,
             ids |-> [id \in IdName |-> IF cell.id_plus_1[id] = 0 THEN UNKNOWN[id]
                                        ELSE cell.id_plus_1[id] - 1]]]

\* The bits the server sets if it used the APs and children in used, all of
\* which it was sent.
ServerUsedBytes(sent, used, size) ==
    LET bits == {Place(p, sent) : p \in used}
    IN  [k \in 1 .. size |-> {n \in 0 .. CharBit - 1 : (size - k) * CharBit + n \in bits}]

----------------------------------------------------------------------------
\* Properties.

\* The optimizations of the message lose nothing: the server reads back every
\* beacon of the request with its values, whatever values are equal, unknown
\* or irrelevant for its type.
ServerReadsBeacons ==
    LET list == rctx.beacon
        rq == Rq("location", list, NoGnss)
        aps == ReadAps(rq)
        cells == ReadCells(rq)
    IN  /\ Len(aps) = rctx.num_ap /\ Len(aps) + Len(cells) = Len(list)
        /\ \A i \in DOMAIN aps :
              LET b == list[i]
              IN  aps[i] = [mac |-> MacToInt(b.mac), freq |-> b.freq, rssi |-> b.rssi,
                            age |-> b.age,
                            first |-> b.connected /\ \A j \in 1 .. i - 1 : ~list[j].connected]
        /\ \A i \in DOMAIN cells :
              LET b == list[Len(aps) + i]
              IN  /\ cells[i].type = b.type /\ cells[i].connected = b.connected
                  /\ cells[i].rssi = b.rssi /\ cells[i].age = b.age
                  /\ \A id \in IdName :
                        cells[i].ids[id] = IF id \in Relevant[b.type] THEN b[id] ELSE UNKNOWN[id]

\* What the request holds of two calls of sky_add_gnss().  Beacons make no
\* difference.
PositionSent(first, second) ==
    Rq("location", <<>>, AddGnss(AddGnss(NoGnss, first), second)).gnss

GnssTaken(call) == GnssTimeOk(call) /\ GnssFixOk(call.fix)

\* A position that is rejected does not displace the one that is held: the
\* server reads every field of the last position sky_add_gnss() accepted.  As
\* its age it reads, as the code leaves it, that of the last call whose time was
\* in range, also if that call gave no position or a rejected one.
ServerReadsPosition ==
    \A first, second \in GnssCall :
       LET read == PositionSent(first, second)
           last == IF GnssTaken(second) THEN second ELSE first
           aged == IF GnssTimeOk(second) THEN second ELSE first
       IN  rctx.magic /\ rctx.beacon = <<>> =>
             read = IF GnssTaken(last)
                    THEN <<[lat |-> Scaled(last.fix.lat, 1000000),
                            alt |-> Scaled(last.fix.alt, 10),
                            nsat |-> last.fix.nsat,
                            age |-> Age(aged.timestamp)]>>
                    ELSE <<>>

\* select_vap(): "as many groups as possible are retained, but the
\* max_vap_per_rq is not exceeded", and no room is wasted.  Each group names
\* its own parent.
VapsWithinLimit ==
    LET aps == Aps(rctx.beacon)
        groups == Groups(aps)
        vaps == Rq("location", rctx.beacon, NoGnss).vaps
        some == {i \in DOMAIN aps : groups[i] > 0}
        max == config.max_vap_per_rq
        children == UNION {(1 .. group.children) \X {group} : group \in vaps}
    IN  /\ Cardinality(children) = Min({max, Cardinality(ChildrenOf(groups))})
        /\ Cardinality(vaps) = Min({max, Cardinality(some)})
        /\ \A group \in vaps :
              group.parent + 1 \in some /\ group.children <= groups[group.parent + 1]
        /\ \A g, h \in vaps : g.parent = h.parent => g = h

\* The used bits of an answer reach the APs and children the server means,
\* although the server counts the children it was sent and the client all the
\* children it has: selection and answer go through them in the same rounds.
UsedReachesRightAp ==
    LET aps == Aps(rctx.beacon)
        sent == ({0} \X DOMAIN aps) \cup SelectVap(Groups(aps), config.max_vap_per_rq)
        known == {p \in sent : p[1] <= config.max_vap_per_ap}
        least == (Cardinality(sent) + CharBit - 1) \div CharBit
    IN  \A used \in {{}, sent} \cup {{p} : p \in sent}, size \in {least, least + 1} :
           LET result == ApplyUsedInfoToAp(aps, ServerUsedBytes(sent, used, size))
           IN  /\ \A p \in known : p \in DOMAIN result /\ (result[p] <=> p \in used)
               /\ \A p \in DOMAIN result \ known : ~result[p]
=============================================================================
