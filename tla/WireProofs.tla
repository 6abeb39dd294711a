------------------------------ MODULE WireProofs ------------------------------
(***************************************************************************)
(* Theorems about Wire: what the server reads in a request is what the     *)
(* application reported, and what the client reads in an answer is what    *)
(* the server meant, for all scans, limits, fixes and virtual APs.         *)
(***************************************************************************)
EXTENDS Wire, BeaconsProofs

(***************************************************************************)
(* The position.                                                           *)
(***************************************************************************)

\* What a call leaves of the fix that is held, and of its age.
LEMMA FixHeld ==
    ASSUME NEW fix, NEW age, NEW call
    PROVE  AddGnss([fix |-> fix, age |-> age], call) =
             [fix |-> IF GnssTaken(call) THEN call.fix ELSE fix,
              age |-> IF GnssTimeOk(call) THEN Age(call.timestamp) ELSE age]
BY DEF AddGnss, GnssTimed, Age, GnssTaken

LEMMA TwoFixesHeld ==
    ASSUME NEW first, NEW second
    PROVE  AddGnss(AddGnss(NoGnss, first), second) =
             [fix |-> IF GnssTaken(second) THEN second.fix
                      ELSE IF GnssTaken(first) THEN first.fix ELSE NoFix,
              age |-> IF GnssTimeOk(second) THEN Age(second.timestamp)
                      ELSE IF GnssTimeOk(first) THEN Age(first.timestamp) ELSE 0]
<1> DEFINE fix == IF GnssTaken(first) THEN first.fix ELSE NoFix
           age == IF GnssTimeOk(first) THEN Age(first.timestamp) ELSE 0
<1>1. AddGnss(NoGnss, first) = [fix |-> fix, age |-> age]
  BY FixHeld DEF NoGnss
<1> HIDE DEF fix, age
<1>2. AddGnss([fix |-> fix, age |-> age], second) =
        [fix |-> IF GnssTaken(second) THEN second.fix ELSE fix,
         age |-> IF GnssTimeOk(second) THEN Age(second.timestamp) ELSE age]
  BY FixHeld
<1> QED
  BY <1>1, <1>2 DEF fix, age

\* The server reads the last position that was accepted, with all its fields,
\* whatever was rejected after it, and no position if none was.
THEOREM PositionRead == Spec => []ServerReadsPosition
<1>1. ServerReadsPosition
  <2> DEFINE Latest(first, second) == IF GnssTaken(second) THEN second ELSE first
             Aged(first, second) == IF GnssTimeOk(second) THEN second ELSE first
             FixFields(last, aged) ==
               [lat |-> Scaled(last.fix.lat, 1000000), alt |-> Scaled(last.fix.alt, 10),
                nsat |-> last.fix.nsat, age |-> Age(aged.timestamp)]
  <2>s. SUFFICES ASSUME NEW first \in GnssCall, NEW second \in GnssCall
               PROVE  PositionSent(first, second) =
                        IF GnssTaken(Latest(first, second))
                        THEN <<FixFields(Latest(first, second), Aged(first, second))>>
                        ELSE <<>>
    BY DEF ServerReadsPosition
  <2> DEFINE held == AddGnss(AddGnss(NoGnss, first), second)
             last == Latest(first, second)
             aged == Aged(first, second)
  <2>1. PositionSent(first, second) = IF HasGnss(held) THEN <<GnssFields(held)>> ELSE <<>>
    BY DEF Rq, PositionSent
  <2>2. /\ held.fix = IF GnssTaken(last) THEN last.fix ELSE NoFix
        /\ GnssTimeOk(aged) => held.age = Age(aged.timestamp)
    BY TwoFixesHeld
  <2>3. GnssTaken(last) => last.fix.lat # NaN /\ GnssTimeOk(aged)
    <3>1. \A call : GnssTaken(call) => call.fix.lat # NaN /\ GnssTimeOk(call)
      BY DEF GnssFixOk, GnssTaken
    <3>2. GnssTaken(last) => GnssTimeOk(first) \/ GnssTimeOk(second)
      BY <3>1
    <3>3. GnssTimeOk(first) \/ GnssTimeOk(second) => GnssTimeOk(aged)
      OBVIOUS
    <3> QED
      BY <3>1, <3>2, <3>3
  <2> HIDE DEF held, last, aged
  <2>4. CASE GnssTaken(last)
    <3>1. held.fix = last.fix /\ HasGnss(held) /\ held.age = Age(aged.timestamp)
      BY <2>2, <2>3, <2>4 DEF HasGnss
    <3>2. GnssFields(held) = FixFields(last, aged)
      BY <3>1 DEF GnssFields, GetGnss
    <3> QED
      BY <2>1, <2>4, <3>1, <3>2 DEF last, aged
  <2>5. CASE ~GnssTaken(last)
    <3>1. ~HasGnss(held)
      BY <2>2, <2>5 DEF HasGnss, NoFix
    <3> QED
      BY <2>1, <2>5, <3>1 DEF last
  <2> QED
    BY <2>4, <2>5
<1> QED
  BY <1>1, PTL

(***************************************************************************)
(* The beacons.                                                            *)
(***************************************************************************)

\* The getters find the APs and the cells of a good list.
LEMMA ListSplit ==
    ASSUME NEW list, Good(list)
    PROVE  /\ Aps(list) \in Seq(Beacon) /\ Len(Aps(list)) = ApCount(list)
           /\ \A i \in 1 .. ApCount(list) : Aps(list)[i] = list[i] /\ list[i] \in ApBeacon
           /\ CellsOf(list) \in Seq(Beacon) /\ Len(CellsOf(list)) = Len(list) - ApCount(list)
           /\ \A i \in 1 .. Len(list) - ApCount(list) :
                 /\ CellsOf(list)[i] = list[ApCount(list) + i]
                 /\ list[ApCount(list) + i] \in CellBeacon
                 /\ list[ApCount(list) + i] \in Beacon
<1> DEFINE n == ApCount(list)
           cells == {i \in n + 1 .. Len(list) : IsCell(list[i])}
<1>1. /\ n \in 0 .. Len(list) /\ Len(list) \in Nat /\ list \in Seq(Beacon)
      /\ \A i \in 1 .. Len(list) : list[i] \in Beacon /\ (IsAp(list[i]) <=> i <= n)
  BY ApsFirst DEF Good
<1> HIDE DEF n
<1>2. \A i \in 1 .. n : list[i] \in ApBeacon
  BY <1>1, KindOfBeacon
<1>3. \A i \in n + 1 .. Len(list) : list[i] \in CellBeacon /\ IsCell(list[i])
  BY <1>1, KindOfBeacon
<1>4. Cardinality(cells) = Len(list) - n
  <2>1. cells = n + 1 .. Len(list)
    BY <1>3
  <2>2. n + 1 \in Int /\ Len(list) \in Int
    BY <1>1
  <2>3. Cardinality(n + 1 .. Len(list)) = IF n + 1 > Len(list) THEN 0 ELSE Len(list) - (n + 1) + 1
    BY <2>2, FS_Interval
  <2> HIDE DEF cells
  <2>4. Cardinality(cells) = IF n + 1 > Len(list) THEN 0 ELSE Len(list) - (n + 1) + 1
    BY <2>1, <2>3
  <2>5. n \in Int /\ n <= Len(list)
    BY <1>1
  <2>6. CASE n + 1 > Len(list)
    <3>1. n = Len(list)
      BY <2>2, <2>5, <2>6
    <3> QED
      BY <2>2, <2>4, <2>6, <3>1
  <2>7. CASE ~(n + 1 > Len(list))
    BY <2>2, <2>4, <2>5, <2>7
  <2> QED
    BY <2>6, <2>7
<1>5. Aps(list) = SubSeq(list, 1, n)
  BY DEF Aps, n
<1>6. CellsOf(list) = SubSeq(list, n + 1, Len(list))
  <2>1. CellsOf(list) = SubSeq(list, n + 1, n + Cardinality(cells))
    BY DEF CellsOf, n
  <2>2. n + Cardinality(cells) = Len(list)
    BY <1>1, <1>4
  <2> QED
    BY <2>1, <2>2
<1>7. /\ SubSeq(list, 1, n) \in Seq(Beacon) /\ Len(SubSeq(list, 1, n)) = n
      /\ \A i \in 1 .. n : SubSeq(list, 1, n)[i] = list[i]
  BY <1>1
<1>8. /\ SubSeq(list, n + 1, Len(list)) \in Seq(Beacon)
      /\ Len(SubSeq(list, n + 1, Len(list))) = Len(list) - n
      /\ \A i \in 1 .. Len(list) - n : SubSeq(list, n + 1, Len(list))[i] = list[n + i]
  BY <1>1
<1>9. \A i \in 1 .. Len(list) - n : n + i \in n + 1 .. Len(list) /\ n + i \in 1 .. Len(list)
  BY <1>1
<1> QED
  BY <1>1, <1>2, <1>3, <1>5, <1>6, <1>7, <1>8, <1>9 DEF n

\* What is sent as one value, or as a list, is read back.
LEMMA RepeatedRead ==
    ASSUME NEW values \in Seq(Nat), NEW i \in 1 .. Len(values)
    PROVE  ReadRepeated(OptimizedRepeatedField(values), Len(values))[i] = values[i]
<1> DEFINE field == OptimizedRepeatedField(values)
<1>1. values[i] \in Nat /\ values[1] \in Nat /\ DOMAIN values = 1 .. Len(values)
  OBVIOUS
<1>2. \/ field.common = values[1] + 1 /\ values[i] = values[1]
      \/ field.common = 0 /\ field.list = values
  BY <1>1 DEF OptimizedRepeatedField
<1> HIDE DEF field
<1>3. ReadRepeated(field, Len(values))[i] =
        IF field.common > 0 THEN field.common - 1
        ELSE IF i \in DOMAIN field.list THEN field.list[i] ELSE 0
  BY DEF ReadRepeated
<1>4. ReadRepeated(field, Len(values))[i] = values[i]
  BY <1>1, <1>2, <1>3
<1> QED
  BY <1>4 DEF field

\* The index of the connected AP is that of the first one.
LEMMA ConnectedRead ==
    ASSUME NEW list \in Seq(Beacon), NEW i \in 1 .. Len(list),
           \A j \in 1 .. Len(list) : list[j].connected \in BOOLEAN
    PROVE  (i = ConnectedApField(list))
             = (list[i].connected /\ \A j \in 1 .. i - 1 : ~list[j].connected)
<1> DEFINE connected == {j \in DOMAIN list : list[j].connected}
<1>1. connected \in SUBSET Nat /\ \A j \in connected : j \in 1 .. Len(list)
  OBVIOUS
<1>2. ConnectedApField(list) = IF connected = {} THEN 0 ELSE Min(connected)
  BY DEF ConnectedApField
<1>3. \A j \in 1 .. Len(list) : j \in connected <=> list[j].connected
  OBVIOUS
<1> HIDE DEF connected
<1>4. CASE connected = {}
  BY <1>2, <1>3, <1>4
<1>5. CASE connected # {}
  <2>1. Min(connected) \in connected /\ \A x \in connected : Min(connected) <= x
    BY <1>1, <1>5, LeastNatural
  <2> DEFINE m == Min(connected)
  <2> HIDE DEF m
  <2>2. m \in 1 .. Len(list) /\ list[m].connected /\ \A x \in 1 .. Len(list) : list[x].connected => m <= x
    BY <2>1, <1>1, <1>3 DEF m
  <2>3. (i = m) <=> (list[i].connected /\ \A j \in 1 .. i - 1 : ~list[j].connected)
    BY <2>2
  <2> QED
    BY <1>2, <1>5, <2>3 DEF m
<1> QED
  BY <1>4, <1>5

\* The fields of an AP that are sent are natural numbers.
LEMMA ApSent ==
    ASSUME NEW b \in Beacon, b \in ApBeacon
    PROVE  b.freq \in Nat /\ b.age \in Nat /\ b.rssi \in Int /\ b.connected \in BOOLEAN
<1>1. b.freq \in Int /\ b.age \in Nat /\ b.rssi \in Int /\ b.connected \in BOOLEAN /\ IsAp(b)
  BY DEF ApBeacon, IsAp
<1>2. Corrected(b) = b
  BY DEF Beacon
<1> DEFINE rssi == IF b.rssi \in RssiRange[b.type] THEN b.rssi ELSE UNKNOWN_RSSI
           band == 2400 .. 6000
           freq == IF b.freq \in band THEN b.freq ELSE UNKNOWN_FREQ
           c == [b EXCEPT !.rssi = rssi]
<1>3. Corrected(b) = [c EXCEPT !.freq = freq]
  BY <1>1 DEF Corrected
<1>4. freq \in Nat
  <2>1. \A x \in band : x \in Nat
    OBVIOUS
  <2> HIDE DEF band
  <2> QED
    BY <2>1 DEF UNKNOWN_FREQ
<1>5. "freq" \in DOMAIN c
  BY DEF ApBeacon
<1> HIDE DEF c, freq
<1>6. b.freq = freq
  BY <1>2, <1>3, <1>5
<1> QED
  BY <1>1, <1>4, <1>6

LEMMA ListOfNumbers ==
    ASSUME NEW n \in Nat, NEW f \in [1 .. n -> Nat]
    PROVE  f \in Seq(Nat) /\ Len(f) = n
OBVIOUS

LEMMA ApsRead ==
    ASSUME NEW list, Good(list)
    PROVE  LET aps == ReadAps(Rq("location", list, NoGnss))
           IN  /\ Len(aps) = ApCount(list) /\ DOMAIN aps = 1 .. ApCount(list)
               /\ \A i \in 1 .. ApCount(list) :
                     aps[i] = [mac |-> MacToInt(list[i].mac), freq |-> list[i].freq,
                               rssi |-> list[i].rssi, age |-> list[i].age,
                               first |-> list[i].connected
                                           /\ \A j \in 1 .. i - 1 : ~list[j].connected]
<1> DEFINE aps == Aps(list)
           n == ApCount(list)
           rq == Rq("location", list, NoGnss)
<1>1. /\ aps \in Seq(Beacon) /\ Len(aps) = n /\ n \in Nat
      /\ \A i \in 1 .. n : aps[i] = list[i] /\ list[i] \in ApBeacon /\ list[i] \in Beacon
  BY ListSplit, ApsFirst DEF Good
<1>2. rq.aps = IF aps = <<>> THEN <<>> ELSE <<ApFields(aps)>>
  BY DEF Rq
<1> HIDE DEF aps, n, rq
<1>3. CASE n = 0
  <2>1. aps = <<>>
    BY <1>1, <1>3
  <2>2. ReadAps(rq) = <<>>
    BY <1>2, <2>1 DEF ReadAps
  <2>3. Len(ReadAps(rq)) = n /\ DOMAIN ReadAps(rq) = 1 .. n
    BY <1>3, <2>2
  <2>4. 1 .. n = {}
    BY <1>3
  <2> QED
    BY <2>3, <2>4 DEF n, rq
<1>4. CASE n # 0
  <2> DEFINE sent == ApFields(aps)
             freq == ReadRepeated(sent.frequency, n)
             age == ReadRepeated(sent.age, n)
             Read(i) == [mac |-> sent.mac[i], freq |-> freq[i], rssi |-> -sent.neg_rssi[i],
                         age |-> age[i], first |-> i = sent.connected_idx_plus_1]
  <2>1. rq.aps = <<sent>>
    BY <1>1, <1>2, <1>4
  <2>2. /\ sent.connected_idx_plus_1 = ConnectedApField(aps)
        /\ sent.mac = [i \in DOMAIN aps |-> MacToInt(aps[i].mac)]
        /\ sent.frequency = OptimizedRepeatedField(Field(aps, "freq"))
        /\ sent.neg_rssi = [i \in DOMAIN aps |-> -aps[i].rssi]
        /\ sent.age = OptimizedRepeatedField(Field(aps, "age"))
    BY DEF ApFields
  <2> HIDE DEF sent
  <2>3. DOMAIN aps = 1 .. n
    BY <1>1
  <2>4. Len(sent.mac) = n
    BY <1>1, <2>2, <2>3
  <2>5. ReadAps(rq) = [i \in 1 .. n |-> Read(i)]
    BY <2>1, <2>4 DEF ReadAps
  <2>6. \A i \in 1 .. n : /\ aps[i].freq \in Nat /\ aps[i].age \in Nat /\ aps[i].rssi \in Int
                          /\ aps[i].connected \in BOOLEAN
    BY <1>1, ApSent
  <2>7. ASSUME NEW i \in 1 .. n
        PROVE  freq[i] = aps[i].freq /\ age[i] = aps[i].age
    <3> DEFINE freqs == Field(aps, "freq")
               ages == Field(aps, "age")
    <3>1. /\ freqs = [j \in 1 .. n |-> aps[j].freq]
          /\ ages = [j \in 1 .. n |-> aps[j].age]
      BY <2>3 DEF Field
    <3> HIDE DEF freqs, ages
    <3>2. /\ freqs \in Seq(Nat) /\ Len(freqs) = n /\ freqs[i] = aps[i].freq
          /\ ages \in Seq(Nat) /\ Len(ages) = n /\ ages[i] = aps[i].age
      <4>1. freqs \in [1 .. n -> Nat] /\ ages \in [1 .. n -> Nat]
        BY <2>6, <3>1
      <4>2. freqs[i] = aps[i].freq /\ ages[i] = aps[i].age
        BY <3>1
      <4> QED
        BY <1>1, <4>1, <4>2, ListOfNumbers
    <3>3. /\ ReadRepeated(OptimizedRepeatedField(freqs), n)[i] = freqs[i]
          /\ ReadRepeated(OptimizedRepeatedField(ages), n)[i] = ages[i]
      BY <3>2, RepeatedRead
    <3> QED
      BY <2>2, <3>2, <3>3 DEF freqs, ages
  <2>8. ASSUME NEW i \in 1 .. n
        PROVE  /\ sent.mac[i] = MacToInt(aps[i].mac) /\ -sent.neg_rssi[i] = aps[i].rssi
               /\ (i = sent.connected_idx_plus_1)
                    = (aps[i].connected /\ \A j \in 1 .. i - 1 : ~aps[j].connected)
    <3>1. sent.mac[i] = MacToInt(aps[i].mac) /\ sent.neg_rssi[i] = -aps[i].rssi
      BY <2>2, <2>3
    <3>2. -(-aps[i].rssi) = aps[i].rssi
      BY <2>6
    <3>3. (i = ConnectedApField(aps))
            = (aps[i].connected /\ \A j \in 1 .. i - 1 : ~aps[j].connected)
      BY <1>1, <2>6, ConnectedRead
    <3> QED
      BY <2>2, <3>1, <3>2, <3>3
  <2> HIDE DEF freq, age
  <2>9. ASSUME NEW i \in 1 .. n
        PROVE  Read(i) = [mac |-> MacToInt(list[i].mac), freq |-> list[i].freq,
                          rssi |-> list[i].rssi, age |-> list[i].age,
                          first |-> list[i].connected
                                      /\ \A j \in 1 .. i - 1 : ~list[j].connected]
    <3>1. aps[i] = list[i] /\ \A j \in 1 .. i - 1 : aps[j] = list[j]
      BY <1>1
    <3>2. (aps[i].connected /\ \A j \in 1 .. i - 1 : ~aps[j].connected)
            <=> (list[i].connected /\ \A j \in 1 .. i - 1 : ~list[j].connected)
      BY <3>1
    <3>3. (i = sent.connected_idx_plus_1)
            = (list[i].connected /\ \A j \in 1 .. i - 1 : ~list[j].connected)
      BY <2>8, <3>2
    <3> QED
      BY <2>7, <2>8, <3>1, <3>3
  <2> HIDE DEF Read
  <2>10. /\ Len(ReadAps(rq)) = n
         /\ DOMAIN ReadAps(rq) = 1 .. n
         /\ \A i \in 1 .. n : ReadAps(rq)[i] = Read(i)
    BY <1>1, <2>5
  <2> QED
    BY <2>9, <2>10 DEF n, rq
<1> QED
  BY <1>3, <1>4

\* What is left out of a message for a cell is unknown or irrelevant.
LEMMA IdRead ==
    ASSUME NEW b \in Beacon, b \in CellBeacon, NEW id \in IdName
    PROVE  LET sent == CellFieldElement(GetCellId(b, id), UNKNOWN[id])
           IN  (IF sent = 0 THEN UNKNOWN[id] ELSE sent - 1)
                 = IF id \in Relevant[b.type] THEN b[id] ELSE UNKNOWN[id]
<1>1. b.type \in CellType /\ ValidIds(b)
  BY DEF Beacon, CellBeacon, CellScan, ValidBeacon, IsAp, CellType
<1>2. id \in {"id1", "id2", "id3", "id4", "id5", "freq", "ta"}
  BY DEF IdName, UNKNOWN
<1>3. b[id] \in Int /\ UNKNOWN[id] \in Int
  BY <1>2 DEF UNKNOWN, CellBeacon, CellScan
<1>4. GetCellId(b, id) = IF id \in Relevant[b.type] THEN b[id] ELSE UNKNOWN[id]
  BY <1>1, <1>2 DEF GetCellId, Relevant, CellType, IdName, UNKNOWN
<1>5. GetCellId(b, id) # UNKNOWN[id] => GetCellId(b, id) # -1
  <2>1. CASE id \notin {"id1", "id2"}
    BY <1>2, <2>1 DEF UNKNOWN
  <2>2. CASE id \in {"id1", "id2"} /\ id \in Relevant[b.type] /\ b[id] # UNKNOWN[id]
    <3>1. /\ id \in DOMAIN IdRange[b.type]
          /\ IdRange[b.type][id][1] >= 0
      <4>1. CASE b.type = "CDMA"
        <5>1. id = "id2"
          BY <2>2, <4>1 DEF Relevant, CellType
        <5> QED
          BY <4>1, <5>1 DEF IdRange
      <4>2. CASE b.type = "LTE"
        BY <2>2, <4>2 DEF IdRange
      <4>3. CASE b.type = "NBIOT"
        BY <2>2, <4>3 DEF IdRange
      <4>4. CASE b.type = "GSM"
        BY <2>2, <4>4 DEF IdRange
      <4>5. CASE b.type = "UMTS"
        BY <2>2, <4>5 DEF IdRange
      <4>6. CASE b.type = "NR"
        BY <2>2, <4>6 DEF IdRange
      <4> QED
        BY <1>1, <4>1, <4>2, <4>3, <4>4, <4>5, <4>6 DEF CellType
    <3>2. b[id] >= IdRange[b.type][id][1]
      BY <1>1, <2>2, <3>1 DEF ValidIds, Known
    <3>3. IdRange[b.type][id][1] \in Int
      BY <1>1, <2>2, <3>1 DEF IdRange, CellType
    <3> DEFINE least == IdRange[b.type][id][1]
               value == b[id]
    <3>4. value \in Int /\ least \in Int /\ least >= 0 /\ value >= least
      BY <1>3, <3>1, <3>2, <3>3
    <3> HIDE DEF least, value
    <3>5. value # -1
      BY <3>4
    <3> QED
      BY <1>4, <2>2, <3>5 DEF value
  <2> QED
    BY <1>4, <2>1, <2>2
<1> QED
  BY <1>3, <1>4, <1>5 DEF CellFieldElement

LEMMA CellsRead ==
    ASSUME NEW list, Good(list), NEW i \in 1 .. Len(list) - ApCount(list)
    PROVE  LET cells == ReadCells(Rq("location", list, NoGnss))
               b == list[ApCount(list) + i]
           IN  /\ cells[i].type = b.type /\ cells[i].connected = b.connected
               /\ cells[i].rssi = b.rssi /\ cells[i].age = b.age
               /\ \A id \in IdName :
                     cells[i].ids[id] = IF id \in Relevant[b.type] THEN b[id] ELSE UNKNOWN[id]
<1> DEFINE cells == CellsOf(list)
           b == list[ApCount(list) + i]
           sent == CellField(b)
           rq == Rq("location", list, NoGnss)
           Read(id) == IF sent.id_plus_1[id] = 0 THEN UNKNOWN[id] ELSE sent.id_plus_1[id] - 1
<1>1. /\ cells[i] = b /\ i \in DOMAIN cells
      /\ b \in CellBeacon /\ b \in Beacon
  BY ListSplit
<1>2. rq.cells = CellFields(cells)
  BY DEF Rq
<1> HIDE DEF cells, rq
<1>3. rq.cells[i] = sent /\ i \in DOMAIN rq.cells
  BY <1>1, <1>2 DEF CellFields
<1> HIDE DEF b
<1>4. /\ sent.type = b.type /\ sent.connected = b.connected /\ sent.age = b.age
      /\ sent.neg_rssi = -b.rssi
      /\ sent.id_plus_1 = [id \in IdName |-> CellFieldElement(GetCellId(b, id), UNKNOWN[id])]
  BY DEF CellField
<1>5. ReadCells(rq)[i] =
        [type |-> sent.type, connected |-> sent.connected, rssi |-> -sent.neg_rssi,
         age |-> sent.age, ids |-> [id \in IdName |-> Read(id)]]
  <2> HIDE DEF sent
  <2> QED
    BY <1>3 DEF ReadCells
<1>6. -(-b.rssi) = b.rssi
  BY <1>1, BeaconFields DEF Fields
<1>7. ASSUME NEW id \in IdName
      PROVE  Read(id) = IF id \in Relevant[b.type] THEN b[id] ELSE UNKNOWN[id]
  <2> HIDE DEF sent
  <2> DEFINE elem == CellFieldElement(GetCellId(b, id), UNKNOWN[id])
  <2>1. sent.id_plus_1[id] = elem
    BY <1>4
  <2>2. (IF elem = 0 THEN UNKNOWN[id] ELSE elem - 1)
          = IF id \in Relevant[b.type] THEN b[id] ELSE UNKNOWN[id]
    BY <1>1, IdRead
  <2> HIDE DEF elem
  <2> QED
    BY <2>1, <2>2
<1> HIDE DEF sent, Read
<1> QED
  BY <1>4, <1>5, <1>6, <1>7 DEF rq, b

\* The encoding loses nothing: the server reads back every AP and every cell
\* with all the values that matter for it, for every list that a request can
\* hold.  It rests on the order of the list, by which the getters find the APs
\* and the cells, and on the ranges of the ids, by which no id but an unknown
\* one is sent as 0.
THEOREM BeaconsRead == Spec => []ServerReadsBeacons
<1>1. BeaconsInv => ServerReadsBeacons
  <2> SUFFICES ASSUME BeaconsInv
               PROVE  ServerReadsBeacons
    OBVIOUS
  <2> DEFINE list == rctx.beacon
             n == ApCount(list)
             rq == Rq("location", list, NoGnss)
             aps == ReadAps(rq)
             cells == ReadCells(rq)
  <2>1. Good(list) /\ rctx.num_ap = n /\ n \in 0 .. Len(list) /\ Len(list) \in Nat
    BY ApsFirst DEF BeaconsInv, Good
  <2>2. /\ Len(aps) = n /\ DOMAIN aps = 1 .. n
        /\ \A i \in 1 .. n :
              aps[i] = [mac |-> MacToInt(list[i].mac), freq |-> list[i].freq,
                        rssi |-> list[i].rssi, age |-> list[i].age,
                        first |-> list[i].connected /\ \A j \in 1 .. i - 1 : ~list[j].connected]
    <3> HIDE DEF list
    <3> QED
      BY <2>1, ApsRead
  <2>3. Len(CellsOf(list)) = Len(list) - n /\ CellsOf(list) \in Seq(Beacon)
    <3> HIDE DEF list
    <3> QED
      BY <2>1, ListSplit
  <2>4. DOMAIN cells = 1 .. Len(list) - n /\ Len(cells) = Len(list) - n
    <3>1. rq.cells = CellFields(CellsOf(list))
      BY DEF Rq
    <3>2. DOMAIN CellFields(CellsOf(list)) = 1 .. Len(list) - n
      BY <2>3 DEF CellFields
    <3>3. DOMAIN cells = 1 .. Len(list) - n
      BY <3>1, <3>2 DEF ReadCells
    <3>4. \E f : cells = [i \in 1 .. Len(list) - n |-> f[i]]
      <4>1. cells = [i \in DOMAIN rq.cells |-> cells[i]]
        BY DEF ReadCells
      <4> HIDE DEF cells, rq
      <4> QED
        BY <4>1, <3>1, <3>2
    <3>5. Len(list) - n \in Nat
      BY <2>1
    <3> HIDE DEF cells, n, list
    <3> QED
      BY <3>3, <3>4, <3>5
  <2>5. ASSUME NEW i \in 1 .. Len(list) - n
        PROVE  LET b == list[n + i]
               IN  /\ cells[i].type = b.type /\ cells[i].connected = b.connected
                   /\ cells[i].rssi = b.rssi /\ cells[i].age = b.age
                   /\ \A id \in IdName :
                         cells[i].ids[id] = IF id \in Relevant[b.type] THEN b[id] ELSE UNKNOWN[id]
    <3> HIDE DEF list
    <3> QED
      BY <2>1, CellsRead
  <2> HIDE DEF aps, cells, rq, n
  <2>6. Len(aps) + Len(cells) = Len(list)
    BY <2>1, <2>2, <2>4
  <2> QED
    BY <2>1, <2>2, <2>4, <2>5, <2>6 DEF ServerReadsBeacons, aps, cells, rq
<1> QED
  BY <1>1, InitBeaconsInv, NextBeaconsInv, PTL DEF Spec

(***************************************************************************)
(* Rounds: places of pairs in a finite set of them.                        *)
(***************************************************************************)

Pair == Nat \X Nat

Before(p, S) == {q \in S : Earlier(q, p)}

\* Each pair has a place of its own, less than the number of pairs.
LEMMA PlaceInRange ==
    ASSUME NEW S \in SUBSET Pair, IsFiniteSet(S), NEW p
    PROVE  /\ Place(p, S) \in Nat /\ Place(p, S) <= Cardinality(S)
           /\ p \in S => Place(p, S) < Cardinality(S)
           /\ Place(p, S) = Cardinality(Before(p, S)) /\ IsFiniteSet(Before(p, S))
<1>1. Before(p, S) \in SUBSET S
  BY DEF Before
<1>2. IsFiniteSet(Before(p, S)) /\ Cardinality(Before(p, S)) <= Cardinality(S)
  BY <1>1, FS_Subset
<1>3. Cardinality(Before(p, S)) \in Nat /\ Cardinality(S) \in Nat
  BY <1>2, FS_CardinalityType
<1>4. ASSUME p \in S
      PROVE  Cardinality(Before(p, S)) # Cardinality(S)
  <2>1. p \in Pair
    BY <1>4
  <2>2. ~Earlier(p, p)
    BY <2>1 DEF Earlier, Pair
  <2>3. Before(p, S) # S
    BY <1>4, <2>2 DEF Before
  <2> QED
    BY <1>1, <2>3, FS_Subset
<1>5. Place(p, S) = Cardinality(Before(p, S))
  BY DEF Place, Before
<1> QED
  BY <1>2, <1>3, <1>4, <1>5

LEMMA PlaceGrows ==
    ASSUME NEW S \in SUBSET Pair, IsFiniteSet(S), NEW q \in S, NEW p \in Pair, Earlier(q, p)
    PROVE  Place(q, S) < Place(p, S)
<1>1. q \in Pair
  OBVIOUS
<1>2. \A r \in Pair : Earlier(r, q) => Earlier(r, p)
  BY <1>1 DEF Earlier, Pair
<1>3. Before(q, S) \in SUBSET Before(p, S)
  BY <1>2 DEF Before
<1>4. ~Earlier(q, q)
  BY <1>1 DEF Earlier, Pair
<1>5. q \in Before(p, S) /\ q \notin Before(q, S)
  BY <1>4 DEF Before
<1>6. /\ Place(q, S) = Cardinality(Before(q, S)) /\ Place(q, S) \in Nat
      /\ Place(p, S) = Cardinality(Before(p, S)) /\ Place(p, S) \in Nat
      /\ IsFiniteSet(Before(p, S))
  BY PlaceInRange
<1>7. /\ Cardinality(Before(q, S)) <= Cardinality(Before(p, S))
      /\ Cardinality(Before(p, S)) = Cardinality(Before(q, S)) => Before(p, S) = Before(q, S)
  BY <1>3, <1>6, FS_Subset
<1> QED
  BY <1>5, <1>6, <1>7

LEMMA EarlierTotal ==
    ASSUME NEW p \in Pair, NEW q \in Pair, p # q
    PROVE  Earlier(p, q) \/ Earlier(q, p)
BY DEF Pair, Earlier

LEMMA PlaceDistinct ==
    ASSUME NEW S \in SUBSET Pair, IsFiniteSet(S), NEW p \in S, NEW q \in S,
           Place(p, S) = Place(q, S)
    PROVE  p = q
<1> SUFFICES ASSUME p # q
             PROVE  FALSE
  OBVIOUS
<1>1. p \in Pair /\ q \in Pair
  OBVIOUS
<1>2. Place(p, S) \in Nat /\ Place(q, S) \in Nat
  BY PlaceInRange
<1>3. CASE Earlier(p, q)
  BY <1>1, <1>2, <1>3, PlaceGrows
<1>4. CASE Earlier(q, p)
  BY <1>1, <1>2, <1>4, PlaceGrows
<1> QED
  BY <1>1, <1>3, <1>4, EarlierTotal

\* As many pairs have a place below m as there are such places.
LEMMA FirstPlaces ==
    ASSUME NEW S \in SUBSET Pair, IsFiniteSet(S), NEW m \in Nat
    PROVE  Cardinality({p \in S : Place(p, S) < m})
             = IF m <= Cardinality(S) THEN m ELSE Cardinality(S)
<1> DEFINE size == Cardinality(S)
           places == 0 .. size - 1
           place == [p \in S |-> Place(p, S)]
           first == {p \in S : Place(p, S) < m}
           number == IF m <= size THEN m ELSE size
           taken == 0 .. number - 1
           firstPlace == [p \in first |-> Place(p, S)]
<1>1. size \in Nat
  BY FS_CardinalityType
<1>2. \A p \in S : Place(p, S) \in Nat /\ Place(p, S) < size
  BY PlaceInRange
<1>3. \A p, q \in S : Place(p, S) = Place(q, S) => p = q
  BY PlaceDistinct
<1> HIDE DEF size
<1>4. place \in Injection(S, places)
  BY <1>1, <1>2, <1>3 DEF Injection, IsInjective
<1>5. IsFiniteSet(places) /\ Cardinality(places) = size
  <2>1. 0 \in Int /\ size - 1 \in Int
    BY <1>1
  <2>2. IsFiniteSet(0 .. size - 1)
        /\ Cardinality(0 .. size - 1) = IF 0 > size - 1 THEN 0 ELSE size - 1 - 0 + 1
    BY <2>1, FS_Interval
  <2> QED
    BY <1>1, <2>2
<1>6. place \in Surjection(S, places)
  <2> HIDE DEF place, places
  <2> QED
    BY <1>4, <1>5, FS_Injection DEF size
<1>7. \A n \in places : \E p \in S : Place(p, S) = n
  BY <1>6 DEF Surjection
<1>8. number \in Nat /\ number <= size /\ number <= m
  BY <1>1
<1>9. firstPlace \in Bijection(first, taken)
  <2>1. firstPlace \in [first -> taken]
    BY <1>1, <1>2
  <2>2. firstPlace \in Injection(first, taken)
    BY <1>3, <2>1 DEF Injection, IsInjective
  <2>3. \A n \in taken : \E p \in first : firstPlace[p] = n
    <3> TAKE n \in taken
    <3>1. n \in places /\ n < m
      BY <1>1
    <3> QED
      BY <1>7, <3>1
  <2>4. firstPlace \in Surjection(first, taken)
    BY <2>1, <2>3 DEF Surjection
  <2> QED
    BY <2>2, <2>4 DEF Bijection
<1>10. IsFiniteSet(first)
  <2>1. first \in SUBSET S
    OBVIOUS
  <2> HIDE DEF first
  <2> QED
    BY <2>1, FS_Subset
<1>11. Cardinality(taken) = Cardinality(first)
  <2> HIDE DEF firstPlace, first, taken
  <2>1. ExistsBijection(first, taken)
    BY <1>9 DEF ExistsBijection
  <2> QED
    BY <1>10, <2>1, FS_Bijection
<1>12. Cardinality(taken) = number
  <2> HIDE DEF number
  <2>1. 0 \in Int /\ number - 1 \in Int
    BY <1>8
  <2>2. Cardinality(0 .. number - 1) = IF 0 > number - 1 THEN 0 ELSE number - 1 - 0 + 1
    BY <2>1, FS_Interval
  <2> QED
    BY <1>8, <2>2
<1> QED
  BY <1>11, <1>12 DEF size

(***************************************************************************)
(* The virtual APs and the APs the server used.                            *)
(***************************************************************************)

LEMMA ChildrenFound ==
    ASSUME NEW n \in Nat, NEW groups \in [1 .. n -> Nat]
    PROVE  /\ ChildrenOf(groups) \in SUBSET Pair /\ IsFiniteSet(ChildrenOf(groups))
           /\ \A p : p \in ChildrenOf(groups) <=>
                        p \in Pair /\ p[2] \in 1 .. n /\ p[1] >= 1 /\ p[1] <= groups[p[2]]
<1> DEFINE Of(i) == (1 .. groups[i]) \X {i}
           families == {Of(i) : i \in 1 .. n}
           family == [i \in 1 .. n |-> Of(i)]
<1>1. ChildrenOf(groups) = UNION families
  BY DEF ChildrenOf
<1>2. \A i \in 1 .. n : IsFiniteSet(Of(i))
  <2> TAKE i \in 1 .. n
  <2>1. groups[i] \in Int /\ 1 \in Int
    OBVIOUS
  <2>2. IsFiniteSet(1 .. groups[i]) /\ IsFiniteSet({i})
    BY <2>1, FS_Interval, FS_Singleton
  <2> QED
    BY <2>2, FS_Product
<1>3. IsFiniteSet(families)
  <2>1. IsFiniteSet(1 .. n)
    BY FS_Interval
  <2>2. family \in Surjection(1 .. n, families)
    <3> HIDE DEF Of
    <3> QED
      BY DEF Surjection
  <2> HIDE DEF family, families
  <2> QED
    BY <2>1, <2>2, FS_Surjection
<1>4. IsFiniteSet(UNION families)
  <2>1. \A T \in families : IsFiniteSet(T)
    BY <1>2
  <2> HIDE DEF families
  <2> QED
    BY <1>3, <2>1, FS_UNION
<1>5. ASSUME NEW p
      PROVE  p \in UNION families <=>
               p \in Pair /\ p[2] \in 1 .. n /\ p[1] >= 1 /\ p[1] <= groups[p[2]]
  <2>1. p \in UNION families <=> \E i \in 1 .. n : p \in Of(i)
    OBVIOUS
  <2>2. ASSUME NEW i \in 1 .. n, p \in Of(i)
        PROVE  p \in Pair /\ p[2] \in 1 .. n /\ p[1] >= 1 /\ p[1] <= groups[p[2]]
    BY <2>2 DEF Pair
  <2>3. ASSUME p \in Pair, p[2] \in 1 .. n, p[1] >= 1, p[1] <= groups[p[2]]
        PROVE  p \in Of(p[2])
    BY <2>3 DEF Pair
  <2> QED
    BY <2>1, <2>2, <2>3
<1>6. UNION families \in SUBSET Pair
  BY <1>5
<1> QED
  BY <1>1, <1>4, <1>5, <1>6

LEMMA GroupsTyped ==
    ASSUME NEW list, Good(list)
    PROVE  Groups(Aps(list)) \in [1 .. ApCount(list) -> Nat]
<1> DEFINE aps == Aps(list)
           n == ApCount(list)
<1>1. /\ aps \in Seq(Beacon) /\ Len(aps) = n
      /\ \A i \in 1 .. n : aps[i] \in ApBeacon
  BY ListSplit
<1> HIDE DEF aps, n
<1>2. DOMAIN aps = 1 .. n
  BY <1>1
<1>3. \A mac \in Mac : Children[mac] \in Nat
  BY WireAssumption DEF Mac
<1>4. \A i \in 1 .. n : aps[i].mac \in Mac
  BY <1>1 DEF ApBeacon
<1>5. Groups(aps) \in [1 .. n -> Nat]
  BY <1>2, <1>3, <1>4 DEF Groups
<1> QED
  BY <1>5 DEF aps, n

\* The bit the client reads for number n is the one the server sets for it.
LEMMA BitRead ==
    ASSUME NEW sent, NEW used, NEW size \in Nat, NEW n \in Nat
    PROVE  UsedAp(ServerUsedBytes(sent, used, size), n)
             <=> n < size * CharBit /\ \E p \in used : Place(p, sent) = n
<1> DEFINE bytes == ServerUsedBytes(sent, used, size)
           bits == {Place(p, sent) : p \in used}
           d == n \div CharBit
           r == n % CharBit
           k == Len(bytes) - d
<1>1. CharBit \in Nat /\ CharBit # 0
  BY WireAssumption
<1>2. d \in Nat /\ r \in 0 .. CharBit - 1 /\ n = d * CharBit + r
  BY <1>1
<1>3. /\ Len(bytes) = size /\ DOMAIN bytes = 1 .. size
      /\ \A j \in 1 .. size :
            bytes[j] = {m \in 0 .. CharBit - 1 : (size - j) * CharBit + m \in bits}
  BY DEF ServerUsedBytes
<1>4. UsedAp(bytes, n) <=> k \in 1 .. size /\ r \in bytes[k]
  BY <1>3 DEF UsedAp
<1> HIDE DEF bytes, bits, d, r
<1>5. k = size - d
  BY <1>3
<1>6. k \in 1 .. size <=> d < size
  BY <1>2, <1>5
<1>7. d < size <=> n < size * CharBit
  <2>1. ASSUME d < size
        PROVE  n < size * CharBit
    <3>1. (d + 1) * CharBit <= size * CharBit
      BY <1>1, <1>2, <2>1
    <3>2. (d + 1) * CharBit = d * CharBit + CharBit
      BY <1>1, <1>2
    <3>3. d * CharBit \in Nat /\ size * CharBit \in Nat
      BY <1>1, <1>2
    <3> QED
      BY <1>1, <1>2, <3>1, <3>2, <3>3
  <2>2. ASSUME ~(d < size)
        PROVE  ~(n < size * CharBit)
    <3>1. d * CharBit >= size * CharBit
      BY <1>1, <1>2, <2>2
    <3>2. d * CharBit \in Nat /\ size * CharBit \in Nat
      BY <1>1, <1>2
    <3> QED
      BY <1>1, <1>2, <3>1, <3>2
  <2> QED
    BY <2>1, <2>2
<1>8. ASSUME k \in 1 .. size
      PROVE  r \in bytes[k] <=> n \in bits
  <2>1. bytes[k] = {m \in 0 .. CharBit - 1 : (size - k) * CharBit + m \in bits}
    BY <1>3, <1>8
  <2>2. size - k = d
    BY <1>2, <1>5
  <2>3. (size - k) * CharBit + r = n
    BY <1>2, <2>2
  <2> QED
    BY <1>2, <2>1, <2>3
<1>9. n \in bits <=> \E p \in used : Place(p, sent) = n
  BY DEF bits
<1>10. UsedAp(bytes, n) <=> n < size * CharBit /\ n \in bits
  BY <1>4, <1>6, <1>7, <1>8
<1> QED
  BY <1>9, <1>10 DEF bytes

\* What the client and the server count, of n APs: the APs, all the children,
\* the APs and children that were sent, and those the client keeps a bit for.
ApSlots(n) == {0} \X (1 .. n)
Sent(n, groups) == ApSlots(n) \cup SelectVap(groups, config.max_vap_per_rq)
Slots(n, groups) == ApSlots(n) \cup {p \in ChildrenOf(groups) : p[1] <= config.max_vap_per_ap}
KnownSlots(n, groups) == {p \in Sent(n, groups) : p[1] <= config.max_vap_per_ap}

LEMMA VapLimits ==
    ASSUME config \in ConfigRecord
    PROVE  config.max_vap_per_ap \in Nat /\ config.max_vap_per_rq \in Nat
BY ConfigAssumption DEF ConfigRecord, OptionName, Built

LEMMA SlotsFound ==
    ASSUME NEW n \in Nat, NEW groups \in [1 .. n -> Nat]
    PROVE  /\ Sent(n, groups) \in SUBSET Pair /\ IsFiniteSet(Sent(n, groups))
           /\ Slots(n, groups) \in SUBSET Pair /\ IsFiniteSet(Slots(n, groups))
<1>1. ApSlots(n) \in SUBSET Pair
  BY DEF ApSlots, Pair
<1>2. IsFiniteSet(ApSlots(n))
  <2>1. IsFiniteSet({0})
    BY FS_Singleton
  <2>2. IsFiniteSet(1 .. n)
    BY FS_Interval
  <2> QED
    BY <2>1, <2>2, FS_Product DEF ApSlots
<1>3. ChildrenOf(groups) \in SUBSET Pair /\ IsFiniteSet(ChildrenOf(groups))
  BY ChildrenFound
<1> DEFINE kept == {p \in ChildrenOf(groups) : p[1] <= config.max_vap_per_ap}
           chosen == SelectVap(groups, config.max_vap_per_rq)
<1>4. kept \in SUBSET ChildrenOf(groups) /\ chosen \in SUBSET ChildrenOf(groups)
  BY DEF SelectVap
<1>5. Sent(n, groups) = ApSlots(n) \cup chosen /\ Slots(n, groups) = ApSlots(n) \cup kept
  BY DEF Sent, Slots
<1> HIDE DEF kept, chosen
<1>6. IsFiniteSet(kept) /\ IsFiniteSet(chosen)
  BY <1>3, <1>4, FS_Subset
<1>7. IsFiniteSet(ApSlots(n) \cup kept) /\ IsFiniteSet(ApSlots(n) \cup chosen)
  BY <1>2, <1>6, FS_Union
<1> QED
  BY <1>1, <1>3, <1>4, <1>5, <1>7

\* Of what both know, the client and the server count the same before it.
LEMMA SamePlace ==
    ASSUME NEW n \in Nat, NEW groups \in [1 .. n -> Nat], config \in ConfigRecord,
           NEW p \in KnownSlots(n, groups)
    PROVE  Place(p, Sent(n, groups)) = Place(p, Slots(n, groups)) /\ p \in Slots(n, groups)
<1> DEFINE all == ChildrenOf(groups)
           sent == Sent(n, groups)
           slots == Slots(n, groups)
           max == config.max_vap_per_rq
           most == config.max_vap_per_ap
<1>1. max \in Nat /\ most \in Nat
  BY VapLimits
<1>2. /\ all \in SUBSET Pair /\ IsFiniteSet(all)
      /\ \A q : q \in all => q[1] >= 1
  BY ChildrenFound
<1>3. /\ \A q : q \in ApSlots(n) => q \in Pair /\ q[1] = 0
      /\ \A q : q \in sent <=> q \in ApSlots(n) \/ (q \in all /\ Place(q, all) < max)
      /\ \A q : q \in slots <=> q \in ApSlots(n) \/ (q \in all /\ q[1] <= most)
  BY DEF ApSlots, Pair, Sent, Slots, SelectVap
<1>4. p \in sent /\ p[1] <= most
  BY DEF KnownSlots
<1> HIDE DEF all, sent, slots, max, most
<1>5. p \in slots /\ p \in Pair /\ (p \in all \/ p[1] = 0)
  BY <1>2, <1>3, <1>4
<1>6. ASSUME NEW q, q \in sent, Earlier(q, p)
      PROVE  q \in slots
  <2>1. q \in Pair
    BY <1>2, <1>3, <1>6
  <2>2. q[1] <= most
    BY <1>1, <1>4, <1>5, <1>6, <2>1 DEF Earlier, Pair
  <2> QED
    BY <1>3, <1>6, <2>2
<1>7. ASSUME NEW q, q \in slots, Earlier(q, p)
      PROVE  q \in sent
  <2>1. CASE q \in ApSlots(n)
    BY <1>3, <2>1
  <2>2. CASE q \in all
    <3>1. q[1] >= 1 /\ q \in Pair
      BY <1>2, <2>2
    <3>2. p[1] # 0
      BY <1>5, <1>7, <3>1 DEF Earlier, Pair
    <3>3. p \in all /\ Place(p, all) < max
      BY <1>3, <1>4, <3>2
    <3>4. Place(q, all) < Place(p, all)
      BY <1>2, <1>5, <1>7, <2>2, PlaceGrows
    <3>5. Place(q, all) \in Nat /\ Place(p, all) \in Nat
      BY <1>2, PlaceInRange
    <3>6. Place(q, all) < max
      BY <1>1, <3>3, <3>4, <3>5
    <3> QED
      BY <1>3, <2>2, <3>6
  <2> QED
    BY <1>3, <1>7, <2>1, <2>2
<1>8. {q \in sent : Earlier(q, p)} = {q \in slots : Earlier(q, p)}
  BY <1>6, <1>7
<1>9. Place(p, sent) = Place(p, slots)
  BY <1>8 DEF Place
<1> QED
  BY <1>5, <1>9 DEF sent, slots

\* A place of a slot that was not sent is the place of nothing that was.
LEMMA NotSentNotUsed ==
    ASSUME NEW n \in Nat, NEW groups \in [1 .. n -> Nat], config \in ConfigRecord,
           NEW p \in Slots(n, groups), p \notin Sent(n, groups),
           NEW q \in Sent(n, groups)
    PROVE  Place(q, Sent(n, groups)) # Place(p, Slots(n, groups))
<1> DEFINE all == ChildrenOf(groups)
           sent == Sent(n, groups)
           slots == Slots(n, groups)
           max == config.max_vap_per_rq
           most == config.max_vap_per_ap
<1>1. max \in Nat /\ most \in Nat
  BY VapLimits
<1>2. all \in SUBSET Pair /\ IsFiniteSet(all)
  BY ChildrenFound
<1>3. /\ p \in all /\ p[1] <= most /\ ~(Place(p, all) < max)
      /\ q \in sent
      /\ q[1] = 0 \/ (q \in all /\ Place(q, all) < max)
  BY DEF ApSlots, Sent, Slots, SelectVap
<1>4. slots \in SUBSET Pair /\ IsFiniteSet(slots) /\ p \in slots /\ p # q
  BY SlotsFound
<1>5. CASE q \in KnownSlots(n, groups)
  <2>1. Place(q, sent) = Place(q, slots) /\ q \in slots
    BY <1>5, SamePlace
  <2> HIDE DEF sent, slots
  <2>2. Place(q, slots) # Place(p, slots)
    BY <1>4, <2>1, PlaceDistinct
  <2> QED
    BY <2>1, <2>2 DEF sent, slots
<1>6. CASE q \notin KnownSlots(n, groups)
  <2>1. ~(q[1] <= most)
    BY <1>3, <1>6 DEF KnownSlots
  <2> HIDE DEF all, sent, slots, max, most
  <2>2. q \in all /\ Place(q, all) < max
    BY <1>1, <1>3, <2>1
  <2>3. Earlier(p, q) /\ q \in Pair
    BY <1>1, <1>2, <1>3, <2>1, <2>2 DEF Earlier, Pair
  <2>4. Place(p, all) < Place(q, all) /\ Place(p, all) \in Nat /\ Place(q, all) \in Nat
    BY <1>2, <1>3, <2>3, PlaceGrows, PlaceInRange
  <2> QED
    BY <1>1, <1>3, <2>2, <2>4
<1> QED
  BY <1>5, <1>6

\* Whatever the server used and however many bytes it sends.
LEMMA UsedMeant ==
    ASSUME NEW list, NEW n \in Nat, DOMAIN list = 1 .. n, Groups(list) \in [1 .. n -> Nat],
           config \in ConfigRecord,
           NEW used \in SUBSET Sent(n, Groups(list)), NEW size \in Nat,
           Cardinality(Sent(n, Groups(list))) <= size * CharBit
    PROVE  LET result == ApplyUsedInfoToAp(list, ServerUsedBytes(Sent(n, Groups(list)), used, size))
               known == KnownSlots(n, Groups(list))
           IN  /\ \A p \in known : p \in DOMAIN result /\ (result[p] <=> p \in used)
               /\ \A p \in DOMAIN result \ known : ~result[p]
<1> DEFINE groups == Groups(list)
           sent == Sent(n, groups)
           slots == Slots(n, groups)
           known == KnownSlots(n, groups)
           bytes == ServerUsedBytes(sent, used, size)
           bits == size * CharBit
           Limit(p) == IF p \in ApSlots(n) THEN bits + 1 ELSE bits - 1
           set == {p \in slots : Place(p, slots) <= Limit(p)}
           result == ApplyUsedInfoToAp(list, bytes)
<1>1. /\ sent \in SUBSET Pair /\ IsFiniteSet(sent)
      /\ slots \in SUBSET Pair /\ IsFiniteSet(slots)
  BY SlotsFound
<1>2. bits \in Nat /\ Cardinality(sent) \in Nat /\ Cardinality(sent) <= bits
  <2>1. CharBit \in Nat
    BY WireAssumption
  <2> QED
    BY <1>1, <2>1, FS_CardinalityType
<1>3. Len(bytes) = size
  BY DEF ServerUsedBytes
<1>4. \A p \in slots : Place(p, slots) \in Nat
  BY <1>1, PlaceInRange
<1>5. \A p \in sent : Place(p, sent) \in Nat /\ Place(p, sent) < Cardinality(sent)
  BY <1>1, PlaceInRange
<1>6. \A p \in known : p \in sent /\ p \in slots /\ Place(p, sent) = Place(p, slots)
  BY SamePlace DEF KnownSlots
<1>7. \A p \in slots, q \in sent : p \notin sent => Place(q, sent) # Place(p, slots)
  BY NotSentNotUsed
<1>8. \A p, q \in sent : Place(p, sent) = Place(q, sent) => p = q
  BY <1>1, PlaceDistinct
<1>9. \A p \in slots : p \in sent => p \in known
  <2>1. \A p \in ApSlots(n) : p[1] <= config.max_vap_per_ap
    BY VapLimits DEF ApSlots
  <2> QED
    BY <2>1 DEF Slots, KnownSlots
<1>10. \A p \in slots : UsedAp(bytes, Place(p, slots))
                          <=> Place(p, slots) < bits /\ \E q \in used : Place(q, sent) = Place(p, slots)
  <2> HIDE DEF slots, sent
  <2> QED
    BY <1>4, BitRead
<1>11. result = [p \in set |-> UsedAp(bytes, Place(p, slots))]
  <2>1. {0} \X DOMAIN list = ApSlots(n)
    BY DEF ApSlots
  <2> HIDE DEF bytes
  <2>2. ApplyUsedInfoToAp(list, bytes) =
          [p \in {p \in slots : Place(p, slots) <= IF p \in ApSlots(n) THEN Len(bytes) * CharBit + 1
                                                   ELSE Len(bytes) * CharBit - 1}
             |-> UsedAp(bytes, Place(p, slots))]
    BY <2>1 DEF ApplyUsedInfoToAp, Slots
  <2> QED
    BY <1>3, <2>2
<1> HIDE DEF groups, sent, slots, known, bytes, bits, result
<1>12. ASSUME NEW p \in known
       PROVE  p \in DOMAIN result /\ (result[p] <=> p \in used)
  <2>1. p \in sent /\ p \in slots /\ Place(p, sent) = Place(p, slots) /\ Place(p, slots) \in Nat
    BY <1>4, <1>6
  <2>2. Place(p, slots) < bits
    BY <1>2, <1>5, <2>1
  <2>3. Place(p, slots) <= Limit(p)
    BY <1>2, <2>1, <2>2
  <2>4. p \in set
    BY <2>1, <2>3
  <2>5. (\E q \in used : Place(q, sent) = Place(p, slots)) <=> p \in used
    BY <1>8, <2>1 DEF sent, groups
  <2>6. UsedAp(bytes, Place(p, slots)) <=> p \in used
    BY <1>10, <2>1, <2>2, <2>5
  <2> HIDE DEF set
  <2> QED
    BY <1>11, <2>4, <2>6
<1>13. ASSUME NEW p \in DOMAIN result \ known
       PROVE  ~result[p]
  <2>1. p \in set /\ p \in slots
    BY <1>11
  <2>2. p \notin sent
    BY <1>9, <1>13, <2>1
  <2>3. ~\E q \in used : Place(q, sent) = Place(p, slots)
    BY <1>7, <2>1, <2>2 DEF sent, groups
  <2>4. ~UsedAp(bytes, Place(p, slots))
    BY <1>10, <2>1, <2>3
  <2> HIDE DEF set
  <2> QED
    BY <1>11, <2>1, <2>4
<1> QED
  BY <1>12, <1>13 DEF result, bytes, sent, groups, known

\* The fewest bytes that hold a bit for each.
LEMMA EnoughBytes ==
    ASSUME NEW number \in Nat,
           NEW size \in {(number + CharBit - 1) \div CharBit, (number + CharBit - 1) \div CharBit + 1}
    PROVE  size \in Nat /\ number <= size * CharBit
<1> DEFINE least == (number + CharBit - 1) \div CharBit
<1>1. CharBit \in Nat /\ CharBit # 0 /\ number + CharBit - 1 \in Nat
  BY WireAssumption
<1>2. /\ least \in Nat /\ (number + CharBit - 1) % CharBit \in 0 .. CharBit - 1
      /\ number + CharBit - 1 = least * CharBit + ((number + CharBit - 1) % CharBit)
  BY <1>1
<1>3. size = least \/ size = least + 1
  OBVIOUS
<1> HIDE DEF least
<1>4. least * CharBit \in Nat /\ (least + 1) * CharBit = least * CharBit + CharBit
  BY <1>1, <1>2
<1>5. number <= least * CharBit
  BY <1>1, <1>2, <1>4
<1> QED
  BY <1>1, <1>2, <1>3, <1>4, <1>5

\* The used bits of an answer reach the APs and children the server means,
\* whatever the limits: the ones both know come first, in the same order, and
\* the client reads 0 for those that were not sent.
THEOREM UsedReachesAp == Spec => []UsedReachesRightAp
<1>1. BeaconsInv /\ ConfigInv => UsedReachesRightAp
  <2> SUFFICES ASSUME BeaconsInv, ConfigInv
               PROVE  UsedReachesRightAp
    OBVIOUS
  <2> DEFINE aps == Aps(rctx.beacon)
             n == ApCount(rctx.beacon)
             groups == Groups(aps)
             sent == ({0} \X DOMAIN aps) \cup SelectVap(Groups(aps), config.max_vap_per_rq)
             number == Cardinality(sent)
             least == (number + CharBit - 1) \div CharBit
             Result(used, size) == ApplyUsedInfoToAp(aps, ServerUsedBytes(sent, used, size))
             known == {p \in sent : p[1] <= config.max_vap_per_ap}
  <2>1. Good(rctx.beacon) /\ n \in Nat /\ config \in ConfigRecord
    BY ApsFirst DEF BeaconsInv, ConfigInv, Good
  <2>2. DOMAIN aps = 1 .. n
    BY <2>1, ListSplit
  <2>3. groups \in [1 .. n -> Nat]
    BY <2>1, GroupsTyped
  <2>4. sent = Sent(n, groups) /\ known = KnownSlots(n, groups)
    BY <2>2 DEF Sent, ApSlots, KnownSlots
  <2>5. number \in Nat
    <3>1. IsFiniteSet(Sent(n, groups))
      BY <2>1, <2>3, SlotsFound
    <3> HIDE DEF sent
    <3> QED
      BY <2>4, <3>1, FS_CardinalityType
  <2>6. ASSUME NEW used \in {{}, sent} \cup {{p} : p \in sent}, NEW size \in {least, least + 1}
        PROVE  /\ \A p \in known : p \in DOMAIN Result(used, size)
                                   /\ (Result(used, size)[p] <=> p \in used)
               /\ \A p \in DOMAIN Result(used, size) \ known : ~Result(used, size)[p]
    <3>1. used \in SUBSET sent
      OBVIOUS
    <3>2. size \in Nat /\ number <= size * CharBit
      <4> HIDE DEF number
      <4> QED
        BY <2>5, EnoughBytes
    <3> HIDE DEF n, aps, sent, known
    <3> QED
      BY <2>1, <2>2, <2>3, <2>4, <3>1, <3>2, UsedMeant
  <2> HIDE DEF aps
  <2>7. \A used \in {{}, sent} \cup {{p} : p \in sent}, size \in {least, least + 1} :
           LET result == Result(used, size)
           IN  /\ \A p \in known : p \in DOMAIN result /\ (result[p] <=> p \in used)
               /\ \A p \in DOMAIN result \ known : ~result[p]
    <3> HIDE DEF sent, known, least, Result
    <3> QED
      BY <2>6
  <2> QED
    BY <2>7, Zenon DEF UsedReachesRightAp, aps
<1> QED
  BY <1>1, InitBeaconsInv, NextBeaconsInv, InitConfigInv, NextConfigInv, PTL DEF Spec

(***************************************************************************)
(* How many virtual APs are sent.                                          *)
(***************************************************************************)

LEMMA SameNumber ==
    ASSUME NEW S, IsFiniteSet(S), NEW T, NEW f \in [S -> T],
           \A x, y \in S : f[x] = f[y] => x = y,
           \A z \in T : \E x \in S : f[x] = z
    PROVE  IsFiniteSet(T) /\ Cardinality(T) = Cardinality(S)
<1>1. f \in Bijection(S, T)
  BY DEF Bijection, Injection, Surjection, IsInjective
<1>2. ExistsBijection(S, T)
  BY <1>1 DEF ExistsBijection
<1> QED
  BY <1>2, FS_Bijection

\* A child is not sent without the ones before it in its group.
LEMMA GroupFilled ==
    ASSUME NEW n \in Nat, NEW groups \in [1 .. n -> Nat], NEW max \in Nat,
           NEW p \in SelectVap(groups, max), NEW v \in 1 .. p[1]
    PROVE  <<v, p[2]>> \in SelectVap(groups, max)
<1> DEFINE all == ChildrenOf(groups)
           q == <<v, p[2]>>
<1>1. /\ all \in SUBSET Pair /\ IsFiniteSet(all)
      /\ \A r : r \in all <=> r \in Pair /\ r[2] \in 1 .. n /\ r[1] >= 1 /\ r[1] <= groups[r[2]]
  BY ChildrenFound
<1>2. p \in all /\ Place(p, all) < max
  BY DEF SelectVap
<1> HIDE DEF all
<1>3. p \in Pair /\ p[2] \in 1 .. n /\ p[1] >= 1 /\ p[1] <= groups[p[2]] /\ groups[p[2]] \in Nat
  BY <1>1, <1>2
<1>4. p[1] \in Nat /\ p = <<p[1], p[2]>>
  BY <1>3 DEF Pair
<1>5. v \in Nat /\ v >= 1 /\ v <= p[1]
  BY <1>4
<1>6. q \in Pair /\ q[1] = v /\ q[2] = p[2]
  BY <1>3, <1>5 DEF Pair
<1>7. q \in all
  BY <1>1, <1>3, <1>4, <1>5, <1>6
<1>8. CASE v = p[1]
  BY <1>4, <1>8
<1>9. CASE v # p[1]
  <2>1. Earlier(q, p)
    BY <1>4, <1>5, <1>6, <1>9 DEF Earlier
  <2> HIDE DEF q
  <2>2. Place(q, all) < Place(p, all) /\ Place(q, all) \in Nat /\ Place(p, all) \in Nat
    BY <1>1, <1>3, <1>7, <2>1, PlaceGrows, PlaceInRange
  <2>3. Place(q, all) < max
    BY <1>2, <2>2
  <2> QED
    BY <1>7, <2>3 DEF SelectVap, all, q
<1> QED
  BY <1>8, <1>9

\* The children that are sent of a group are its first ones.
LEMMA GroupCounted ==
    ASSUME NEW n \in Nat, NEW groups \in [1 .. n -> Nat], NEW max \in Nat, NEW i \in 1 .. n
    PROVE  LET sent == SelectVap(groups, max)
               count == Cardinality({p \in sent : p[2] = i})
           IN  /\ count \in Nat /\ count <= groups[i]
               /\ \A v : <<v, i>> \in sent <=> v \in 1 .. count
<1> DEFINE sent == SelectVap(groups, max)
           own == {p \in sent : p[2] = i}
           numbers == {v \in 0 .. groups[i] : v = 0 \/ <<v, i>> \in sent}
           last == Max(numbers)
<1>1. \A p \in sent : p \in Pair /\ p[1] >= 1 /\ p[1] <= groups[p[2]]
  BY ChildrenFound DEF SelectVap
<1>2. \A p \in sent : \A v \in 1 .. p[1] : <<v, p[2]>> \in sent
  BY GroupFilled
<1> HIDE DEF sent
<1>3. groups[i] \in Nat
  OBVIOUS
<1>4. last \in numbers /\ \A v \in numbers : last >= v
  <2>1. numbers \in SUBSET (0 .. groups[i]) /\ numbers # {}
    <3>1. 0 \in numbers
      BY <1>3
    <3> QED
      BY <3>1
  <2> HIDE DEF numbers
  <2> QED
    BY <1>3, <2>1, GreatestNatural
<1>5. last \in Nat /\ last <= groups[i] /\ (last = 0 \/ <<last, i>> \in sent)
  BY <1>3, <1>4
<1>6. ASSUME NEW v
      PROVE  <<v, i>> \in sent <=> v \in 1 .. last
  <2>1. ASSUME <<v, i>> \in sent
        PROVE  v \in 1 .. last
    <3>1. v \in Nat /\ v >= 1 /\ v <= groups[i]
      BY <1>1, <2>1 DEF Pair
    <3>2. v \in numbers
      BY <1>3, <2>1, <3>1
    <3>3. last >= v
      BY <1>4, <3>2
    <3> HIDE DEF last
    <3> QED
      BY <1>5, <3>1, <3>3
  <2>2. ASSUME v \in 1 .. last
        PROVE  <<v, i>> \in sent
    <3> HIDE DEF last
    <3>1. <<last, i>> \in sent
      BY <1>5, <2>2
    <3> QED
      BY <1>2, <2>2, <3>1
  <2> QED
    BY <2>1, <2>2
<1> HIDE DEF last
<1>7. own = (1 .. last) \X {i}
  <2>1. \A p \in own : p = <<p[1], i>>
    BY <1>1 DEF Pair
  <2>2. \A p \in own : p \in (1 .. last) \X {i}
    BY <1>6, <2>1
  <2>3. \A p \in (1 .. last) \X {i} : p \in own
    BY <1>6
  <2> QED
    BY <2>2, <2>3
<1>8. Cardinality(own) = last
  <2>1. last \in Int /\ 1 \in Int
    BY <1>5
  <2>2. /\ IsFiniteSet(1 .. last)
        /\ Cardinality(1 .. last) = IF 1 > last THEN 0 ELSE last - 1 + 1
    BY <2>1, FS_Interval
  <2>3. IsFiniteSet({i}) /\ Cardinality({i}) = 1
    BY FS_Singleton
  <2>4. Cardinality((1 .. last) \X {i}) = Cardinality(1 .. last) * Cardinality({i})
    BY <2>2, <2>3, FS_Product
  <2>5. Cardinality(1 .. last) = last
    BY <1>5, <2>2
  <2> HIDE DEF own
  <2> QED
    BY <1>5, <1>7, <2>3, <2>4, <2>5
<1> HIDE DEF own
<1> QED
  BY <1>5, <1>6, <1>8 DEF own, sent

\* The groups of which a child is sent are the first ones that have any.
LEMMA GroupsSent ==
    ASSUME NEW n \in Nat, NEW groups \in [1 .. n -> Nat], NEW max \in Nat
    PROVE  LET sent == SelectVap(groups, max)
               some == {i \in 1 .. n : groups[i] > 0}
               chosen == {i \in 1 .. n : \E p \in sent : p[2] = i}
           IN  /\ Cardinality(chosen) = Min({max, Cardinality(some)})
               /\ chosen \in SUBSET some /\ IsFiniteSet(chosen)
<1> DEFINE all == ChildrenOf(groups)
           sent == SelectVap(groups, max)
           some == {i \in 1 .. n : groups[i] > 0}
           chosen == {i \in 1 .. n : \E p \in sent : p[2] = i}
           heads == {<<1, i>> : i \in some}
           first == {p \in heads : Place(p, heads) < max}
           head == [i \in some |-> <<1, i>>]
           firstHead == [i \in chosen |-> <<1, i>>]
<1>1. /\ all \in SUBSET Pair /\ IsFiniteSet(all)
      /\ \A r : r \in all <=> r \in Pair /\ r[2] \in 1 .. n /\ r[1] >= 1 /\ r[1] <= groups[r[2]]
  BY ChildrenFound
<1>2. \A p : p \in sent <=> p \in all /\ Place(p, all) < max
  BY DEF SelectVap
<1>3. \A p \in sent : \A v \in 1 .. p[1] : <<v, p[2]>> \in sent
  BY GroupFilled
<1> HIDE DEF all, sent
<1>4. ASSUME NEW i \in 1 .. n
      PROVE  i \in some <=> <<1, i>> \in all
  <2>1. <<1, i>> \in Pair /\ groups[i] \in Nat
    BY DEF Pair
  <2> QED
    BY <1>1, <2>1
<1>5. ASSUME NEW i \in 1 .. n
      PROVE  i \in chosen <=> <<1, i>> \in sent
  <2>1. ASSUME NEW p \in sent, p[2] = i
        PROVE  <<1, i>> \in sent
    <3>1. 1 \in 1 .. p[1]
      BY <1>1, <1>2 DEF Pair
    <3> QED
      BY <1>3, <2>1, <3>1
  <2> QED
    BY <2>1
<1>6. chosen \in SUBSET some
  BY <1>2, <1>4, <1>5
<1>7. IsFiniteSet(some)
  <2>1. IsFiniteSet(1 .. n)
    BY FS_Interval
  <2>2. some \in SUBSET (1 .. n)
    OBVIOUS
  <2> HIDE DEF some
  <2> QED
    BY <2>1, <2>2, FS_Subset
<1>8. IsFiniteSet(heads) /\ Cardinality(heads) = Cardinality(some)
  <2>1. head \in [some -> heads]
    OBVIOUS
  <2>2. \A i, j \in some : head[i] = head[j] => i = j
    OBVIOUS
  <2>3. \A z \in heads : \E i \in some : head[i] = z
    OBVIOUS
  <2> HIDE DEF head, heads, some
  <2> QED
    BY <1>7, <2>1, <2>2, <2>3, SameNumber
<1>9. heads \in SUBSET Pair
  BY DEF Pair
<1>10. ASSUME NEW i \in some
       PROVE  Place(<<1, i>>, all) = Place(<<1, i>>, heads)
  <2>1. ASSUME NEW q \in all, Earlier(q, <<1, i>>)
        PROVE  q \in heads
    <3>1. q \in Pair /\ q[1] >= 1 /\ q[2] \in 1 .. n /\ q[1] <= groups[q[2]]
      BY <1>1
    <3>2. q[1] = 1
      BY <2>1, <3>1 DEF Earlier, Pair
    <3>3. q = <<1, q[2]>> /\ groups[q[2]] > 0
      BY <3>1, <3>2 DEF Pair
    <3> QED
      BY <3>1, <3>3
  <2>2. \A q \in heads : q \in all
    BY <1>4
  <2> HIDE DEF heads
  <2>3. {q \in all : Earlier(q, <<1, i>>)} = {q \in heads : Earlier(q, <<1, i>>)}
    BY <2>1, <2>2
  <2> QED
    BY <2>3 DEF Place
<1>11. ASSUME NEW i \in 1 .. n
       PROVE  i \in chosen <=> i \in some /\ Place(<<1, i>>, heads) < max
  BY <1>2, <1>4, <1>5, <1>6, <1>10
<1>12. IsFiniteSet(chosen)
  <2> HIDE DEF chosen, some
  <2> QED
    BY <1>6, <1>7, FS_Subset
<1>13. Cardinality(first) = Cardinality(chosen)
  <2>1. \A i \in chosen : i \in some /\ i \in 1 .. n
    BY <1>6
  <2>2. firstHead \in [chosen -> first]
    <3>1. \A i \in chosen : <<1, i>> \in first
      BY <1>11, <2>1
    <3> HIDE DEF first, chosen
    <3> QED
      BY <3>1
  <2>3. \A i, j \in chosen : firstHead[i] = firstHead[j] => i = j
    <3> HIDE DEF chosen
    <3> QED
      OBVIOUS
  <2>4. \A z \in first : \E i \in chosen : firstHead[i] = z
    <3> TAKE z \in first
    <3>1. PICK i \in some : z = <<1, i>>
      OBVIOUS
    <3>2. i \in chosen
      BY <1>11, <3>1
    <3> HIDE DEF chosen
    <3> QED
      BY <3>1, <3>2
  <2> HIDE DEF firstHead, first, chosen
  <2> QED
    BY <1>12, <2>2, <2>3, <2>4, SameNumber
<1>14. Cardinality(first) = IF max <= Cardinality(heads) THEN max ELSE Cardinality(heads)
  <2> HIDE DEF heads
  <2> QED
    BY <1>8, <1>9, FirstPlaces
<1>15. Cardinality(some) \in Nat
  BY <1>7, FS_CardinalityType
<1> HIDE DEF first, heads, chosen, some
<1>16. Min({max, Cardinality(some)}) = IF max <= Cardinality(some) THEN max ELSE Cardinality(some)
  BY <1>15, LesserOfTwo
<1> QED
  BY <1>6, <1>8, <1>12, <1>13, <1>14, <1>16 DEF chosen, some, sent

\* As many children as the limit allows, of as many groups: none is wasted, the
\* limit is never exceeded, and each group that is sent is that of its parent.
THEOREM VapsLimited == Spec => []VapsWithinLimit
<1>1. BeaconsInv /\ ConfigInv => VapsWithinLimit
  <2> SUFFICES ASSUME BeaconsInv, ConfigInv
               PROVE  VapsWithinLimit
    OBVIOUS
  <2> DEFINE aps == Aps(rctx.beacon)
             n == ApCount(rctx.beacon)
             groups == Groups(aps)
             max == config.max_vap_per_rq
             sent == SelectVap(groups, max)
             some == {i \in DOMAIN aps : groups[i] > 0}
             Count(i) == Cardinality({p \in sent : p[2] = i})
             Group(i) == [parent |-> i - 1, children |-> Count(i)]
             chosen == {i \in DOMAIN aps : \E p \in sent : p[2] = i}
             vaps == {Group(i) : i \in chosen}
             children == UNION {(1 .. group.children) \X {group} : group \in vaps}
             child == [p \in sent |-> <<p[1], Group(p[2])>>]
             group == [i \in chosen |-> Group(i)]
  <2>1. Good(rctx.beacon) /\ n \in Nat /\ config \in ConfigRecord
    BY ApsFirst DEF BeaconsInv, ConfigInv, Good
  <2>2. DOMAIN aps = 1 .. n
    BY <2>1, ListSplit
  <2>3. groups \in [1 .. n -> Nat]
    BY <2>1, GroupsTyped
  <2>4. max \in Nat
    BY <2>1, VapLimits
  <2>5. Rq("location", rctx.beacon, NoGnss).vaps = vaps
    <3>1. Rq("location", rctx.beacon, NoGnss).vaps = VapData(aps)
      BY DEF Rq
    <3> HIDE DEF aps
    <3> QED
      BY <3>1 DEF VapData
  <2> HIDE DEF aps, n, groups, max
  <2>6. \A i \in 1 .. n : /\ Count(i) \in Nat /\ Count(i) <= groups[i]
                          /\ \A v : <<v, i>> \in sent <=> v \in 1 .. Count(i)
    BY <2>1, <2>3, <2>4, GroupCounted
  <2>7. /\ Cardinality(chosen) = Min({max, Cardinality(some)})
        /\ chosen \in SUBSET some /\ IsFiniteSet(chosen)
    BY <2>1, <2>2, <2>3, <2>4, GroupsSent
  <2>8. /\ ChildrenOf(groups) \in SUBSET Pair /\ IsFiniteSet(ChildrenOf(groups))
        /\ \A p : p \in ChildrenOf(groups) => p[2] \in 1 .. n
    BY <2>1, <2>3, ChildrenFound
  <2>9. sent \in SUBSET ChildrenOf(groups) /\ IsFiniteSet(sent)
    <3>1. sent \in SUBSET ChildrenOf(groups)
      BY DEF SelectVap
    <3> HIDE DEF sent
    <3> QED
      BY <2>8, <3>1, FS_Subset
  <2>10. Cardinality(sent) = Min({max, Cardinality(ChildrenOf(groups))})
    <3>1. Cardinality(sent) = IF max <= Cardinality(ChildrenOf(groups)) THEN max
                              ELSE Cardinality(ChildrenOf(groups))
      BY <2>4, <2>8, FirstPlaces DEF SelectVap
    <3>2. Cardinality(ChildrenOf(groups)) \in Nat
      BY <2>8, FS_CardinalityType
    <3> QED
      BY <2>4, <3>1, <3>2, LesserOfTwo
  <2>11. \A i \in chosen : i \in 1 .. n
    BY <2>2
  <2>12. \A p \in sent : p \in Pair /\ p = <<p[1], p[2]>> /\ p[2] \in 1 .. n /\ p[2] \in chosen
    BY <2>2, <2>8, <2>9 DEF Pair
  <2> HIDE DEF sent, chosen, Count
  <2>13. \A i, j \in 1 .. n : Group(i) = Group(j) => i = j
    <3> TAKE i, j \in 1 .. n
    <3>1. Group(i) = Group(j) => i - 1 = j - 1
      OBVIOUS
    <3> QED
      BY <3>1
  <2>14. Cardinality(vaps) = Cardinality(chosen)
    <3>1. group \in [chosen -> vaps]
      OBVIOUS
    <3>2. \A i, j \in chosen : group[i] = group[j] => i = j
      BY <2>11, <2>13
    <3>3. \A z \in vaps : \E i \in chosen : group[i] = z
      OBVIOUS
    <3> HIDE DEF group, vaps
    <3> QED
      BY <2>7, <3>1, <3>2, <3>3, SameNumber
  <2>15. Cardinality(children) = Cardinality(sent)
    <3>1. \A z : z \in children <=> \E i \in chosen : z \in (1 .. Count(i)) \X {Group(i)}
      OBVIOUS
    <3> HIDE DEF children, Group
    <3>2. child \in [sent -> children]
      <4>1. ASSUME NEW p \in sent
            PROVE  <<p[1], Group(p[2])>> \in children
        <5>1. p[1] \in 1 .. Count(p[2])
          BY <2>6, <2>12
        <5> QED
          BY <2>12, <3>1, <5>1
      <4> QED
        BY <4>1
    <3>3. \A p, q \in sent : child[p] = child[q] => p = q
      <4> TAKE p, q \in sent
      <4>1. child[p] = <<p[1], Group(p[2])>> /\ child[q] = <<q[1], Group(q[2])>>
        OBVIOUS
      <4>2. child[p] = child[q] => p[1] = q[1] /\ p[2] = q[2]
        BY <2>12, <2>13, <4>1
      <4> QED
        BY <2>12, <4>2
    <3>4. \A z \in children : \E p \in sent : child[p] = z
      <4> TAKE z \in children
      <4>1. PICK i \in chosen : z \in (1 .. Count(i)) \X {Group(i)}
        BY <3>1
      <4>2. PICK v \in 1 .. Count(i) : z = <<v, Group(i)>>
        BY <4>1
      <4>3. <<v, i>> \in sent
        BY <2>6, <2>11
      <4>4. child[<<v, i>>] = z
        BY <4>2, <4>3
      <4> QED
        BY <4>3, <4>4
    <3> HIDE DEF child
    <3> QED
      BY <2>9, <3>2, <3>3, <3>4, SameNumber
  <2>16. \A g \in vaps : g.parent + 1 \in some /\ g.children <= groups[g.parent + 1]
    <3> TAKE g \in vaps
    <3>1. PICK i \in chosen : g = Group(i)
      OBVIOUS
    <3>2. i \in some /\ i \in 1 .. n
      BY <2>7, <2>11
    <3>3. g.parent + 1 = i /\ g.children = Count(i)
      BY <3>1, <3>2
    <3> HIDE DEF some
    <3> QED
      BY <2>6, <3>2, <3>3
  <2>17. \A g, h \in vaps : g.parent = h.parent => g = h
    <3> TAKE g, h \in vaps
    <3>1. PICK i \in chosen, j \in chosen : g = Group(i) /\ h = Group(j)
      OBVIOUS
    <3>2. g.parent = i - 1 /\ h.parent = j - 1
      BY <3>1
    <3> QED
      BY <2>11, <3>1, <3>2
  <2>18. /\ Cardinality(children) = Min({max, Cardinality(ChildrenOf(groups))})
         /\ Cardinality(vaps) = Min({max, Cardinality(some)})
    BY <2>7, <2>10, <2>14, <2>15
  <2> HIDE DEF vaps
  <2> QED
    BY <2>5, <2>16, <2>17, <2>18 DEF VapsWithinLimit, aps, groups, max
<1> QED
  BY <1>1, InitBeaconsInv, NextBeaconsInv, InitConfigInv, NextConfigInv, PTL DEF Spec
==============================================================================
