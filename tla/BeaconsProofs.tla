---------------------------- MODULE BeaconsProofs ----------------------------
(***************************************************************************)
(* Theorems about Beacons, for every set of scans and whatever the         *)
(* configuration becomes: the list of beacons of a request stays in order, *)
(* holds no beacon twice and never forgets a newer scan of a beacon; what  *)
(* is given up when there are too many is what the code means to give up;  *)
(* and, whatever limits are accepted, the list implements BeaconList.      *)
(***************************************************************************)
EXTENDS Beacons, ApPluginProofs

(***************************************************************************)
(* What a list holds.                                                      *)
(***************************************************************************)

Mac == {s.mac : s \in {s \in Scan : IsAp(s)}}

ApBeacon ==
    [type : {"AP"}, mac : Mac, freq : Int, rssi : Int, connected : BOOLEAN,
     age : Nat, used : BOOLEAN]

CellBeacon == {b \in CellScan : b.age \in Nat}

\* The beacons that scans become.
Beacon == {b \in ApBeacon \cup CellBeacon : ValidBeacon(b) /\ Corrected(b) = b}

Kind == {"AP"} \cup CellType

Fields(b) == b.type \in Kind /\ b.rssi \in Int /\ b.age \in Nat

LEMMA BeaconFields ==
    ASSUME NEW b \in Beacon
    PROVE  Fields(b)
<1>1. CASE b \in ApBeacon
  BY <1>1 DEF ApBeacon, Fields, Kind
<1>2. CASE b \in CellBeacon
  BY <1>2 DEF CellBeacon, CellScan, Fields, Kind
<1> QED
  BY <1>1, <1>2 DEF Beacon

LEMMA KindOfBeacon ==
    ASSUME NEW b \in Beacon
    PROVE  IF IsAp(b) THEN b \in ApBeacon ELSE b \in CellBeacon /\ IsCell(b)
<1>1. CASE b \in ApBeacon
  BY <1>1 DEF ApBeacon, IsAp
<1>2. CASE b \in CellBeacon
  BY <1>2 DEF CellBeacon, CellScan, IsAp, IsCell, CellType
<1> QED
  BY <1>1, <1>2 DEF Beacon

LEMMA MacsAlike ==
    \E len \in Nat : \A m \in Mac : m \in [1 .. len -> 0 .. 15]
<1>1. ASSUME NEW s \in Scan, NEW t \in Scan, IsAp(s), IsAp(t)
      PROVE  s.mac \in [1 .. Len(t.mac) -> 0 .. 15] /\ Len(t.mac) \in Nat
  <2>1. s.mac \in Seq(0 .. 15) /\ t.mac \in Seq(0 .. 15)
    BY <1>1, ScanAssumption DEF ApScan, CellScan, CellType, IsAp
  <2>2. Len(s.mac) = Len(t.mac)
    BY <1>1, ScanAssumption
  <2> QED
    BY <2>1, <2>2
<1>2. CASE \E t \in Scan : IsAp(t)
  <2>1. PICK t \in Scan : IsAp(t)
    BY <1>2
  <2>2. \A m \in Mac : m \in [1 .. Len(t.mac) -> 0 .. 15]
    BY <1>1, <2>1 DEF Mac
  <2> QED
    BY <1>1, <2>1, <2>2
<1>3. CASE ~\E t \in Scan : IsAp(t)
  <2>1. Mac = {}
    BY <1>3 DEF Mac
  <2> QED
    BY <2>1
<1> QED
  BY <1>2, <1>3

\* A scan that is accepted is kept as a beacon.
LEMMA ScannedAp ==
    ASSUME NEW scan \in Scan, IsAp(scan), ValidBeacon(scan), NEW age \in Nat
    PROVE  Scanned(scan, age) \in Beacon /\ Scanned(scan, age).age = age
<1> DEFINE rssi == IF scan.rssi \in RssiRange["AP"] THEN scan.rssi ELSE UNKNOWN_RSSI
           freq == IF scan.freq \in 2400 .. 6000 THEN scan.freq ELSE UNKNOWN_FREQ
           used == scan.mac \in cached
           b == [type |-> "AP", mac |-> scan.mac, freq |-> freq, rssi |-> rssi,
                 connected |-> scan.connected, age |-> age, used |-> used]
<1>1. scan \in ApScan
  BY ScanAssumption DEF CellScan, CellType, IsAp
<1>2. scan = [type |-> "AP", mac |-> scan.mac, freq |-> scan.freq, rssi |-> scan.rssi,
              connected |-> scan.connected, age |-> scan.age, used |-> scan.used]
  BY <1>1 DEF ApScan
<1>3. Corrected(scan) = [type |-> "AP", mac |-> scan.mac, freq |-> freq, rssi |-> rssi,
                         connected |-> scan.connected, age |-> scan.age, used |-> scan.used]
  <2>1. Corrected(scan) = [scan EXCEPT !.rssi = rssi, !.freq = freq]
    BY DEF Corrected, IsAp
  <2> DEFINE c == [scan EXCEPT !.rssi = rssi]
  <2>2. c = [type |-> "AP", mac |-> scan.mac, freq |-> scan.freq, rssi |-> rssi,
             connected |-> scan.connected, age |-> scan.age, used |-> scan.used]
    <3> HIDE DEF freq, rssi
    <3> QED
      BY <1>2
  <2>3. Corrected(scan) = [c EXCEPT !.freq = freq]
    BY <2>1
  <2> HIDE DEF freq, rssi, c
  <2> QED
    BY <2>2, <2>3
<1>4. Scanned(scan, age) = b
  <2> DEFINE c == [Corrected(scan) EXCEPT !.age = age]
  <2>1. c = [type |-> "AP", mac |-> scan.mac, freq |-> freq, rssi |-> rssi,
             connected |-> scan.connected, age |-> age, used |-> scan.used]
    <3> HIDE DEF freq, rssi
    <3> QED
      BY <1>3
  <2>2. Scanned(scan, age) = IF IsAp(c) THEN [c EXCEPT !.used = c.mac \in cached] ELSE c
    BY DEF Scanned
  <2> HIDE DEF c, freq, rssi
  <2>3. IsAp(c) /\ (c.mac \in cached) = used
    BY <2>1 DEF IsAp
  <2>4. Scanned(scan, age) = [c EXCEPT !.used = used]
    <3> HIDE DEF used
    <3> QED
      BY <2>2, <2>3
  <2> HIDE DEF used
  <2> QED
    BY <2>1, <2>4
<1>5. rssi \in Int /\ freq \in Int /\ scan.mac \in Mac /\ scan.connected \in BOOLEAN
  BY <1>1 DEF ApScan, UNKNOWN_RSSI, UNKNOWN_FREQ, Mac
<1>6. used \in BOOLEAN
  OBVIOUS
<1>7. b \in ApBeacon
  <2> HIDE DEF freq, rssi, used
  <2> QED
    BY <1>5, <1>6 DEF ApBeacon
<1>8. ValidBeacon(b)
  BY DEF ValidBeacon, IsAp
<1>9. Corrected(b) = b
  <2>1. /\ rssi \notin RssiRange["AP"] => rssi = UNKNOWN_RSSI
        /\ freq \notin 2400 .. 6000 => freq = UNKNOWN_FREQ
    OBVIOUS
  <2>2. b.type = "AP" /\ b.rssi = rssi /\ b.freq = freq
    OBVIOUS
  <2> DEFINE r == IF b.rssi \in RssiRange[b.type] THEN b.rssi ELSE UNKNOWN_RSSI
             f == IF b.freq \in 2400 .. 6000 THEN b.freq ELSE UNKNOWN_FREQ
             c == [b EXCEPT !.rssi = r]
  <2>3. Corrected(b) = [c EXCEPT !.freq = f]
    BY DEF Corrected, IsAp
  <2>4. r = rssi /\ f = freq
    <3> HIDE DEF freq, rssi, b
    <3> QED
      BY <2>1, <2>2
  <2>5. c = b
    <3> HIDE DEF r, freq, rssi, used
    <3> QED
      BY <2>4
  <2> HIDE DEF c, f
  <2>6. [c EXCEPT !.freq = freq] = b
    <3> HIDE DEF freq, rssi, used
    <3> QED
      BY <2>5
  <2> HIDE DEF b
  <2> QED
    BY <2>3, <2>4, <2>6
<1> HIDE DEF b
<1>10. b.age = age
  BY DEF b
<1> QED
  BY <1>4, <1>7, <1>8, <1>9, <1>10 DEF Beacon

LEMMA ScannedCell ==
    ASSUME NEW scan \in Scan, ~IsAp(scan), ValidBeacon(scan), NEW age \in Nat
    PROVE  Scanned(scan, age) \in Beacon /\ Scanned(scan, age).age = age
<1> DEFINE rssi == IF scan.rssi \in RssiRange[scan.type] THEN scan.rssi ELSE UNKNOWN_RSSI
           connected == IF IsNmr(scan) THEN FALSE ELSE scan.connected
           ta == IF IsNmr(scan) THEN UNKNOWN.ta ELSE scan.ta
           b == [type |-> scan.type, id1 |-> scan.id1, id2 |-> scan.id2, id3 |-> scan.id3,
                 id4 |-> scan.id4, id5 |-> scan.id5, freq |-> scan.freq, ta |-> ta,
                 rssi |-> rssi, connected |-> connected, age |-> age]
<1>1. scan \in CellScan
  BY ScanAssumption DEF ApScan, IsAp
<1>2. scan = [type |-> scan.type, id1 |-> scan.id1, id2 |-> scan.id2, id3 |-> scan.id3,
              id4 |-> scan.id4, id5 |-> scan.id5, freq |-> scan.freq, ta |-> scan.ta,
              rssi |-> scan.rssi, connected |-> scan.connected, age |-> scan.age]
  BY <1>1 DEF CellScan
<1>3. Corrected(scan) =
        [type |-> scan.type, id1 |-> scan.id1, id2 |-> scan.id2, id3 |-> scan.id3,
         id4 |-> scan.id4, id5 |-> scan.id5, freq |-> scan.freq, ta |-> ta,
         rssi |-> rssi, connected |-> connected, age |-> scan.age]
  <2>1. CASE IsNmr(scan)
    <3>1. Corrected(scan) = [scan EXCEPT !.rssi = rssi, !.connected = FALSE, !.ta = UNKNOWN.ta]
      BY <2>1 DEF Corrected
    <3> HIDE DEF rssi
    <3> QED
      BY <1>2, <2>1, <3>1
  <2>2. CASE ~IsNmr(scan)
    <3>1. Corrected(scan) = [scan EXCEPT !.rssi = rssi]
      BY <2>2 DEF Corrected
    <3> HIDE DEF rssi
    <3> QED
      BY <1>2, <2>2, <3>1
  <2> QED
    BY <2>1, <2>2
<1>4. Scanned(scan, age) = b
  <2> HIDE DEF ta, rssi, connected
  <2> QED
    BY <1>3 DEF Scanned, IsAp
<1>5. /\ scan.type \in CellType /\ scan.connected \in BOOLEAN
      /\ scan.id1 \in Int /\ scan.id2 \in Int /\ scan.id3 \in Int /\ scan.id4 \in Int
      /\ scan.id5 \in Int /\ scan.freq \in Int /\ scan.ta \in Int /\ scan.rssi \in Int
  BY <1>1 DEF CellScan
<1>6. rssi \in Int /\ ta \in Int /\ connected \in BOOLEAN
  <2>1. rssi \in Int /\ ta \in Int
    BY <1>5 DEF UNKNOWN_RSSI, UNKNOWN
  <2>2. connected \in BOOLEAN
    BY <1>5, Zenon
  <2> QED
    BY <2>1, <2>2
<1>7. b \in CellBeacon
  <2> HIDE DEF ta, rssi, connected
  <2> QED
    BY <1>5, <1>6 DEF CellBeacon, CellScan
<1>8. \A id \in IdName \ {"ta"} : b[id] = scan[id]
  BY DEF IdName, UNKNOWN
<1>9. b.ta \in {scan.ta, UNKNOWN.ta} /\ b.type = scan.type
  OBVIOUS
<1>10. IsNmr(b) <=> IsNmr(scan)
  BY DEF IsNmr, IsCell
<1>11. ~IsAp(b) /\ IsCell(scan)
  BY <1>5 DEF IsAp, IsCell
<1>12. Corrected(b) = b
  <2>1. /\ rssi \notin RssiRange[scan.type] => rssi = UNKNOWN_RSSI
        /\ IsNmr(scan) => connected = FALSE /\ ta = UNKNOWN.ta
    OBVIOUS
  <2> HIDE DEF ta, rssi, connected
  <2>2. CASE IsNmr(scan)
    BY <2>1, <2>2, <1>10, <1>11 DEF Corrected
  <2>3. CASE ~IsNmr(scan)
    BY <2>1, <2>3, <1>10, <1>11 DEF Corrected
  <2> QED
    BY <2>2, <2>3
<1>13. ValidBeacon(b)
  <2> HIDE DEF b
  <2>1. ValidIds(scan) /\ (ValidIds(b) => ValidBeacon(b))
    BY <1>11 DEF ValidBeacon
  <2>2. Known(b) \subseteq Known(scan) /\ Known(scan) \ {"ta"} = Known(b) \ {"ta"}
    BY <1>8, <1>9 DEF Known
  <2>3. "ta" \notin PrimaryIds(b.type)
    BY DEF PrimaryIds
  <2>4. PrimaryIds(b.type) \cap Known(b) = PrimaryIds(scan.type) \cap Known(scan)
    BY <2>2, <2>3, <1>9
  <2>5. \A id \in Known(b) : b[id] = scan[id]
    BY <1>8, <1>9 DEF Known
  <2> QED
    BY <2>1, <2>2, <2>3, <2>4, <2>5, <1>9 DEF ValidIds
<1>14. b.age = age
  OBVIOUS
<1> HIDE DEF b
<1> QED
  BY <1>4, <1>7, <1>12, <1>13, <1>14 DEF Beacon

LEMMA ScannedBeacon ==
    ASSUME NEW scan \in Scan, ValidBeacon(scan), NEW age \in Nat
    PROVE  Scanned(scan, age) \in Beacon /\ Scanned(scan, age).age = age
BY ScannedAp, ScannedCell

(***************************************************************************)
(* Equality is an equivalence.                                             *)
(***************************************************************************)

LEMMA CellEqualEuclidean ==
    ASSUME NEW a, NEW b, NEW c, CellEqual(a, b), CellEqual(a, c)
    PROVE  CellEqual(b, c)
<1> DEFINE ids == PrimaryIds(a.type)
<1>1. a.type = b.type /\ a.type = c.type
  BY DEF CellEqual
<1>2. SameIds(a, b, ids) /\ SameIds(a, c, ids)
  BY DEF CellEqual
<1>3. SameIds(b, c, ids)
  BY <1>2 DEF SameIds
<1>4. CASE ids \subseteq Known(a)
  <2>1. ids \subseteq Known(b)
    BY <1>2, <1>4 DEF SameIds, Known
  <2> QED
    BY <1>1, <1>3, <2>1 DEF CellEqual
<1>5. CASE ~(ids \subseteq Known(a))
  <2>1. /\ a.type \notin {"CDMA", "GSM"}
        /\ SameIds(a, b, {"id5", "freq"}) /\ SameIds(a, c, {"id5", "freq"})
    BY <1>5 DEF CellEqual
  <2>2. SameIds(b, c, {"id5", "freq"})
    BY <2>1 DEF SameIds
  <2> QED
    BY <1>1, <1>3, <2>1, <2>2 DEF CellEqual
<1> QED
  BY <1>4, <1>5

LEMMA CellEqualSymmetric ==
    ASSUME NEW a, NEW b, CellEqual(a, b)
    PROVE  CellEqual(b, a)
<1> DEFINE ids == PrimaryIds(a.type)
<1>1. a.type = b.type /\ SameIds(a, b, ids) /\ SameIds(b, a, ids)
  BY DEF CellEqual, SameIds
<1>2. CASE ids \subseteq Known(a)
  <2>1. ids \subseteq Known(b)
    BY <1>1, <1>2 DEF SameIds, Known
  <2> QED
    BY <1>1, <2>1 DEF CellEqual
<1>3. CASE ~(ids \subseteq Known(a))
  <2>1. a.type \notin {"CDMA", "GSM"} /\ SameIds(b, a, {"id5", "freq"})
    BY <1>3 DEF CellEqual, SameIds
  <2> QED
    BY <1>1, <2>1 DEF CellEqual
<1> QED
  BY <1>2, <1>3

LEMMA EqualEuclidean ==
    ASSUME NEW a, NEW b, NEW c, Equal(a, b), Equal(a, c)
    PROVE  Equal(b, c)
<1>1. ~(IsAp(a) /\ IsCell(a))
  BY DEF IsAp, IsCell, CellType
<1> QED
  BY <1>1, CellEqualEuclidean DEF Equal, ApEqual

LEMMA EqualSymmetric ==
    ASSUME NEW a, NEW b, Equal(a, b)
    PROVE  Equal(b, a)
BY CellEqualSymmetric DEF Equal, ApEqual

(***************************************************************************)
(* Inserting into and removing from a list.                                *)
(***************************************************************************)

\* One more element, at i.
Inserted(new, list, i, b) ==
    /\ new \in Seq(Beacon) /\ Len(new) = Len(list) + 1
    /\ i \in 1 .. Len(list) + 1
    /\ new[i] = b
    /\ \A j \in 1 .. i - 1 : new[j] = list[j]
    /\ \A j \in i .. Len(list) : new[j + 1] = list[j]

\* One element less, the one at i.
Removed(new, list, i) ==
    /\ new \in Seq(Beacon) /\ Len(new) = Len(list) - 1
    /\ i \in 1 .. Len(list)
    /\ \A j \in 1 .. i - 1 : new[j] = list[j]
    /\ \A j \in i .. Len(list) - 1 : new[j] = list[j + 1]

LEMMA InsertAtInserted ==
    ASSUME NEW list \in Seq(Beacon), NEW b \in Beacon, NEW i \in 1 .. Len(list) + 1
    PROVE  Inserted(InsertAt(list, i, b), list, i, b)
<1> DEFINE front == SubSeq(list, 1, i - 1)
           back == SubSeq(list, i, Len(list))
<1>1. /\ front \in Seq(Beacon) /\ Len(front) = i - 1
      /\ \A j \in 1 .. i - 1 : front[j] = list[j]
  OBVIOUS
<1>2. /\ back \in Seq(Beacon) /\ Len(back) = Len(list) - i + 1
      /\ \A j \in 1 .. Len(list) - i + 1 : back[j] = list[i + j - 1]
  OBVIOUS
<1>3. InsertAt(list, i, b) = front \o <<b>> \o back
  BY DEF InsertAt
<1> HIDE DEF front, back
<1>4. front \o <<b>> \o back \in Seq(Beacon) /\ Len(front \o <<b>> \o back) = Len(list) + 1
  BY <1>1, <1>2
<1>5. (front \o <<b>> \o back)[i] = b
  BY <1>1, <1>2
<1>6. \A j \in 1 .. i - 1 : (front \o <<b>> \o back)[j] = list[j]
  BY <1>1, <1>2
<1>7. \A j \in i .. Len(list) : (front \o <<b>> \o back)[j + 1] = list[j]
  <2> TAKE j \in i .. Len(list)
  <2>1. (front \o <<b>> \o back)[j + 1] = back[j + 1 - i]
    BY <1>1, <1>2
  <2>2. j + 1 - i \in 1 .. Len(list) - i + 1 /\ i + (j + 1 - i) - 1 = j
    OBVIOUS
  <2> QED
    BY <2>1, <2>2, <1>2
<1> QED
  BY <1>3, <1>4, <1>5, <1>6, <1>7 DEF Inserted

LEMMA RemoveAtRemoved ==
    ASSUME NEW list \in Seq(Beacon), NEW i \in 1 .. Len(list)
    PROVE  Removed(RemoveAt(list, i), list, i)
<1> DEFINE front == SubSeq(list, 1, i - 1)
           back == SubSeq(list, i + 1, Len(list))
<1>1. /\ front \in Seq(Beacon) /\ Len(front) = i - 1
      /\ \A j \in 1 .. i - 1 : front[j] = list[j]
  OBVIOUS
<1>2. /\ back \in Seq(Beacon) /\ Len(back) = Len(list) - i
      /\ \A j \in 1 .. Len(list) - i : back[j] = list[i + j]
  OBVIOUS
<1>3. RemoveAt(list, i) = front \o back
  BY DEF RemoveAt
<1> HIDE DEF front, back
<1>4. front \o back \in Seq(Beacon) /\ Len(front \o back) = Len(list) - 1
  BY <1>1, <1>2
<1>5. \A j \in 1 .. i - 1 : (front \o back)[j] = list[j]
  BY <1>1, <1>2
<1>6. \A j \in i .. Len(list) - 1 : (front \o back)[j] = list[j + 1]
  <2> TAKE j \in i .. Len(list) - 1
  <2>1. (front \o back)[j] = back[j - i + 1]
    BY <1>1, <1>2
  <2> QED
    BY <2>1, <1>2
<1> QED
  BY <1>3, <1>4, <1>5, <1>6 DEF Removed

(***************************************************************************)
(* The order of a list.                                                    *)
(***************************************************************************)

\* a may stand before b.
NotAfter(a, b) ==
    /\ IsAp(b) => IsAp(a)
    /\ IsAp(a) /\ IsAp(b) => EffectiveRssi(a) >= EffectiveRssi(b)
    /\ IsCell(a) /\ IsCell(b) => CellFirst(a, b)

LEMMA RankFields ==
    ASSUME NEW b, Fields(b)
    PROVE  /\ EffectiveRssi(b) \in Int /\ CellPriority(b) \in Int
           /\ IsAp(b) <=> ~IsCell(b)
           /\ IsCell(b) => TypeRank[b.type] \in 3 .. 8
           /\ IsAp(b) => TypeRank[b.type] = 1
<1>1. EffectiveRssi(b) \in Int
  BY DEF EffectiveRssi, Fields
<1>2. CellPriority(b) \in Int
  BY DEF CellPriority, CONNECTED, NON_NMR
<1>3. IsAp(b) <=> ~IsCell(b)
  BY DEF Fields, Kind, IsAp, IsCell, CellType
<1>4. IsCell(b) => TypeRank[b.type] \in 3 .. 8
  BY DEF IsCell, CellType, TypeRank
<1>5. IsAp(b) => TypeRank[b.type] = 1
  BY DEF IsAp, TypeRank
<1> QED
  BY <1>1, <1>2, <1>3, <1>4, <1>5

LEMMA CellFirstTransitive ==
    ASSUME NEW a, NEW b, NEW c, Fields(a), Fields(b), Fields(c),
           IsCell(a), IsCell(b), IsCell(c), CellFirst(a, b), CellFirst(b, c)
    PROVE  CellFirst(a, c)
<1>1. /\ {CellPriority(a), CellPriority(b), CellPriority(c)} \subseteq Int
      /\ {EffectiveRssi(a), EffectiveRssi(b), EffectiveRssi(c)} \subseteq Int
      /\ {TypeRank[a.type], TypeRank[b.type], TypeRank[c.type]} \subseteq Int
      /\ {a.age, b.age, c.age} \subseteq Int
  BY RankFields DEF Fields
<1> QED
  BY <1>1 DEF CellFirst

LEMMA NotAfterTransitive ==
    ASSUME NEW a, NEW b, NEW c, Fields(a), Fields(b), Fields(c), NotAfter(a, b), NotAfter(b, c)
    PROVE  NotAfter(a, c)
<1>1. /\ {EffectiveRssi(a), EffectiveRssi(b), EffectiveRssi(c)} \subseteq Int
      /\ IsAp(a) <=> ~IsCell(a)
      /\ IsAp(b) <=> ~IsCell(b)
      /\ IsAp(c) <=> ~IsCell(c)
  BY RankFields
<1> QED
  BY <1>1, CellFirstTransitive DEF NotAfter

\* is_beacon_first() decides for one of two beacons.
LEMMA CellFirstTotal ==
    ASSUME NEW a, NEW b, Fields(a), Fields(b), IsCell(a), IsCell(b), ~CellFirst(a, b)
    PROVE  CellFirst(b, a)
<1>1. /\ {CellPriority(a), CellPriority(b)} \subseteq Int
      /\ {EffectiveRssi(a), EffectiveRssi(b)} \subseteq Int
      /\ {TypeRank[a.type], TypeRank[b.type]} \subseteq Int
      /\ {a.age, b.age} \subseteq Int
      /\ a.type # b.type => TypeRank[a.type] # TypeRank[b.type]
  BY RankFields DEF Fields, IsCell, CellType, TypeRank
<1> QED
  BY <1>1 DEF CellFirst

LEMMA BeaconFirstDecides ==
    ASSUME NEW b, NEW x, Fields(b), Fields(x)
    PROVE  /\ IsBeaconFirst(b, x) => NotAfter(b, x)
           /\ ~IsBeaconFirst(b, x) => NotAfter(x, b)
<1>1. /\ {EffectiveRssi(b), EffectiveRssi(x)} \subseteq Int
      /\ IsAp(b) <=> ~IsCell(b)
      /\ IsAp(x) <=> ~IsCell(x)
      /\ IsCell(b) => TypeRank[b.type] \in 3 .. 8
      /\ IsCell(x) => TypeRank[x.type] \in 3 .. 8
      /\ IsAp(b) => TypeRank[b.type] = 1
      /\ IsAp(x) => TypeRank[x.type] = 1
  BY RankFields
<1>2. CASE IsAp(b) /\ IsAp(x)
  <2>1. b.rssi = x.rssi => EffectiveRssi(b) = EffectiveRssi(x)
    BY DEF EffectiveRssi
  <2> QED
    BY <1>1, <1>2, <2>1 DEF IsBeaconFirst, ApFirst, NotAfter
<1>3. CASE IsCell(b) /\ IsCell(x)
  BY <1>1, <1>3, CellFirstTotal DEF IsBeaconFirst, NotAfter
<1>4. CASE IsAp(b) /\ IsCell(x)
  BY <1>1, <1>4 DEF IsBeaconFirst, NotAfter
<1>5. CASE IsCell(b) /\ IsAp(x)
  BY <1>1, <1>5 DEF IsBeaconFirst, NotAfter
<1> QED
  BY <1>1, <1>2, <1>3, <1>4, <1>5

(***************************************************************************)
(* Good lists: in order and without duplicates.                            *)
(***************************************************************************)

Sorted(list) == \A i, j \in 1 .. Len(list) : i < j => NotAfter(list[i], list[j])

Distinct(list) == \A i, j \in 1 .. Len(list) : i # j => ~Equal(list[i], list[j])

Good(list) == list \in Seq(Beacon) /\ Sorted(list) /\ Distinct(list)

LEMMA RemovedGood ==
    ASSUME NEW list, Good(list), NEW i, NEW new, Removed(new, list, i)
    PROVE  /\ Good(new)
           /\ \A p \in 1 .. Len(new) : \E q \in 1 .. Len(list) : q # i /\ new[p] = list[q]
<1> DEFINE old(p) == IF p < i THEN p ELSE p + 1
<1>1. Len(list) \in Nat /\ i \in 1 .. Len(list) /\ Len(new) = Len(list) - 1
  BY DEF Good, Removed
<1>2. \A p \in 1 .. Len(new) : old(p) \in 1 .. Len(list) /\ old(p) # i /\ new[p] = list[old(p)]
  BY <1>1 DEF Removed
<1>3. \A p, q \in 1 .. Len(new) : (p < q => old(p) < old(q)) /\ (p # q => old(p) # old(q))
  BY <1>1
<1> HIDE DEF old
<1>4. Sorted(new) /\ Distinct(new)
  BY <1>2, <1>3 DEF Good, Sorted, Distinct
<1> QED
  BY <1>2, <1>4 DEF Good, Removed

LEMMA RemoveBeaconGood ==
    ASSUME NEW list, Good(list), NEW i
    PROVE  /\ Good(RemoveBeacon(list, i))
           /\ \A p \in 1 .. Len(RemoveBeacon(list, i)) :
                \E q \in 1 .. Len(list) : RemoveBeacon(list, i)[p] = list[q]
<1>1. DOMAIN list = 1 .. Len(list) /\ list \in Seq(Beacon)
  BY DEF Good
<1>2. CASE i \in 1 .. Len(list)
  <2>1. Removed(RemoveAt(list, i), list, i)
    BY <1>1, <1>2, RemoveAtRemoved
  <2>2. RemoveBeacon(list, i) = RemoveAt(list, i)
    BY <1>1, <1>2 DEF RemoveBeacon
  <2> QED
    BY <2>1, <2>2, RemovedGood
<1>3. CASE i \notin 1 .. Len(list)
  BY <1>1, <1>3 DEF RemoveBeacon
<1> QED
  BY <1>2, <1>3

\* A beacon goes before the first one it is not after.
LEMMA InsertPlace ==
    ASSUME NEW list \in Seq(Beacon), NEW b \in Beacon
    PROVE  \E i \in 1 .. Len(list) + 1 :
              /\ Inserted(Insert(b, list), list, i, b)
              /\ \A j \in 1 .. i - 1 : ~IsBeaconFirst(b, list[j])
              /\ i <= Len(list) => IsBeaconFirst(b, list[i])
<1> DEFINE first == {j \in DOMAIN list : IsBeaconFirst(b, list[j])} \cup {Len(list) + 1}
           place == Min(first)
<1>1. first \in SUBSET Nat /\ first # {} /\ first \subseteq 1 .. Len(list) + 1
  OBVIOUS
<1>2. place \in first /\ \A j \in first : place <= j
  <2> HIDE DEF first
  <2> QED
    BY <1>1, LeastNatural
<1>3. place \in 1 .. Len(list) + 1
  BY <1>1, <1>2
<1>4. Insert(b, list) = InsertAt(list, place, b)
  BY DEF Insert
<1> HIDE DEF place
<1>5. Inserted(Insert(b, list), list, place, b)
  BY <1>3, <1>4, InsertAtInserted
<1>6. \A j \in 1 .. place - 1 : ~IsBeaconFirst(b, list[j])
  <2> TAKE j \in 1 .. place - 1
  <2>1. j \in DOMAIN list /\ j < place
    BY <1>3
  <2>2. j \notin first
    <3> HIDE DEF first
    <3> QED
      BY <1>2, <1>3, <2>1
  <2> QED
    BY <2>1, <2>2
<1>7. place <= Len(list) => IsBeaconFirst(b, list[place])
  BY <1>2, <1>3
<1> QED
  BY <1>3, <1>5, <1>6, <1>7

LEMMA InsertGood ==
    ASSUME NEW list, Good(list), NEW b \in Beacon,
           \A j \in 1 .. Len(list) : ~Equal(b, list[j])
    PROVE  /\ Good(Insert(b, list))
           /\ \A p \in 1 .. Len(Insert(b, list)) :
                \/ Insert(b, list)[p] = b
                \/ \E q \in 1 .. Len(list) : Insert(b, list)[p] = list[q]
<1> DEFINE new == Insert(b, list)
<1>1. list \in Seq(Beacon) /\ Len(list) \in Nat
  BY DEF Good
<1>2. PICK i \in 1 .. Len(list) + 1 :
              /\ Inserted(new, list, i, b)
              /\ \A j \in 1 .. i - 1 : ~IsBeaconFirst(b, list[j])
              /\ i <= Len(list) => IsBeaconFirst(b, list[i])
  BY <1>1, InsertPlace
<1> HIDE DEF new
<1>3. /\ new \in Seq(Beacon) /\ Len(new) = Len(list) + 1 /\ new[i] = b
      /\ \A p \in 1 .. Len(new) : p < i => p \in 1 .. Len(list) /\ new[p] = list[p]
      /\ \A p \in 1 .. Len(new) : p > i => p - 1 \in 1 .. Len(list) /\ new[p] = list[p - 1]
  <2>1. \A p \in 1 .. Len(new) : p > i => p - 1 \in i .. Len(list) /\ (p - 1) + 1 = p
    BY <1>1, <1>2 DEF Inserted
  <2> QED
    BY <1>1, <1>2, <2>1 DEF Inserted
<1>4. Fields(b) /\ \A j \in 1 .. Len(list) : Fields(list[j])
  BY <1>1, BeaconFields
<1>5. \A j \in 1 .. Len(list) : j < i => NotAfter(list[j], b)
  BY <1>1, <1>2, <1>4, BeaconFirstDecides
<1>6. \A j \in 1 .. Len(list) : j >= i => NotAfter(b, list[j])
  <2> TAKE j \in 1 .. Len(list)
  <2> HAVE j >= i
  <2>1. i \in 1 .. Len(list) /\ NotAfter(b, list[i])
    BY <1>1, <1>2, <1>4, BeaconFirstDecides
  <2>2. i < j => NotAfter(list[i], list[j])
    BY <2>1 DEF Good, Sorted
  <2> QED
    BY <2>1, <2>2, <1>1, <1>4, NotAfterTransitive
<1>7. Sorted(new)
  <2> SUFFICES ASSUME NEW p \in 1 .. Len(new), NEW q \in 1 .. Len(new), p < q
               PROVE  NotAfter(new[p], new[q])
    BY DEF Sorted
  <2>1. CASE q < i
    BY <2>1, <1>1, <1>3 DEF Good, Sorted
  <2>2. CASE q = i
    BY <2>2, <1>1, <1>3, <1>5
  <2>3. CASE p < i /\ q > i
    <3>1. p < q - 1
      BY <2>3, <1>1, <1>3
    <3> QED
      BY <3>1, <2>3, <1>1, <1>3 DEF Good, Sorted
  <2>4. CASE p = i
    <3>1. q - 1 \in 1 .. Len(list) /\ q - 1 >= i /\ new[q] = list[q - 1]
      BY <2>4, <1>1, <1>3
    <3> QED
      BY <3>1, <2>4, <1>3, <1>6
  <2>5. CASE p > i
    <3>1. /\ p - 1 \in 1 .. Len(list) /\ q - 1 \in 1 .. Len(list) /\ p - 1 < q - 1
          /\ new[p] = list[p - 1] /\ new[q] = list[q - 1]
      BY <2>5, <1>1, <1>3
    <3> QED
      BY <3>1 DEF Good, Sorted
  <2> QED
    BY <2>1, <2>2, <2>3, <2>4, <2>5, <1>1, <1>3
<1>8. \A p \in 1 .. Len(new) :
         p # i => \E k \in 1 .. Len(list) : k = (IF p < i THEN p ELSE p - 1) /\ new[p] = list[k]
  BY <1>1, <1>3
<1>9. Distinct(new)
  <2> SUFFICES ASSUME NEW p \in 1 .. Len(new), NEW q \in 1 .. Len(new), p # q,
                      Equal(new[p], new[q])
               PROVE  FALSE
    BY DEF Distinct
  <2>1. CASE p = i
    BY <2>1, <1>3, <1>8
  <2>2. CASE q = i
    BY <2>2, <1>3, <1>8, EqualSymmetric
  <2>3. CASE p # i /\ q # i
    <3>1. PICK k \in 1 .. Len(list) : k = (IF p < i THEN p ELSE p - 1) /\ new[p] = list[k]
      BY <2>3, <1>8
    <3>2. PICK l \in 1 .. Len(list) : l = (IF q < i THEN q ELSE q - 1) /\ new[q] = list[l]
      BY <2>3, <1>8
    <3>3. k # l
      BY <3>1, <3>2, <2>3, <1>1, <1>3
    <3> QED
      BY <3>1, <3>2, <3>3 DEF Good, Distinct
  <2> QED
    BY <2>1, <2>2, <2>3
<1> QED
  BY <1>3, <1>7, <1>8, <1>9 DEF Good, new

(***************************************************************************)
(* add_beacon() keeps lists good.                                          *)
(***************************************************************************)

\* Every beacon of new was there before, or is b and not older than the one it
\* took the place of.
From(new, list, b) ==
    \A p \in 1 .. Len(new) :
        \/ \E q \in 1 .. Len(list) : new[p] = list[q]
        \/ /\ new[p] = b
           /\ \A q \in 1 .. Len(list) : Equal(b, list[q]) => b.age <= list[q].age

LEMMA InsertBeaconGood ==
    ASSUME NEW list, Good(list), NEW b \in Beacon
    PROVE  Good(InsertBeacon(b, list)) /\ From(InsertBeacon(b, list), list, b)
<1>1. DOMAIN list = 1 .. Len(list) /\ Len(list) \in Nat /\ list \in Seq(Beacon)
  BY DEF Good
<1>2. CASE Duplicates(b, list) = {}
  <2>1. \A j \in 1 .. Len(list) : ~Equal(b, list[j])
    BY <1>1, <1>2 DEF Duplicates
  <2>2. InsertBeacon(b, list) = Insert(b, list)
    BY <1>2 DEF InsertBeacon
  <2> QED
    BY <2>1, <2>2, InsertGood DEF From
<1>3. CASE Duplicates(b, list) # {}
  <2> DEFINE j == Min(Duplicates(b, list))
             rest == RemoveBeacon(list, j)
  <2>1. j \in Duplicates(b, list)
    <3>1. Duplicates(b, list) \in SUBSET Nat
      BY <1>1 DEF Duplicates
    <3> QED
      BY <3>1, <1>3, LeastNatural
  <2>2. j \in 1 .. Len(list) /\ Equal(b, list[j])
    BY <2>1, <1>1 DEF Duplicates
  <2>3. InsertBeacon(b, list) = IF KeepNew(b, list[j]) THEN Insert(b, rest) ELSE list
    BY <1>3 DEF InsertBeacon
  <2> HIDE DEF j
  <2>4. \A q \in 1 .. Len(list) : Equal(b, list[q]) => q = j
    BY <2>2, EqualEuclidean DEF Good, Distinct
  <2>5. CASE ~KeepNew(b, list[j])
    BY <2>3, <2>5 DEF From
  <2>6. CASE KeepNew(b, list[j])
    <3>1. rest = RemoveAt(list, j)
      BY <2>2, <1>1 DEF RemoveBeacon
    <3> HIDE DEF rest
    <3>2. /\ Good(rest)
          /\ \A p \in 1 .. Len(rest) : \E q \in 1 .. Len(list) : q # j /\ rest[p] = list[q]
      BY <3>1, <2>2, <1>1, RemoveAtRemoved, RemovedGood
    <3>3. \A p \in 1 .. Len(rest) : ~Equal(b, rest[p])
      BY <3>2, <2>4
    <3>4. /\ Good(Insert(b, rest))
          /\ \A p \in 1 .. Len(Insert(b, rest)) :
               \/ Insert(b, rest)[p] = b
               \/ \E q \in 1 .. Len(rest) : Insert(b, rest)[p] = rest[q]
      BY <3>2, <3>3, InsertGood
    <3>5. b.age \in Int /\ list[j].age \in Int
      BY <2>2, <1>1, BeaconFields DEF Fields
    <3>6. b.age <= list[j].age
      BY <2>6, <3>5 DEF KeepNew
    <3>7. \A q \in 1 .. Len(list) : Equal(b, list[q]) => b.age <= list[q].age
      BY <2>4, <3>6
    <3>8. From(Insert(b, rest), list, b)
      BY <3>2, <3>4, <3>7 DEF From
    <3> QED
      BY <2>3, <2>6, <3>4, <3>8
  <2> QED
    BY <2>5, <2>6
<1> QED
  BY <1>2, <1>3

LEMMA AddBeaconGood ==
    ASSUME NEW list, Good(list), NEW b \in Beacon
    PROVE  Good(AddBeacon(b, list)) /\ From(AddBeacon(b, list), list, b)
<1> DEFINE inserted == InsertBeacon(b, list)
<1>1. Good(inserted) /\ From(inserted, list, b)
  BY InsertBeaconGood
<1>2. PICK i : AddBeacon(b, list) \in {inserted, RemoveBeacon(inserted, i)}
  BY DEF AddBeacon, RemoveWorst, RemoveWorstCell
<1> HIDE DEF inserted
<1>3. /\ Good(RemoveBeacon(inserted, i))
      /\ \A p \in 1 .. Len(RemoveBeacon(inserted, i)) :
           \E q \in 1 .. Len(inserted) : RemoveBeacon(inserted, i)[p] = inserted[q]
  BY <1>1, RemoveBeaconGood
<1>4. From(RemoveBeacon(inserted, i), list, b)
  BY <1>1, <1>3 DEF From
<1> QED
  BY <1>1, <1>2, <1>3, <1>4

\* The APs of a sorted list are the first ApCount of it.
LEMMA ApsFirst ==
    ASSUME NEW list, Good(list)
    PROVE  /\ ApCount(list) \in 0 .. Len(list)
           /\ \A i \in 1 .. Len(list) : IsAp(list[i]) <=> i <= ApCount(list)
<1> DEFINE aps == {i \in DOMAIN list : IsAp(list[i])}
<1>1. DOMAIN list = 1 .. Len(list) /\ Len(list) \in Nat
  BY DEF Good
<1>2. PICK n \in 0 .. Len(list) : aps = 1 .. n
  <2>1. CASE aps = {}
    BY <2>1, <1>1
  <2>2. CASE aps # {}
    <3>1. aps \in SUBSET (0 .. Len(list)) /\ aps \subseteq 1 .. Len(list)
      BY <1>1
    <3>2. Max(aps) \in aps /\ \A i \in aps : Max(aps) >= i
      <4> HIDE DEF aps
      <4> QED
        BY <1>1, <3>1, <2>2, GreatestNatural
    <3> DEFINE n == Max(aps)
    <3>3. n \in 1 .. Len(list) /\ IsAp(list[n]) /\ \A i \in aps : n >= i
      BY <3>2, <1>1
    <3> HIDE DEF n
    <3>4. \A i \in 1 .. n : i \in aps
      BY <3>3, <1>1 DEF Good, Sorted, NotAfter
    <3>5. aps = 1 .. n
      BY <3>1, <3>3, <3>4
    <3> QED
      BY <3>3, <3>5
  <2> QED
    BY <2>1, <2>2
<1>3. ApCount(list) = Cardinality(1 .. n)
  BY <1>2 DEF ApCount
<1>4. Cardinality(1 .. n) = n
  BY FS_Interval
<1> QED
  BY <1>1, <1>2, <1>3, <1>4

(***************************************************************************)
(* How the number of APs changes with the list.                            *)
(***************************************************************************)

LEMMA InsertedCount ==
    ASSUME NEW list, Good(list), NEW new, Good(new), NEW b, NEW i, Inserted(new, list, i, b)
    PROVE  ApCount(new) = ApCount(list) + (IF IsAp(b) THEN 1 ELSE 0)
<1> DEFINE n == ApCount(list)
           m == ApCount(new)
<1>1. /\ n \in 0 .. Len(list) /\ m \in 0 .. Len(new)
      /\ \A k \in 1 .. Len(list) : IsAp(list[k]) <=> k <= n
      /\ \A k \in 1 .. Len(new) : IsAp(new[k]) <=> k <= m
  BY ApsFirst
<1>2. /\ Len(list) \in Nat /\ Len(new) = Len(list) + 1 /\ i \in 1 .. Len(list) + 1
      /\ new[i] = b
      /\ \A j \in 1 .. Len(list) : j < i => new[j] = list[j]
      /\ \A j \in 1 .. Len(list) : j >= i => new[j + 1] = list[j]
  BY DEF Good, Inserted
<1> HIDE DEF n, m
<1>3. \A j \in 1 .. Len(list) : j < i => (j <= n <=> j <= m)
  BY <1>1, <1>2
<1>4. \A j \in 1 .. Len(list) : j >= i => (j <= n <=> j + 1 <= m)
  <2> TAKE j \in 1 .. Len(list)
  <2> HAVE j >= i
  <2>1. j + 1 \in 1 .. Len(new)
    BY <1>2
  <2> QED
    BY <2>1, <1>1, <1>2
<1>5. IsAp(b) <=> i <= m
  BY <1>1, <1>2
<1>6. CASE IsAp(b)
  <2>1. n >= m - 1
    <3>1. CASE m = i
      BY <3>1, <1>1, <1>2, <1>3
    <3>2. CASE m > i
      <4>1. m - 1 \in 1 .. Len(list) /\ m - 1 >= i
        BY <3>2, <1>1, <1>2
      <4> QED
        BY <4>1, <1>1, <1>2, <1>4
    <3> QED
      BY <3>1, <3>2, <1>1, <1>2, <1>5, <1>6
  <2>2. n <= m - 1
    <3>1. CASE n >= i
      <4>1. n \in 1 .. Len(list)
        BY <3>1, <1>1, <1>2
      <4> QED
        BY <4>1, <3>1, <1>1, <1>2, <1>4
    <3>2. CASE n < i
      BY <3>2, <1>1, <1>2, <1>5, <1>6
    <3> QED
      BY <3>1, <3>2, <1>1, <1>2
  <2> QED
    BY <2>1, <2>2, <1>1, <1>2, <1>6 DEF n, m
<1>7. CASE ~IsAp(b)
  <2>1. m < i
    BY <1>1, <1>2, <1>5, <1>7
  <2>2. n >= m
    <3>1. CASE m = 0
      BY <3>1, <1>1, <1>2
    <3>2. CASE m > 0
      <4>1. m \in 1 .. Len(list)
        BY <3>2, <2>1, <1>1, <1>2
      <4> QED
        BY <4>1, <2>1, <1>1, <1>2, <1>3
    <3> QED
      BY <3>1, <3>2, <1>1, <1>2
  <2>3. n <= m
    <3>1. CASE n = 0
      BY <3>1, <1>1, <1>2
    <3>2. CASE n > 0
      <4>1. n \in 1 .. Len(list)
        BY <3>2, <1>1, <1>2
      <4> QED
        BY <4>1, <2>1, <1>1, <1>2, <1>3, <1>4
    <3> QED
      BY <3>1, <3>2, <1>1, <1>2
  <2> QED
    BY <2>2, <2>3, <1>1, <1>2, <1>7 DEF n, m
<1> QED
  BY <1>6, <1>7

LEMMA RemovedInserted ==
    ASSUME NEW list, Good(list), NEW new, NEW i, Removed(new, list, i)
    PROVE  Inserted(list, new, i, list[i])
<1>1. /\ list \in Seq(Beacon) /\ Len(list) \in Nat /\ Len(new) = Len(list) - 1
      /\ i \in 1 .. Len(list)
      /\ \A j \in 1 .. i - 1 : new[j] = list[j]
      /\ \A j \in i .. Len(list) - 1 : new[j] = list[j + 1]
  BY DEF Good, Removed
<1> QED
  BY <1>1 DEF Inserted

LEMMA RemovedCount ==
    ASSUME NEW list, Good(list), NEW new, NEW i, Removed(new, list, i)
    PROVE  /\ Good(new) /\ Len(new) = Len(list) - 1
           /\ ApCount(new) = ApCount(list) - (IF IsAp(list[i]) THEN 1 ELSE 0)
<1>1. Good(new) /\ Inserted(list, new, i, list[i])
  BY RemovedGood, RemovedInserted
<1>2. ApCount(list) = ApCount(new) + (IF IsAp(list[i]) THEN 1 ELSE 0)
  BY <1>1, InsertedCount
<1>3. ApCount(new) \in Int /\ ApCount(list) \in Int
  BY <1>1, ApsFirst
<1> QED
  BY <1>1, <1>2, <1>3 DEF Removed

\* A beacon comes in at a place of its own, or instead of its duplicate, or
\* not at all.
LEMMA InsertBeaconCases ==
    ASSUME NEW list, Good(list), NEW b \in Beacon
    PROVE  \/ \E i : Inserted(InsertBeacon(b, list), list, i, b)
           \/ /\ Len(InsertBeacon(b, list)) = Len(list)
              /\ ApCount(InsertBeacon(b, list)) = ApCount(list)
              /\ \A q \in 1 .. Len(list) :
                   \E p \in 1 .. Len(list) : \/ InsertBeacon(b, list)[p] = list[q]
                                             \/ InsertBeacon(b, list)[p] = b /\ Equal(b, list[q])
<1>1. DOMAIN list = 1 .. Len(list) /\ Len(list) \in Nat /\ list \in Seq(Beacon)
  BY DEF Good
<1>2. CASE Duplicates(b, list) = {}
  <2>1. InsertBeacon(b, list) = Insert(b, list)
    BY <1>2 DEF InsertBeacon
  <2> QED
    BY <2>1, <1>1, InsertPlace
<1>3. CASE Duplicates(b, list) # {}
  <2> DEFINE j == Min(Duplicates(b, list))
             rest == RemoveBeacon(list, j)
             new == Insert(b, rest)
  <2>1. j \in Duplicates(b, list)
    <3>1. Duplicates(b, list) \in SUBSET Nat
      BY <1>1 DEF Duplicates
    <3> QED
      BY <3>1, <1>3, LeastNatural
  <2>2. j \in 1 .. Len(list) /\ Equal(b, list[j])
    BY <2>1, <1>1 DEF Duplicates
  <2>3. InsertBeacon(b, list) = IF KeepNew(b, list[j]) THEN new ELSE list
    BY <1>3 DEF InsertBeacon
  <2> HIDE DEF j
  <2>4. CASE ~KeepNew(b, list[j])
    BY <2>3, <2>4
  <2>5. CASE KeepNew(b, list[j])
    <3>1. rest = RemoveAt(list, j)
      BY <2>2, <1>1 DEF RemoveBeacon
    <3> HIDE DEF rest
    <3>2. Removed(rest, list, j)
      BY <3>1, <2>2, <1>1, RemoveAtRemoved
    <3>3. /\ Good(rest) /\ Len(rest) = Len(list) - 1
          /\ ApCount(rest) = ApCount(list) - (IF IsAp(list[j]) THEN 1 ELSE 0)
      BY <3>2, RemovedCount
    <3>4. PICK i \in 1 .. Len(rest) + 1 : Inserted(new, rest, i, b)
      BY <3>3, InsertPlace DEF Good
    <3> HIDE DEF new
    <3>5. Good(new)
      <4>1. Good(InsertBeacon(b, list))
        BY InsertBeaconGood
      <4> QED
        BY <4>1, <2>3, <2>5
    <3>6. ApCount(new) = ApCount(rest) + (IF IsAp(b) THEN 1 ELSE 0)
      BY <3>3, <3>4, <3>5, InsertedCount
    <3>7. IsAp(b) <=> IsAp(list[j])
      BY <2>2 DEF Equal, IsAp, IsCell, CellType
    <3>8. ApCount(list) \in Int
      BY ApsFirst
    <3>9. Len(new) = Len(list)
      BY <3>3, <3>4, <1>1 DEF Inserted
    <3>10. \A q \in 1 .. Len(list) :
             \E p \in 1 .. Len(list) : new[p] = list[q] \/ (new[p] = b /\ Equal(b, list[q]))
      <4> TAKE q \in 1 .. Len(list)
      <4> DEFINE r == IF q < j THEN q ELSE q - 1
                 p == IF r < i THEN r ELSE r + 1
      <4>1. CASE q = j
        <5>1. i \in 1 .. Len(list) /\ new[i] = b
          BY <3>3, <3>4, <1>1 DEF Inserted
        <5> QED
          BY <5>1, <4>1, <2>2
      <4>2. CASE q # j
        <5>1. r \in 1 .. Len(rest) /\ rest[r] = list[q]
          BY <4>2, <3>2, <3>3, <2>2, <1>1 DEF Removed
        <5> HIDE DEF r
        <5>2. p \in 1 .. Len(list) /\ new[p] = rest[r]
          BY <5>1, <3>3, <3>4, <1>1 DEF Inserted
        <5> QED
          BY <5>1, <5>2
      <4> QED
        BY <4>1, <4>2
    <3> QED
      BY <2>3, <2>5, <3>3, <3>6, <3>7, <3>8, <3>9, <3>10
  <2> QED
    BY <2>4, <2>5
<1> QED
  BY <1>2, <1>3

(***************************************************************************)
(* What is given up.                                                       *)
(***************************************************************************)

\* The AP plugin may rely on the APs of a good list.
LEMMA ApsOfGood ==
    ASSUME NEW list, Good(list)
    PROVE  /\ ApsOf(list, ApCount(list)) /\ ApCount(list) \in Nat
           /\ \A i, j \in 1 .. ApCount(list) : i # j => list[i].mac # list[j].mac
<1> DEFINE n == ApCount(list)
<1>1. /\ n \in 0 .. Len(list) /\ Len(list) \in Nat
      /\ \A i \in 1 .. n : i \in 1 .. Len(list) /\ IsAp(list[i])
  <2>1. Len(list) \in Nat
    BY DEF Good
  <2>2. n \in 0 .. Len(list) /\ \A i \in 1 .. Len(list) : IsAp(list[i]) <=> i <= n
    BY ApsFirst
  <2> HIDE DEF n
  <2> QED
    BY <2>1, <2>2
<1> HIDE DEF n
<1>2. \A i \in 1 .. n : list[i] \in ApBeacon
  BY <1>1, KindOfBeacon DEF Good
<1>3. \E len \in Nat : \A i \in 1 .. n : list[i].mac \in [1 .. len -> 0 .. 15]
  BY <1>2, MacsAlike DEF ApBeacon
<1>4. \A i \in 1 .. n : list[i].rssi \in Int /\ list[i].age \in Nat
  BY <1>2 DEF ApBeacon
<1>5. \A i, j \in 1 .. n : i # j => list[i].mac # list[j].mac
  BY <1>1 DEF Good, Distinct, Equal, ApEqual
<1>6. ApsOf(list, n)
  BY <1>3, <1>4 DEF ApsOf
<1>7. n \in Nat
  BY <1>1
<1> QED
  BY <1>5, <1>6, <1>7 DEF n

\* remove_worst() of the AP plugin removes an AP if there is one.
LEMMA WorstApChosen ==
    ASSUME NEW list, Good(list), ApCount(list) > 0, NEW threshold
    PROVE  WorstAp(list, ApCount(list), threshold) \in 1 .. ApCount(list)
<1> DEFINE n == ApCount(list)
<1>1. ApsOf(list, n) /\ n \in Nat \ {0} /\ n \in Nat
  BY ApsOfGood
<1> HIDE DEF n
<1>2. RemoveVirtualAp(list, n) # 0 => RemoveVirtualAp(list, n) \in 1 .. n
  <2>1. CASE VirtualCandidates(list, n) = {}
    BY <2>1 DEF RemoveVirtualAp
  <2>2. CASE VirtualCandidates(list, n) # {}
    BY <2>2, <1>1, VirtualChosen, CandidatesInList
  <2> QED
    BY <2>1, <2>2
<1>3. RemoveOldestAp(list, n) # 0 => RemoveOldestAp(list, n) \in 1 .. n
  BY <1>1, OldestChosen
<1>4. SetPriorities(list, n, threshold) \in 1 .. n
  BY <1>1, PriorityChosen
<1> QED
  BY <1>2, <1>3, <1>4 DEF WorstAp, n

(***************************************************************************)
(* The request context.                                                    *)
(***************************************************************************)

RequestRecord == [magic : BOOLEAN, time : Nat, beacon : Seq(Beacon), num_ap : Nat]

BeaconsInv ==
    /\ rctx \in RequestRecord
    /\ Good(rctx.beacon)
    /\ rctx.num_ap = ApCount(rctx.beacon)

\* An empty list is good.
LEMMA EmptyGood == Good(<<>>) /\ ApCount(<<>>) = 0
<1>1. Good(<<>>)
  BY DEF Good, Sorted, Distinct
<1> QED
  BY <1>1, ApsFirst

LEMMA InitBeaconsInv == Init => BeaconsInv
BY EmptyGood DEF Init, BeaconsInv, NoRequest, RequestRecord

\* What a call that adds a scan does to the list.
LEMMA AddStep ==
    ASSUME BeaconsInv, NEW scan \in Scan, NEW timestamp \in Timestamp, SkyAddBeacon(scan, timestamp)
    PROVE  /\ BeaconsInv'
           /\ \E b \in Beacon : /\ From(rctx'.beacon, rctx.beacon, b)
                               /\ rctx'.beacon = AddBeacon(b, rctx.beacon)
<1> DEFINE b == Scanned(scan, Age(timestamp))
           list == AddBeacon(b, rctx.beacon)
<1>1. Age(timestamp) \in Int
  BY ScanAssumption DEF Age, BeaconsInv, RequestRecord
<1>2. b \in Beacon
  BY <1>1, ScannedBeacon DEF SkyAddBeacon, Accepted
<1>3. rctx' = [rctx EXCEPT !.beacon = list, !.num_ap = ApCount(list)]
  BY DEF SkyAddBeacon
<1> HIDE DEF b
<1>4. Good(list) /\ From(list, rctx.beacon, b)
  BY <1>2, AddBeaconGood DEF BeaconsInv
<1>r. list = AddBeacon(b, rctx.beacon)
  OBVIOUS
<1> HIDE DEF list
<1>5. ApCount(list) \in Nat /\ list \in Seq(Beacon)
  BY <1>4, ApsFirst DEF Good
<1>6. rctx' \in RequestRecord /\ rctx'.beacon = list /\ rctx'.num_ap = ApCount(list)
  BY <1>3, <1>5 DEF BeaconsInv, RequestRecord
<1> QED
  BY <1>2, <1>4, <1>6, <1>r DEF BeaconsInv

LEMMA NextBeaconsInv == BeaconsInv /\ [Next]_vars => BeaconsInv'
<1> SUFFICES ASSUME BeaconsInv, [Next]_vars
             PROVE  BeaconsInv'
  OBVIOUS
<1>1. CASE \E scan \in Scan, timestamp \in Timestamp : SkyAddBeacon(scan, timestamp)
  BY <1>1, AddStep
<1>2. CASE SkyNewRequest
  <2>1. PICK time \in RequestTime :
          rctx' = [magic |-> TRUE, time |-> time, beacon |-> <<>>, num_ap |-> 0]
    BY <1>2 DEF SkyNewRequest
  <2> QED
    BY <2>1, EmptyGood, ScanAssumption DEF BeaconsInv, RequestRecord
<1>3. CASE SkySetOption \/ ConfigReceived \/ SkyOpen \/ SkyClose \/ UNCHANGED vars
  <2>1. UNCHANGED rctx
    BY <1>3 DEF SkySetOption, ConfigReceived, SkyOpen, SkyClose, vars
  <2> QED
    BY <2>1 DEF BeaconsInv
<1> QED
  BY <1>1, <1>2, <1>3 DEF Next

(***************************************************************************)
(* The theorems.                                                           *)
(***************************************************************************)

\* The list stays in the order that set_priorities(), the cell plugin and the
\* encoder rely on, whatever is added, replaced and given up.
THEOREM ListOrdered == Spec => []Ordered
<1>1. BeaconsInv => Ordered
  <2> SUFFICES ASSUME BeaconsInv
               PROVE  Ordered
    OBVIOUS
  <2> DEFINE list == rctx.beacon
  <2>1. Good(list) /\ DOMAIN list = 1 .. Len(list) /\ Len(list) \in Nat
    BY DEF BeaconsInv, Good
  <2>2. \A i \in DOMAIN list : IsAp(list[i]) <=> i <= rctx.num_ap
    BY <2>1, ApsFirst DEF BeaconsInv
  <2>3. \A i, j \in DOMAIN list : i < j => NotAfter(list[i], list[j])
    BY <2>1 DEF Good, Sorted
  <2> HIDE DEF list
  <2> QED
    BY <2>2, <2>3 DEF NotAfter, Ordered, list
<1> QED
  BY <1>1, InitBeaconsInv, NextBeaconsInv, PTL DEF Spec

\* No AP or cell is in a request twice: a new scan removes the first duplicate
\* it finds, and there is no other.
THEOREM BeaconsDistinct == Spec => []NoDuplicates
<1>1. BeaconsInv => NoDuplicates
  BY DEF BeaconsInv, Good, Distinct, NoDuplicates
<1> QED
  BY <1>1, InitBeaconsInv, NextBeaconsInv, PTL DEF Spec

\* What a request knows of an AP or a cell never gets older.
THEOREM NewestKept == Spec => KeepsNewest
<1> DEFINE Kept == \A i \in DOMAIN rctx.beacon, j \in DOMAIN rctx'.beacon :
                     Equal(rctx.beacon[i], rctx'.beacon[j])
                       => rctx'.beacon[j].age <= rctx.beacon[i].age
<1>1. BeaconsInv /\ BeaconsInv' /\ [Next]_vars => [Kept]_rctx
  <2> SUFFICES ASSUME BeaconsInv, BeaconsInv', Next, rctx' # rctx,
                      NEW i \in DOMAIN rctx.beacon, NEW j \in DOMAIN rctx'.beacon,
                      Equal(rctx.beacon[i], rctx'.beacon[j])
               PROVE  rctx'.beacon[j].age <= rctx.beacon[i].age
    BY DEF vars
  <2>t. /\ i \in 1 .. Len(rctx.beacon) /\ j \in 1 .. Len(rctx'.beacon)
        /\ \A k \in 1 .. Len(rctx.beacon) : rctx.beacon[k].age \in Int
    BY BeaconFields DEF BeaconsInv, Good, Fields
  <2>1. ~SkyNewRequest
    BY <2>t DEF SkyNewRequest
  <2>2. \E scan \in Scan, timestamp \in Timestamp : SkyAddBeacon(scan, timestamp)
    BY <2>1 DEF Next, SkySetOption, ConfigReceived, SkyOpen, SkyClose
  <2>3. PICK b \in Beacon : From(rctx'.beacon, rctx.beacon, b)
    BY <2>2, AddStep
  <2>4. CASE \E q \in 1 .. Len(rctx.beacon) : rctx'.beacon[j] = rctx.beacon[q]
    BY <2>4, <2>t DEF BeaconsInv, Good, Distinct
  <2>5. CASE /\ rctx'.beacon[j] = b
             /\ \A q \in 1 .. Len(rctx.beacon) :
                  Equal(b, rctx.beacon[q]) => b.age <= rctx.beacon[q].age
    BY <2>5, <2>t, EqualSymmetric
  <2> QED
    BY <2>3, <2>4, <2>5, <2>t DEF From
<1> QED
  BY <1>1, InitBeaconsInv, NextBeaconsInv, PTL DEF Spec, KeepsNewest

(***************************************************************************)
(* The list implements BeaconList, whatever limits are accepted.           *)
(***************************************************************************)

Cells(list) == Len(list) - ApCount(list)

\* The limit on cells, for any configuration; it wraps if there are to be more
\* APs than beacons.
LEMMA CellLimitBounds ==
    ASSUME config \in ConfigRecord
    PROVE  /\ config.max_ap_beacons \in Nat /\ config.total_beacons \in Nat /\ CellLimit \in Nat
           /\ config.max_ap_beacons <= config.total_beacons
                => CellLimit = config.total_beacons - config.max_ap_beacons
<1> DEFINE max == config.max_ap_beacons
           total == config.total_beacons
<1>1. max \in 0 .. UintMod - 1 /\ total \in 0 .. UintMod - 1
  BY LimitNames DEF ConfigRecord
<1>2. UintMod \in Nat \ {0}
  BY LimitNames
<1> HIDE DEF max, total
<1>3. (total - max) % UintMod \in 0 .. UintMod - 1
  BY <1>1, <1>2
<1>4. max <= total => total - max \in 0 .. UintMod - 1
  BY <1>1, <1>2
<1>5. max <= total => (total - max) % UintMod = total - max
  BY <1>2, <1>4
<1>6. CellLimit = (total - max) % UintMod
  BY DEF CellLimit, max, total
<1>7. max \in Nat /\ total \in Nat /\ CellLimit \in Nat
  BY <1>1, <1>2, <1>3, <1>6
<1> QED
  BY <1>5, <1>6, <1>7 DEF max, total

LEMMA Counts ==
    ASSUME NEW list, Good(list)
    PROVE  Len(list) \in Nat /\ ApCount(list) \in Nat /\ Cells(list) \in Nat
<1>1. Len(list) \in Nat
  BY DEF Good
<1> QED
  BY <1>1, ApsFirst DEF Cells

\* What remove_worst() does to a list that is not within its limits.
LEMMA RemoveWorstCounts ==
    ASSUME NEW list, Good(list), config \in ConfigRecord, ~WithinLimits(list)
    PROVE  /\ Good(RemoveWorst(list))
           /\ IF ApCount(list) > config.max_ap_beacons
              THEN /\ ApCount(RemoveWorst(list)) = ApCount(list) - 1
                   /\ Cells(RemoveWorst(list)) = Cells(list)
              ELSE /\ ApCount(RemoveWorst(list)) = ApCount(list)
                   /\ Cells(RemoveWorst(list)) = Cells(list) - 1
<1>1. /\ Len(list) \in Nat /\ ApCount(list) \in 0 .. Len(list) /\ DOMAIN list = 1 .. Len(list)
      /\ \A i \in 1 .. Len(list) : IsAp(list[i]) <=> i <= ApCount(list)
      /\ list \in Seq(Beacon)
  BY ApsFirst DEF Good
<1>2. /\ config.max_ap_beacons \in Nat /\ CellLimit \in Nat
  BY CellLimitBounds
<1>3. ASSUME NEW i \in 1 .. Len(list)
      PROVE  /\ Good(RemoveBeacon(list, i)) /\ Len(RemoveBeacon(list, i)) = Len(list) - 1
             /\ ApCount(RemoveBeacon(list, i)) =
                  ApCount(list) - (IF i <= ApCount(list) THEN 1 ELSE 0)
  <2>1. RemoveBeacon(list, i) = RemoveAt(list, i)
    BY <1>1 DEF RemoveBeacon
  <2>2. Removed(RemoveBeacon(list, i), list, i)
    BY <1>1, <2>1, RemoveAtRemoved
  <2>3. IsAp(list[i]) <=> i <= ApCount(list)
    BY <1>1
  <2> QED
    BY <2>2, <2>3, RemovedCount
<1>4. CASE ApCount(list) > config.max_ap_beacons
  <2> DEFINE w == WorstAp(list, ApCount(list), config.cache_neg_rssi_threshold)
  <2>1. w \in 1 .. ApCount(list)
    BY <1>1, <1>2, <1>4, WorstApChosen
  <2>2. RemoveWorst(list) = RemoveBeacon(list, w)
    BY <1>4 DEF RemoveWorst
  <2> HIDE DEF w
  <2>3. w \in 1 .. Len(list) /\ w <= ApCount(list)
    BY <2>1, <1>1
  <2>4. /\ Good(RemoveWorst(list)) /\ Len(RemoveWorst(list)) = Len(list) - 1
        /\ ApCount(RemoveWorst(list)) = ApCount(list) - 1
    BY <1>3, <2>2, <2>3
  <2>5. Cells(RemoveWorst(list)) = Cells(list)
    BY <1>1, <2>4 DEF Cells
  <2> QED
    BY <1>4, <2>4, <2>5
<1>5. CASE ~(ApCount(list) > config.max_ap_beacons)
  <2>1. Len(list) - ApCount(list) > CellLimit
    BY <1>1, <1>2, <1>5 DEF WithinLimits
  <2>2. RemoveWorst(list) = RemoveBeacon(list, Len(list))
    BY <2>1, <1>5 DEF RemoveWorst, RemoveWorstCell
  <2>3. Len(list) \in 1 .. Len(list) /\ ~(Len(list) <= ApCount(list))
    BY <1>1, <1>2, <2>1
  <2>4. /\ Good(RemoveWorst(list)) /\ Len(RemoveWorst(list)) = Len(list) - 1
        /\ ApCount(RemoveWorst(list)) = ApCount(list) - 0
    BY <1>3, <2>2, <2>3
  <2>5. /\ ApCount(RemoveWorst(list)) = ApCount(list)
        /\ Cells(RemoveWorst(list)) = Cells(list) - 1
    BY <1>1, <2>4 DEF Cells
  <2> QED
    BY <1>5, <2>4, <2>5
<1> QED
  BY <1>4, <1>5

\* A scan leaves the counts, or is one more within the limits, or makes an AP
\* of a cell or a cell of an AP.
LEMMA AddBeaconCounts ==
    ASSUME NEW list, Good(list), NEW b \in Beacon, config \in ConfigRecord
    PROVE  LET new == AddBeacon(b, list)
               a == ApCount(list)
               c == Cells(list)
           IN  \/ ApCount(new) = a /\ Cells(new) = c
               \/ /\ \/ ApCount(new) = a + 1 /\ Cells(new) = c
                     \/ ApCount(new) = a /\ Cells(new) = c + 1
                  /\ ApCount(new) <= config.max_ap_beacons
                  /\ config.max_ap_beacons <= config.total_beacons
                       => Cells(new) <= config.total_beacons - config.max_ap_beacons
               \/ /\ \/ ApCount(new) = a + 1 /\ Cells(new) = c - 1
                     \/ ApCount(new) = a - 1 /\ Cells(new) = c + 1
                  /\ ApCount(new) > a => ApCount(new) <= config.max_ap_beacons
<1> DEFINE inserted == InsertBeacon(b, list)
           new == AddBeacon(b, list)
<1>1. Good(inserted) /\ Good(new)
  BY InsertBeaconGood, AddBeaconGood
<1>2. new = IF Len(inserted) = Len(list) \/ WithinLimits(inserted) THEN inserted
            ELSE RemoveWorst(inserted)
  BY DEF AddBeacon
<1>3. /\ Len(list) \in Nat /\ ApCount(list) \in Nat /\ Cells(list) \in Nat
      /\ Len(inserted) \in Nat /\ ApCount(inserted) \in Nat /\ Cells(inserted) \in Nat
  BY <1>1, Counts
<1>4. /\ config.max_ap_beacons \in Nat /\ config.total_beacons \in Nat
      /\ config.max_ap_beacons <= config.total_beacons
           => CellLimit = config.total_beacons - config.max_ap_beacons
  BY CellLimitBounds
<1> HIDE DEF inserted, new
<1>5. CASE Len(inserted) = Len(list) /\ ApCount(inserted) = ApCount(list)
  BY <1>2, <1>5 DEF Cells, new
<1>6. CASE \E i : Inserted(inserted, list, i, b)
  <2>1. /\ Len(inserted) = Len(list) + 1
        /\ ApCount(inserted) = ApCount(list) + (IF IsAp(b) THEN 1 ELSE 0)
    BY <1>1, <1>6, InsertedCount DEF Inserted
  <2>2. IF IsAp(b)
        THEN ApCount(inserted) = ApCount(list) + 1 /\ Cells(inserted) = Cells(list)
        ELSE ApCount(inserted) = ApCount(list) /\ Cells(inserted) = Cells(list) + 1
    BY <1>3, <2>1 DEF Cells
  <2>3. CASE WithinLimits(inserted)
    <3>1. new = inserted
      BY <1>2, <2>3
    <3>2. /\ ApCount(inserted) <= config.max_ap_beacons
          /\ config.max_ap_beacons <= config.total_beacons
               => Cells(inserted) <= config.total_beacons - config.max_ap_beacons
      BY <1>4, <2>3 DEF WithinLimits, Cells
    <3> QED
      BY <2>2, <3>1, <3>2 DEF new
  <2>4. CASE ~WithinLimits(inserted)
    <3>1. new = RemoveWorst(inserted)
      BY <1>2, <1>3, <2>1, <2>4
    <3>2. CASE ApCount(inserted) > config.max_ap_beacons
      <4>1. ApCount(new) = ApCount(inserted) - 1 /\ Cells(new) = Cells(inserted)
        BY <1>1, <2>4, <3>1, <3>2, RemoveWorstCounts
      <4> QED
        BY <1>3, <1>4, <2>2, <4>1 DEF new
    <3>3. CASE ~(ApCount(inserted) > config.max_ap_beacons)
      <4>1. ApCount(new) = ApCount(inserted) /\ Cells(new) = Cells(inserted) - 1
        BY <1>1, <2>4, <3>1, <3>3, RemoveWorstCounts
      <4> QED
        BY <1>3, <1>4, <2>2, <3>3, <4>1 DEF new
    <3> QED
      BY <3>2, <3>3
  <2> QED
    BY <2>3, <2>4
<1> QED
  BY <1>5, <1>6, InsertBeaconCases DEF inserted

\* The configuration and the cache.
ConfigInv == config \in ConfigRecord /\ TotalInRange(config)

LEMMA InitConfigInv == Init => ConfigInv
BY BuiltTyped, BuiltInRange DEF Init, ConfigInv

LEMMA NextConfigInv == ConfigInv /\ [Next]_vars => ConfigInv'
<1> SUFFICES ASSUME ConfigInv, [Next]_vars
             PROVE  ConfigInv'
  OBVIOUS
<1>1. ASSUME NEW c \in Reconfigured(config)
      PROVE  c \in ConfigRecord /\ TotalInRange(c)
  BY ReconfiguredTyped, ReconfiguredInRange DEF ConfigInv
<1>2. CASE SkySetOption \/ ConfigReceived
  <2>1. config' \in Reconfigured(config)
    BY <1>2 DEF SkySetOption, ConfigReceived, Reconfigured
  <2> QED
    BY <2>1, <1>1 DEF ConfigInv
<1>3. CASE SkyOpen
  <2>1. config' \in {ConfigDefaults(config), Built}
    BY <1>3 DEF SkyOpen
  <2> QED
    BY <2>1, BuiltTyped, BuiltInRange, DefaultsTyped, DefaultsInRange DEF ConfigInv
<1>4. CASE \/ \E scan \in Scan, timestamp \in Timestamp : SkyAddBeacon(scan, timestamp)
           \/ SkyNewRequest \/ SkyClose \/ UNCHANGED vars
  <2>1. UNCHANGED config
    BY <1>4 DEF SkyAddBeacon, SkyNewRequest, SkyClose, vars
  <2> QED
    BY <2>1 DEF ConfigInv
<1> QED
  BY <1>2, <1>3, <1>4 DEF Next

LEMMA ListStep ==
    ASSUME BeaconsInv, BeaconsInv', ConfigInv, ConfigInv', [Next]_vars
    PROVE  [List!Next]_(List!vars)
<1> DEFINE a == rctx.num_ap
           c == Len(rctx.beacon) - rctx.num_ap
<1>1. /\ Good(rctx.beacon) /\ a = ApCount(rctx.beacon) /\ c = Cells(rctx.beacon)
      /\ Good(rctx.beacon)' /\ a' = ApCount(rctx'.beacon) /\ c' = Cells(rctx'.beacon)
  BY DEF BeaconsInv, Cells, ApCount
<1>2. a \in Nat /\ c \in Nat /\ a' \in Nat /\ c' \in Nat
  BY <1>1, Counts
<1>3. config \in ConfigRecord /\ config' \in ConfigRecord /\ TotalInRange(config')
  BY DEF ConfigInv, TotalInRange
<1>4. CASE \E scan \in Scan, timestamp \in Timestamp : SkyAddBeacon(scan, timestamp)
  <2>1. PICK scan \in Scan, timestamp \in Timestamp : SkyAddBeacon(scan, timestamp)
    BY <1>4
  <2>2. PICK b \in Beacon : rctx'.beacon = AddBeacon(b, rctx.beacon)
    BY <2>1, AddStep
  <2>3. UNCHANGED config
    BY <2>1 DEF SkyAddBeacon
  <2>8. a <= MAX_AP_BEACONS + 1 /\ Len(rctx.beacon) <= TOTAL_BEACONS + 1
    BY <2>1 DEF SkyAddBeacon, Accepted, ValidRequestCtx
  <2>9. a + c = Len(rctx.beacon)
    BY <1>1, <1>2 DEF Good
  <2> HIDE DEF a, c
  <2>4. \/ a' = a /\ c' = c
        \/ /\ (a' = a + 1 /\ c' = c) \/ (a' = a /\ c' = c + 1)
           /\ a' <= config.max_ap_beacons
           /\ config.max_ap_beacons <= config.total_beacons
                => c' <= config.total_beacons - config.max_ap_beacons
        \/ /\ (a' = a + 1 /\ c' = c - 1) \/ (a' = a - 1 /\ c' = c + 1)
           /\ a' > a => a' <= config.max_ap_beacons
    BY <1>1, <1>3, <2>2, AddBeaconCounts
  <2> USE DEF a, c
  <2>5. CASE a' = a /\ c' = c
    BY <2>3, <2>5 DEF List!vars
  <2>6. CASE /\ (a' = a + 1 /\ c' = c) \/ (a' = a /\ c' = c + 1)
             /\ a' <= config.max_ap_beacons
             /\ config.max_ap_beacons <= config.total_beacons
                  => c' <= config.total_beacons - config.max_ap_beacons
    BY <2>3, <2>6, <2>8, <2>9 DEF List!Next, List!Grow
  <2>7. CASE /\ (a' = a + 1 /\ c' = c - 1) \/ (a' = a - 1 /\ c' = c + 1)
             /\ a' > a => a' <= config.max_ap_beacons
    BY <1>2, <2>3, <2>7, <2>8 DEF List!Next, List!Trade
  <2> QED
    BY <2>4, <2>5, <2>6, <2>7
<1>5. CASE SkyNewRequest
  <2>1. rctx'.beacon = <<>> /\ rctx'.num_ap = 0 /\ UNCHANGED config
    BY <1>5 DEF SkyNewRequest
  <2> QED
    BY <2>1 DEF List!Next, List!Clear
<1>6. CASE SkySetOption \/ ConfigReceived \/ SkyOpen
  <2>1. UNCHANGED rctx
    BY <1>6 DEF SkySetOption, ConfigReceived, SkyOpen
  <2>2. <<config'.total_beacons, config'.max_ap_beacons>> \in List!Limits
    BY <1>3, LimitNames DEF TotalInRange, ConfigRecord, List!Limits
  <2> QED
    BY <2>1, <2>2 DEF List!Next, List!SetLimits
<1>7. CASE SkyClose \/ UNCHANGED vars
  BY <1>7 DEF SkyClose, vars, List!vars
<1> QED
  BY <1>4, <1>5, <1>6, <1>7 DEF Next

\* Whatever is added, replaced and given up, and however the limits change in
\* between, the list does what BeaconList promises, also under limits that do
\* not fit each other.
THEOREM ListImplemented == Spec => ImplementsList
<1> SUFFICES Spec => List!Spec
  BY DEF ImplementsList
<1>1. Init => List!Init
  <2> SUFFICES ASSUME Init
               PROVE  List!Init
    OBVIOUS
  <2>1. rctx.num_ap = 0 /\ Len(rctx.beacon) = 0 /\ config = Built
    BY DEF Init, NoRequest
  <2>2. <<config.total_beacons, config.max_ap_beacons>> \in List!Limits
    BY <2>1, LimitNames DEF List!Limits
  <2> QED
    BY <2>1, <2>2 DEF List!Init
<1>2. BeaconsInv /\ BeaconsInv' /\ ConfigInv /\ ConfigInv' /\ [Next]_vars => [List!Next]_(List!vars)
  BY ListStep
<1> QED
  BY <1>1, <1>2, InitBeaconsInv, NextBeaconsInv, InitConfigInv, NextConfigInv, PTL DEF Spec, List!Spec

\* Under limits that fit each other a list within the room stays within it, also
\* if it is beyond the limits.
LEMMA AddWithinRoom ==
    ASSUME NEW list, Good(list), NEW b \in Beacon, ConfigInv, List!Fit,
           ApCount(list) <= MAX_AP_BEACONS, Len(list) <= TOTAL_BEACONS
    PROVE  /\ ApCount(AddBeacon(b, list)) <= MAX_AP_BEACONS
           /\ Len(AddBeacon(b, list)) <= TOTAL_BEACONS
<1> DEFINE new == AddBeacon(b, list)
           a == ApCount(list)
           c == Cells(list)
<1>1. Good(new)
  BY AddBeaconGood
<1>2. /\ a \in Nat /\ c \in Nat /\ Len(list) = a + c
      /\ ApCount(new) \in Nat /\ Cells(new) \in Nat /\ Len(new) = ApCount(new) + Cells(new)
  BY <1>1, Counts DEF Cells
<1>3. /\ config.max_ap_beacons \in Int /\ config.total_beacons \in Int
      /\ config.max_ap_beacons <= config.total_beacons
      /\ config.max_ap_beacons <= MAX_AP_BEACONS /\ config.total_beacons <= TOTAL_BEACONS
      /\ MAX_AP_BEACONS \in Int /\ TOTAL_BEACONS \in Int
  BY CellLimitBounds, LimitNames DEF ConfigInv, TotalInRange, List!Fit
<1>4. \/ ApCount(new) = a /\ Cells(new) = c
      \/ /\ \/ ApCount(new) = a + 1 /\ Cells(new) = c
            \/ ApCount(new) = a /\ Cells(new) = c + 1
         /\ ApCount(new) <= config.max_ap_beacons
         /\ config.max_ap_beacons <= config.total_beacons
              => Cells(new) <= config.total_beacons - config.max_ap_beacons
      \/ /\ \/ ApCount(new) = a + 1 /\ Cells(new) = c - 1
            \/ ApCount(new) = a - 1 /\ Cells(new) = c + 1
         /\ ApCount(new) > a => ApCount(new) <= config.max_ap_beacons
  BY AddBeaconCounts DEF ConfigInv
<1> HIDE DEF new, a, c
<1>5. a <= MAX_AP_BEACONS /\ a + c <= TOTAL_BEACONS
  BY <1>2 DEF a
<1> DEFINE ap == ApCount(new)
           cell == Cells(new)
           limit == config.max_ap_beacons
           total == config.total_beacons
<1>6. /\ ap \in Int /\ cell \in Int /\ limit \in Int /\ total \in Int /\ a \in Int /\ c \in Int
      /\ limit <= MAX_AP_BEACONS /\ total <= TOTAL_BEACONS
      /\ \/ ap = a /\ cell = c
         \/ /\ (ap = a + 1 /\ cell = c) \/ (ap = a /\ cell = c + 1)
            /\ ap <= limit /\ cell <= total - limit
         \/ /\ (ap = a + 1 /\ cell = c - 1) \/ (ap = a - 1 /\ cell = c + 1)
            /\ ap > a => ap <= limit
  BY <1>2, <1>3, <1>4
<1> HIDE DEF ap, cell, limit, total
<1>7. ap <= MAX_AP_BEACONS /\ ap + cell <= TOTAL_BEACONS
  BY <1>3, <1>5, <1>6
<1>8. ApCount(new) <= MAX_AP_BEACONS /\ Len(new) <= TOTAL_BEACONS
  BY <1>2, <1>7 DEF ap, cell
<1> QED
  BY <1>8 DEF new

\* The spare element of Sky_rctx_t.beacon stays free while the limits in force
\* fit each other, whatever limits were in force before and however many
\* beacons the request held when they changed.
THEOREM RoomHeld == Spec => RoomKept
<1>1. ASSUME BeaconsInv, BeaconsInv', ConfigInv, [Next]_vars, List!Room, List!Fit
      PROVE  (List!Room)'
  <2>1. /\ Good(rctx.beacon) /\ rctx.num_ap = ApCount(rctx.beacon)
        /\ Good(rctx'.beacon) /\ rctx'.num_ap = ApCount(rctx'.beacon)
    BY <1>1 DEF BeaconsInv, ApCount
  <2>2. /\ ApCount(rctx.beacon) \in Nat /\ Len(rctx.beacon) \in Nat
        /\ ApCount(rctx'.beacon) \in Nat /\ Len(rctx'.beacon) \in Nat
    BY <2>1, Counts
  <2>3. ApCount(rctx.beacon) <= MAX_AP_BEACONS /\ Len(rctx.beacon) <= TOTAL_BEACONS
    BY <1>1, <2>1, <2>2 DEF List!Room
  <2>4. SUFFICES /\ ApCount(rctx'.beacon) <= MAX_AP_BEACONS
                 /\ Len(rctx'.beacon) <= TOTAL_BEACONS
    BY <2>1, <2>2 DEF List!Room
  <2>5. CASE \E scan \in Scan, timestamp \in Timestamp : SkyAddBeacon(scan, timestamp)
    <3>1. PICK b \in Beacon : rctx'.beacon = AddBeacon(b, rctx.beacon)
      BY <1>1, <2>5, AddStep
    <3> QED
      BY <1>1, <2>1, <2>3, <3>1, AddWithinRoom
  <2>6. CASE SkyNewRequest
    <3>1. rctx'.beacon = <<>>
      BY <2>6 DEF SkyNewRequest
    <3> QED
      BY <3>1, EmptyGood, LimitNames
  <2>7. CASE UNCHANGED rctx
    BY <2>1, <2>3, <2>7
  <2> QED
    BY <1>1, <2>5, <2>6, <2>7
    DEF Next, SkySetOption, ConfigReceived, SkyOpen, SkyClose, vars
<1>2. BeaconsInv /\ BeaconsInv' /\ ConfigInv /\ [Next]_vars
        => [List!Room /\ List!Fit => (List!Room)']_(List!vars)
  BY <1>1
<1> QED
  BY <1>2, InitBeaconsInv, NextBeaconsInv, InitConfigInv, NextConfigInv, PTL
  DEF Spec, RoomKept, List!RoomKept

(***************************************************************************)
(* The type of the state.                                                  *)
(***************************************************************************)

\* The rest of the state.  Whatever the limits, validate_request_ctx() lets no
\* list grow to more than two beacons above TOTAL_BEACONS.
RoomInv ==
    /\ open \in BOOLEAN
    /\ cached \in UsedMacs \cup {{}}
    /\ rctx.time \in RequestTime \cup {0}
    /\ Len(rctx.beacon) <= TOTAL_BEACONS + 2

LEMMA InitRoomInv == Init => RoomInv
<1> SUFFICES ASSUME Init
             PROVE  RoomInv
  OBVIOUS
<1>1. rctx.beacon = <<>> /\ rctx.time = 0 /\ open = TRUE /\ cached = {}
  BY DEF Init, NoRequest
<1>2. Len(rctx.beacon) = 0
  BY <1>1
<1> QED
  BY <1>1, <1>2, LimitNames DEF RoomInv

LEMMA NextRoomInv == BeaconsInv /\ ConfigInv /\ RoomInv /\ [Next]_vars => RoomInv'
<1> SUFFICES ASSUME BeaconsInv, ConfigInv, RoomInv, [Next]_vars
             PROVE  RoomInv'
  OBVIOUS
<1>1. CASE \E scan \in Scan, timestamp \in Timestamp : SkyAddBeacon(scan, timestamp)
  <2>1. PICK scan \in Scan, timestamp \in Timestamp : SkyAddBeacon(scan, timestamp)
    BY <1>1
  <2>2. PICK b \in Beacon : rctx'.beacon = AddBeacon(b, rctx.beacon)
    BY <2>1, AddStep
  <2>3. rctx'.time = rctx.time /\ UNCHANGED <<open, cached>>
    BY <2>1 DEF SkyAddBeacon, BeaconsInv, RequestRecord
  <2>4. Len(rctx.beacon) <= TOTAL_BEACONS + 1
    BY <2>1 DEF SkyAddBeacon, Accepted, ValidRequestCtx
  <2>5. Good(rctx.beacon) /\ Good(rctx'.beacon)
    BY <2>2, AddBeaconGood DEF BeaconsInv
  <2>6. Len(rctx'.beacon) <= Len(rctx.beacon) + 1
    <3> DEFINE a == ApCount(rctx.beacon)
               c == Cells(rctx.beacon)
               ap == ApCount(rctx'.beacon)
               cell == Cells(rctx'.beacon)
    <3>1. \/ ap = a /\ cell = c
          \/ (ap = a + 1 /\ cell = c) \/ (ap = a /\ cell = c + 1)
          \/ (ap = a + 1 /\ cell = c - 1) \/ (ap = a - 1 /\ cell = c + 1)
      BY <2>2, <2>5, AddBeaconCounts DEF ConfigInv
    <3>2. a \in Nat /\ c \in Nat /\ Len(rctx.beacon) = a + c /\ ap \in Nat /\ cell \in Nat
          /\ Len(rctx'.beacon) = ap + cell
      BY <2>5, Counts DEF Cells
    <3> HIDE DEF a, c, ap, cell
    <3> QED
      BY <3>1, <3>2
  <2>7. Len(rctx'.beacon) <= TOTAL_BEACONS + 2
    BY <2>4, <2>5, <2>6, LimitNames DEF Good
  <2> QED
    BY <2>3, <2>7 DEF RoomInv
<1>2. CASE SkyNewRequest
  <2>1. PICK time \in RequestTime :
          rctx' = [magic |-> TRUE, time |-> time, beacon |-> <<>>, num_ap |-> 0]
    BY <1>2 DEF SkyNewRequest
  <2>2. rctx'.beacon = <<>> /\ rctx'.time \in RequestTime
    BY <2>1
  <2>3. Len(rctx'.beacon) = 0
    BY <2>2
  <2>5. open' = open /\ cached' \in UsedMacs
    BY <1>2 DEF SkyNewRequest
  <2> QED
    BY <2>2, <2>3, <2>5, LimitNames DEF RoomInv
<1>3. CASE SkySetOption \/ ConfigReceived \/ SkyOpen \/ SkyClose \/ UNCHANGED vars
  <2>1. UNCHANGED rctx /\ open' \in BOOLEAN /\ cached' \in UsedMacs \cup {{}}
    BY <1>3 DEF SkySetOption, ConfigReceived, SkyOpen, SkyClose, vars, RoomInv
  <2> QED
    BY <2>1 DEF RoomInv
<1> QED
  BY <1>1, <1>2, <1>3 DEF Next

\* The state has its type, and the growth of a list ends one beacon beyond the
\* array, whatever limits are asked for.
THEOREM TypeCorrect == Spec => []TypeOK
<1>1. BeaconsInv /\ ConfigInv /\ RoomInv => TypeOK
  <2> SUFFICES ASSUME BeaconsInv, ConfigInv, RoomInv
               PROVE  TypeOK
    OBVIOUS
  <2>1. rctx.magic \in BOOLEAN /\ rctx.time \in RequestTime \cup {0}
    BY DEF BeaconsInv, RoomInv, RequestRecord
  <2>2. DOMAIN config = OptionName /\ \A name \in OptionName : config[name] \in 0 .. UintMod - 1
    BY DEF ConfigInv, ConfigRecord
  <2>3. \A i \in DOMAIN rctx.beacon : rctx.beacon[i] \in Beacon
    BY DEF BeaconsInv, Good
  <2>4. ASSUME NEW b \in Beacon
        PROVE  b.age \in Nat /\ (IsAp(b) => b.used \in BOOLEAN) /\ ValidBeacon(b) /\ Corrected(b) = b
    <3>1. b.age \in Nat
      BY BeaconFields DEF Fields
    <3>2. IsAp(b) => b.used \in BOOLEAN
      BY KindOfBeacon DEF ApBeacon
    <3> QED
      BY <3>1, <3>2 DEF Beacon
  <2>5. Len(rctx.beacon) <= TOTAL_BEACONS + 2
    BY DEF RoomInv
  <2>6. open \in BOOLEAN /\ cached \in UsedMacs \cup {{}}
    BY DEF RoomInv
  <2> QED
    BY <2>1, <2>2, <2>3, <2>4, <2>5, <2>6 DEF TypeOK
<1> QED
  BY <1>1, InitBeaconsInv, NextBeaconsInv, InitConfigInv, NextConfigInv, InitRoomInv, NextRoomInv,
     PTL DEF Spec

(***************************************************************************)
(* What is given up when there are too many.                               *)
(***************************************************************************)

\* Visiting the APs from both ends to the middle finds the one of lowest
\* priority, and of those the one with the highest MAC, on every list that
\* add_beacon() can be about to trim.
THEOREM LowestPriorityEvicted == Spec => []EvictsLowestPriority
<1>1. BeaconsInv /\ ConfigInv => EvictsLowestPriority
  <2> SUFFICES ASSUME BeaconsInv, ConfigInv,
                      NEW scan \in Scan, ValidBeacon(scan), NEW list,
                      list = InsertBeacon(Scanned(scan, 0), rctx.beacon),
                      ApCount(list) > config.max_ap_beacons,
                      RemoveVirtualAp(list, ApCount(list)) = 0,
                      RemoveOldestAp(list, ApCount(list)) = 0,
                      ~BelowRssiThreshold(list[ApCount(list)], config.cache_neg_rssi_threshold),
                      NEW j \in 1 .. ApCount(list) \
                                   {WorstAp(list, ApCount(list), config.cache_neg_rssi_threshold)}
               PROVE  Worse(list, ApCount(list),
                            WorstAp(list, ApCount(list), config.cache_neg_rssi_threshold), j)
    BY DEF EvictsLowestPriority, ListsToTrim, Worse
  <2> DEFINE n == ApCount(list)
             t == config.cache_neg_rssi_threshold
  <2>1. Scanned(scan, 0) \in Beacon
    BY ScannedBeacon
  <2>2. Good(list)
    BY <2>1, InsertBeaconGood DEF BeaconsInv
  <2>3. config.max_ap_beacons \in Nat
    BY LimitNames DEF ConfigInv, ConfigRecord
  <2>4. n \in Nat \ {0} /\ ApsOf(list, n) /\ \A i, k \in 1 .. n : i # k => list[i].mac # list[k].mac
    BY <2>2, <2>3, ApsOfGood
  <2>5. WorstAp(list, n, t) = SetPriorities(list, n, t)
    BY DEF WorstAp
  <2> HIDE DEF n, t
  <2>6. ~BelowRssiThreshold(list[n], t) /\ j \in (1 .. n) \ {WorstAp(list, n, t)}
    BY DEF n, t
  <2>7. Worse(list, n, WorstAp(list, n, t), j)
    BY <2>4, <2>5, <2>6, LowestChosen
  <2> QED
    BY <2>7 DEF n, t
<1> QED
  BY <1>1, InitBeaconsInv, NextBeaconsInv, InitConfigInv, NextConfigInv, PTL DEF Spec

\* APs of a good list are where they are counted.
LEMMA ApPlace ==
    ASSUME NEW list, Good(list), NEW i \in 1 .. Len(list), IsAp(list[i])
    PROVE  i \in 1 .. ApCount(list)
BY ApsFirst DEF Good

LEMMA SimilarSymmetric ==
    ASSUME NEW len \in Nat, NEW m \in [1 .. len -> 0 .. 15], NEW n \in [1 .. len -> 0 .. 15],
           MacSimilar(m, n)
    PROVE  MacSimilar(n, m)
<1>1. {i \in DOMAIN m : m[i] # n[i]} = {i \in DOMAIN n : n[i] # m[i]}
  OBVIOUS
<1> QED
  BY <1>1, Zenon DEF MacSimilar

\* An element of a list is still there when the one at w is removed, but for
\* that one.
LEMMA KeptOthers ==
    ASSUME NEW list, Good(list), NEW w \in 1 .. Len(list), NEW q \in (1 .. Len(list)) \ {w}
    PROVE  \E p \in 1 .. Len(RemoveBeacon(list, w)) : RemoveBeacon(list, w)[p] = list[q]
<1>1. DOMAIN list = 1 .. Len(list) /\ Len(list) \in Nat /\ list \in Seq(Beacon)
  BY DEF Good
<1>2. Removed(RemoveBeacon(list, w), list, w)
  BY <1>1, RemoveAtRemoved DEF RemoveBeacon
<1> DEFINE p == IF q < w THEN q ELSE q - 1
           new == RemoveBeacon(list, w)
<1> HIDE DEF new
<1>3. Removed(new, list, w)
  BY <1>2 DEF new
<1>4. p \in 1 .. Len(new) /\ new[p] = list[q]
  BY <1>1, <1>3 DEF Removed
<1> QED
  BY <1>4 DEF new

\* An element of a list is still there when another one is inserted.
LEMMA KeptInserted ==
    ASSUME NEW list \in Seq(Beacon), NEW new, NEW b, NEW k, Inserted(new, list, k, b),
           NEW q \in 1 .. Len(list)
    PROVE  LET p == IF q < k THEN q ELSE q + 1 IN p \in 1 .. Len(new) /\ new[p] = list[q]
BY DEF Inserted

\* If an AP is lost although two were of one group, one like it stays.
LEMMA VirtualLost ==
    ASSUME NEW list, Good(list), NEW b \in Beacon, ConfigInv,
           NEW i \in 1 .. ApCount(list), VirtualPairs(list, ApCount(list)) # {},
           \A p \in 1 .. ApCount(AddBeacon(b, list)) : AddBeacon(b, list)[p].mac # list[i].mac
    PROVE  /\ ~list[i].connected
           /\ \E p \in 1 .. ApCount(AddBeacon(b, list)) :
                 MacSimilar(AddBeacon(b, list)[p].mac, list[i].mac)
<1> DEFINE inserted == InsertBeacon(b, list)
           new == AddBeacon(b, list)
           n == ApCount(list)
           m == ApCount(inserted)
<1>1. Good(inserted) /\ Good(new)
  BY InsertBeaconGood, AddBeaconGood
<1>2. new = IF Len(inserted) = Len(list) \/ WithinLimits(inserted) THEN inserted
            ELSE RemoveWorst(inserted)
  BY DEF AddBeacon
<1>3. /\ n \in 0 .. Len(list) /\ Len(list) \in Nat /\ list \in Seq(Beacon)
      /\ m \in 0 .. Len(inserted) /\ Len(inserted) \in Nat
      /\ DOMAIN inserted = 1 .. Len(inserted)
      /\ \A q \in 1 .. Len(list) : IsAp(list[q]) <=> q <= n
      /\ \A q \in 1 .. Len(inserted) : IsAp(inserted[q]) <=> q <= m
  BY <1>1, ApsFirst DEF Good
<1>4. ASSUME NEW p \in 1 .. Len(new), IsAp(new[p])
      PROVE  new[p].mac # list[i].mac
  BY <1>1, <1>4, ApPlace
<1>c. \/ \E k : Inserted(inserted, list, k, b)
      \/ /\ Len(inserted) = Len(list)
         /\ \A q \in 1 .. Len(list) :
              \E p \in 1 .. Len(list) : \/ inserted[p] = list[q]
                                        \/ inserted[p] = b /\ Equal(b, list[q])
  BY InsertBeaconCases
<1>g. \A p \in 1 .. ApCount(new) : new[p].mac # list[i].mac
  OBVIOUS
<1>s. SUFFICES /\ ~list[i].connected
               /\ \E p \in 1 .. ApCount(new) : MacSimilar(new[p].mac, list[i].mac)
  OBVIOUS
<1> HIDE DEF inserted, new, n, m
<1>i. i \in 1 .. Len(list) /\ IsAp(list[i]) /\ i \in 1 .. n
  BY <1>3 DEF n
<1>5. CASE /\ Len(inserted) = Len(list)
           /\ \A q \in 1 .. Len(list) :
                \E p \in 1 .. Len(list) : \/ inserted[p] = list[q]
                                          \/ inserted[p] = b /\ Equal(b, list[q])
  <2>1. PICK p \in 1 .. Len(list) : \/ inserted[p] = list[i]
                                    \/ inserted[p] = b /\ Equal(b, list[i])
    BY <1>5, <1>i
  <2>2. IsAp(inserted[p]) /\ inserted[p].mac = list[i].mac
    BY <2>1, <1>i DEF Equal, ApEqual, IsAp, IsCell, CellType
  <2> QED
    BY <2>2, <1>2, <1>4, <1>5
<1>6. CASE \E k : Inserted(inserted, list, k, b)
  <2>1. PICK k : Inserted(inserted, list, k, b)
    BY <1>6
  <2> DEFINE pos(q) == IF q < k THEN q ELSE q + 1
  <2>2. \A q \in 1 .. Len(list) : pos(q) \in 1 .. Len(inserted) /\ inserted[pos(q)] = list[q]
    BY <2>1, <1>3, KeptInserted
  <2>3. \A q \in 1 .. n : pos(q) \in 1 .. m
    <3> TAKE q \in 1 .. n
    <3>1. q \in 1 .. Len(list) /\ IsAp(list[q])
      BY <1>3
    <3>2. pos(q) \in 1 .. Len(inserted) /\ IsAp(inserted[pos(q)])
      BY <3>1, <2>2
    <3> HIDE DEF pos
    <3> QED
      BY <3>2, <1>3
  <2>4. \A q, r \in 1 .. Len(list) : q < r => pos(q) < pos(r)
    BY <2>1, <1>3 DEF Inserted
  <2> HIDE DEF pos
  <2>5. new # inserted
    BY <1>4, <1>i, <2>2
  <2>6. new = RemoveWorst(inserted)
    BY <2>5, <1>2
  <2>7. CASE m > config.max_ap_beacons
    <3> DEFINE w == WorstAp(inserted, m, config.cache_neg_rssi_threshold)
    <3>1. VirtualCandidates(inserted, m) # {}
      <4>1. PICK p \in VirtualPairs(list, n) : TRUE
        BY DEF n
      <4>2. /\ p[1] \in 1 .. n /\ p[2] \in 1 .. n /\ p[1] < p[2]
            /\ ~list[p[1]].connected /\ ~list[p[2]].connected
            /\ MacSimilar(list[p[1]].mac, list[p[2]].mac)
        BY <4>1 DEF VirtualPairs
      <4> DEFINE x == pos(p[1])
                 y == pos(p[2])
      <4>3. x \in 1 .. m /\ y \in 1 .. m /\ x < y
        <5>1. p[1] \in 1 .. Len(list) /\ p[2] \in 1 .. Len(list)
          BY <4>2, <1>3
        <5>2. pos(p[1]) < pos(p[2])
          BY <5>1, <4>2, <2>4
        <5> QED
          BY <5>2, <4>2, <2>3
      <4>4. inserted[x] = list[p[1]] /\ inserted[y] = list[p[2]]
        BY <4>2, <2>2, <1>3
      <4> HIDE DEF x, y
      <4>5. <<x, y>> \in VirtualPairs(inserted, m)
        BY <4>2, <4>3, <4>4 DEF VirtualPairs
      <4> QED
        BY <4>5 DEF VirtualCandidates
    <3>2. ApsOf(inserted, m) /\ m \in Nat
      BY <1>1, ApsOfGood DEF m
    <3>3. RemoveVirtualAp(inserted, m) \in VirtualCandidates(inserted, m)
      BY <3>1, <3>2, VirtualChosen
    <3>4. PICK p \in VirtualPairs(inserted, m) :
              /\ RemoveVirtualAp(inserted, m) \in {p[1], p[2]}
              /\ p[1] \in 1 .. m /\ p[2] \in 1 .. m /\ p[1] < p[2]
              /\ ~inserted[p[1]].connected /\ ~inserted[p[2]].connected
              /\ MacSimilar(inserted[p[1]].mac, inserted[p[2]].mac)
      BY <3>2, <3>3, CandidatesInList
    <3>5. w = RemoveVirtualAp(inserted, m)
      BY <3>4 DEF WorstAp
    <3>6. new = RemoveBeacon(inserted, w)
      BY <2>6, <2>7 DEF RemoveWorst, m
    <3> HIDE DEF w
    <3>7. w \in 1 .. Len(inserted) /\ ~inserted[w].connected
      BY <3>4, <3>5, <1>3
    <3>8. inserted[w] = list[i]
      <4>1. SUFFICES ASSUME pos(i) # w
                     PROVE  FALSE
        BY <2>2, <1>i
      <4>2. pos(i) \in (1 .. Len(inserted)) \ {w} /\ inserted[pos(i)] = list[i]
        BY <4>1, <2>2, <1>i
      <4>3. PICK p1 \in 1 .. Len(new) : new[p1] = inserted[pos(i)]
        BY <4>2, <3>6, <3>7, <1>1, KeptOthers
      <4> QED
        BY <4>2, <4>3, <1>4, <1>i
    <3> DEFINE o == IF p[1] = w THEN p[2] ELSE p[1]
    <3>9. o \in (1 .. Len(inserted)) \ {w} /\ IsAp(inserted[o])
      BY <3>4, <3>5, <1>3
    <3>10. PICK len \in Nat : \A q \in 1 .. m : inserted[q].mac \in [1 .. len -> 0 .. 15]
      BY <3>2 DEF ApsOf
    <3>11. MacSimilar(inserted[o].mac, inserted[w].mac)
      <4>1. MacSimilar(inserted[p[2]].mac, inserted[p[1]].mac)
        BY <3>4, <3>10, SimilarSymmetric
      <4> QED
        BY <4>1, <3>4, <3>5
    <3> HIDE DEF o
    <3>12. PICK p1 \in 1 .. Len(new) : new[p1] = inserted[o]
      BY <3>6, <3>7, <3>9, <1>1, KeptOthers
    <3>13. p1 \in 1 .. ApCount(new)
      BY <3>9, <3>12, <1>1, ApPlace
    <3> QED
      BY <3>7, <3>8, <3>11, <3>12, <3>13
  <2>8. CASE ~(m > config.max_ap_beacons)
    <3>1. CellLimit \in Nat
      <4>1. config.total_beacons \in Int /\ config.max_ap_beacons \in Int /\ UintMod \in Nat \ {0}
        BY LimitNames DEF ConfigInv, ConfigRecord
      <4> QED
        BY <4>1 DEF CellLimit
    <3>2. new = RemoveBeacon(inserted, Len(inserted)) /\ Len(inserted) - m > CellLimit
      BY <2>5, <2>6, <2>8 DEF RemoveWorst, RemoveWorstCell, m
    <3>3. m < Len(inserted) /\ Len(inserted) \in 1 .. Len(inserted)
      BY <1>3, <3>1, <3>2
    <3>4. pos(i) \in (1 .. Len(inserted)) \ {Len(inserted)} /\ inserted[pos(i)] = list[i]
      BY <3>3, <2>2, <2>3, <1>i, <1>3
    <3>5. PICK p1 \in 1 .. Len(new) : new[p1] = inserted[pos(i)]
      BY <3>2, <3>3, <3>4, <1>1, KeptOthers
    <3> QED
      BY <3>4, <3>5, <1>4, <1>i
  <2> QED
    BY <2>7, <2>8
<1> QED
  BY <1>c, <1>5, <1>6

\* An AP that is given up although two APs were of one virtual group leaves one
\* that stands in for it.
THEOREM VirtualGroupKept == Spec => VirtualGroupsCovered
<1> DEFINE Covered ==
             \A i \in 1 .. rctx.num_ap :
                LET lost == rctx.beacon[i]
                    kept == {rctx'.beacon[j] : j \in 1 .. rctx'.num_ap}
                IN  /\ Len(rctx'.beacon) >= Len(rctx.beacon)
                    /\ VirtualPairs(rctx.beacon, rctx.num_ap) # {}
                    /\ lost.mac \notin {b.mac : b \in kept}
                    => ~lost.connected /\ \E b \in kept : MacSimilar(b.mac, lost.mac)
<1>1. BeaconsInv /\ BeaconsInv' /\ ConfigInv /\ [Next]_vars => [Covered]_rctx
  <2> SUFFICES ASSUME BeaconsInv, BeaconsInv', ConfigInv, Next, rctx' # rctx,
                      NEW i \in 1 .. rctx.num_ap,
                      Len(rctx'.beacon) >= Len(rctx.beacon),
                      VirtualPairs(rctx.beacon, rctx.num_ap) # {},
                      rctx.beacon[i].mac \notin
                        {b.mac : b \in {rctx'.beacon[j] : j \in 1 .. rctx'.num_ap}}
               PROVE  /\ ~rctx.beacon[i].connected
                      /\ \E b \in {rctx'.beacon[j] : j \in 1 .. rctx'.num_ap} :
                            MacSimilar(b.mac, rctx.beacon[i].mac)
    BY DEF vars
  <2>1. /\ Good(rctx.beacon) /\ rctx.num_ap = ApCount(rctx.beacon)
        /\ rctx'.num_ap = ApCount(rctx'.beacon)
    BY DEF BeaconsInv, ApCount
  <2>2. ~SkyNewRequest
    <3>1. SUFFICES ASSUME SkyNewRequest
                   PROVE  FALSE
      OBVIOUS
    <3>2. rctx'.beacon = <<>>
      BY <3>1 DEF SkyNewRequest
    <3>3. Len(rctx.beacon) \in Nat /\ ApCount(rctx.beacon) \in 0 .. Len(rctx.beacon)
      BY <2>1, ApsFirst DEF Good
    <3> QED
      BY <2>1, <3>2, <3>3
  <2>3. PICK scan \in Scan, timestamp \in Timestamp : SkyAddBeacon(scan, timestamp)
    BY <2>2 DEF Next, SkySetOption, ConfigReceived, SkyOpen, SkyClose
  <2>4. PICK b \in Beacon : rctx'.beacon = AddBeacon(b, rctx.beacon)
    BY <2>3, AddStep
  <2>5. \A p \in 1 .. ApCount(AddBeacon(b, rctx.beacon)) :
            AddBeacon(b, rctx.beacon)[p].mac # rctx.beacon[i].mac
    BY <2>1, <2>4
  <2>6. /\ ~rctx.beacon[i].connected
        /\ \E p \in 1 .. ApCount(AddBeacon(b, rctx.beacon)) :
              MacSimilar(AddBeacon(b, rctx.beacon)[p].mac, rctx.beacon[i].mac)
    BY <2>1, <2>5, VirtualLost
  <2> QED
    BY <2>1, <2>4, <2>6
<1> QED
  BY <1>1, InitBeaconsInv, NextBeaconsInv, InitConfigInv, NextConfigInv,
     PTL DEF Spec, VirtualGroupsCovered
==============================================================================
