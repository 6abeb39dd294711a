------------------------------ MODULE Beacons ------------------------------
(***************************************************************************)
(* The list of beacons of a request context while the application adds its *)
(* scans: validation, duplicates, the order of the list and the beacon     *)
(* given up when there are too many (add_beacon), under limits that        *)
(* sky_set_option() and the server may change at any time.                 *)
(*                                                                         *)
(* A beacon is a record: type, rssi, connected and age of every beacon,    *)
(* mac, freq and used of an AP, the ids of Cells of a cell.                *)
(***************************************************************************)
EXTENDS Config, ApPlugin, CellPlugin

CONSTANTS
    Scan,               \* beacons as the application reports them
    Timestamp,          \* times of scans
    RequestTime,        \* values of timefn() when a request starts
    Epoch,              \* TIMESTAMP_2019_03_01
    UsedMacs            \* what the cache may know: sets of MACs marked used

\* What the calls that add a scan make of their arguments.
ApScan ==
    [type : {"AP"}, mac : Seq(0 .. 15), freq : Int, rssi : Int, connected : BOOLEAN,
     age : Int, used : BOOLEAN]

CellScan ==
    [type : CellType, id1 : Int, id2 : Int, id3 : Int, id4 : Int, id5 : Int, freq : Int,
     ta : Int, rssi : Int, connected : BOOLEAN, age : Int]

\* All MACs are of the same length, in the code MAC_SIZE bytes.
ASSUME ScanAssumption ==
    /\ Scan \subseteq ApScan \cup CellScan
    /\ \A s, t \in Scan : IsAp(s) /\ IsAp(t) => Len(s.mac) = Len(t.mac)
    /\ Timestamp \subseteq Int /\ RequestTime \subseteq Nat /\ Epoch \in Nat

VARIABLES
    open,     \* the session is open
    config,   \* dynamic configuration
    rctx,     \* the request context
    cached    \* MACs of the used APs in the cachelines

vars == <<open, config, rctx, cached>>

TIME_UNAVAILABLE == 0

NoRequest == [magic |-> FALSE, time |-> 0, beacon |-> <<>>, num_ap |-> 0]

Init ==
    /\ open = TRUE
    /\ config = Built
    /\ rctx = NoRequest
    /\ cached = {}

----------------------------------------------------------------------------
\* Validation.

RssiRange ==
    [AP |-> -127 .. -10, LTE |-> -140 .. -40, NBIOT |-> -156 .. -44,
     GSM |-> -128 .. -32, UMTS |-> -120 .. -20, CDMA |-> -140 .. -49, NR |-> -140 .. -40]

\* All zeros or all ones.
ValidMac(mac) == \A d \in {0, 15} : \E i \in DOMAIN mac : mac[i] # d

ValidBeacon(b) == IF IsAp(b) THEN ValidMac(b.mac) ELSE ValidIds(b)

UNKNOWN_FREQ == 0    \* of an AP

\* What validate_beacon() corrects: a neighbour is not connected and has no
\* timing advance.
Corrected(b) ==
    LET rssi == IF b.rssi \in RssiRange[b.type] THEN b.rssi ELSE UNKNOWN_RSSI
    IN  IF IsAp(b)
        THEN [b EXCEPT !.rssi = rssi, !.freq = IF @ \in 2400 .. 6000 THEN @ ELSE UNKNOWN_FREQ]
        ELSE IF IsNmr(b)
        THEN [b EXCEPT !.rssi = rssi, !.connected = FALSE, !.ta = UNKNOWN.ta]
        ELSE [b EXCEPT !.rssi = rssi]

ValidRequestCtx ==
    /\ rctx.magic
    /\ Len(rctx.beacon) <= TOTAL_BEACONS + 1
    /\ rctx.num_ap <= MAX_AP_BEACONS + 1

\* A scan without a time, or in a request without one, counts as new.
Age(timestamp) ==
    IF TIME_UNAVAILABLE \in {rctx.time, timestamp} THEN 0 ELSE rctx.time - timestamp

\* Mutant: a scan may be of a later time than the request.
AcceptedFromFuture(b, timestamp) ==
    /\ ValidRequestCtx /\ open /\ ValidBeacon(b)
    /\ timestamp # TIME_UNAVAILABLE => timestamp >= Epoch

\* add_beacon() takes the scan; otherwise it returns an error code and leaves
\* the request as it is.
Accepted(b, timestamp) ==
    /\ ValidRequestCtx
    /\ open
    /\ ValidBeacon(b)
    /\ timestamp # TIME_UNAVAILABLE => timestamp >= Epoch
    /\ Age(timestamp) >= 0

----------------------------------------------------------------------------
\* Insertion.

\* Mutant: the age of a duplicate is not looked at.
KeepNewIgnoresAge(b, x) == b.connected \/ b.rssi >= x.rssi

\* The new beacon b replaces its duplicate x.
KeepNew(b, x) ==
    \/ b.age < x.age
    \/ /\ b.age = x.age
       /\ b.connected \/ (b.connected = x.connected /\ b.rssi > x.rssi)

\* sky_plugin_equal: the first plugin that knows both kinds.
Equal(a, b) ==
    \/ IsAp(a) /\ IsAp(b) /\ ApEqual(a, b)
    \/ IsCell(a) /\ IsCell(b) /\ CellEqual(a, b)

\* Mutant: a new AP goes before every other beacon.
IsBeaconFirstByKind(b, x) ==
    IF IsAp(b) THEN TRUE ELSE IsCell(x) /\ CellFirst(b, x)

IsBeaconFirst(b, x) ==
    IF IsAp(b) /\ IsAp(x) THEN ApFirst(b, x)
    ELSE IF IsCell(b) /\ IsCell(x) THEN CellFirst(b, x)
    ELSE TypeRank[b.type] <= TypeRank[x.type]

Duplicates(b, list) == {j \in DOMAIN list : Equal(b, list[j])}

\* Nothing is removed at an index beyond the list.
RemoveBeacon(list, i) == IF i \in DOMAIN list THEN RemoveAt(list, i) ELSE list

\* A request of TOTAL_BEACONS + 1 beacons has no element left for one more.  Here
\* the list grows as if it had; what the write beyond the array destroys (the
\* fix, the result of the search, the pointer to the session) is left out.
Insert(b, list) ==
    InsertAt(list, Min({j \in DOMAIN list : IsBeaconFirst(b, list[j])} \cup {Len(list) + 1}), b)

\* Mutant: the duplicate that is replaced stays.
InsertBeaconKeepsDuplicate(b, list) ==
    IF \E j \in Duplicates(b, list) : ~KeepNew(b, list[j]) THEN list ELSE Insert(b, list)

InsertBeacon(b, list) ==
    IF Duplicates(b, list) = {} THEN Insert(b, list)
    ELSE LET j == Min(Duplicates(b, list))
         IN  IF KeepNew(b, list[j]) THEN Insert(b, RemoveBeacon(list, j)) ELSE list

----------------------------------------------------------------------------
\* Filtering.

ApCount(list) == Cardinality({i \in DOMAIN list : IsAp(list[i])})

\* total_beacons - max_ap_beacons, unsigned: beyond the length of any list if
\* it is negative.
CellLimit == (config.total_beacons - config.max_ap_beacons) % UintMod

\* Mutant: cells are not limited.
WithinLimitsApsOnly(list) == ApCount(list) <= config.max_ap_beacons

WithinLimits(list) ==
    /\ ApCount(list) <= config.max_ap_beacons
    /\ Len(list) - ApCount(list) <= CellLimit

\* Mutant: a list is filtered only once it is full.
RemoveWorstWhenFull(list) ==
    IF Len(list) <= TOTAL_BEACONS THEN list
    ELSE RemoveBeacon(list, Len(list))

\* remove_worst() of the cell plugin: cells are in the order of priority.
RemoveWorstCell(list) ==
    IF Len(list) - ApCount(list) > CellLimit THEN RemoveBeacon(list, Len(list)) ELSE list

\* sky_plugin_remove_worst: the AP plugin, or the cell plugin if there are
\* not too many APs.
RemoveWorst(list) ==
    IF ApCount(list) > config.max_ap_beacons
    THEN RemoveBeacon(list, WorstAp(list, ApCount(list), config.cache_neg_rssi_threshold))
    ELSE RemoveWorstCell(list)

\* A duplicate that was replaced made the list no longer.
AddBeacon(b, list) ==
    LET inserted == InsertBeacon(b, list)
    IN  IF Len(inserted) = Len(list) \/ WithinLimits(inserted)
        THEN inserted
        ELSE RemoveWorst(inserted)

----------------------------------------------------------------------------
\* API calls.

\* The beacon of a scan: an AP that is in the cache takes its used property
\* from there.
Scanned(scan, age) ==
    LET b == [Corrected(scan) EXCEPT !.age = age]
    IN  IF IsAp(b) THEN [b EXCEPT !.used = b.mac \in cached] ELSE b

\* sky_add_ap_beacon() and the calls that add a cell.
SkyAddBeacon(scan, timestamp) ==
    /\ Accepted(scan, timestamp)
    /\ LET list == AddBeacon(Scanned(scan, Age(timestamp)), rctx.beacon)
       IN  rctx' = [rctx EXCEPT !.beacon = list, !.num_ap = ApCount(list)]
    /\ UNCHANGED <<open, config, cached>>

SkyNewRequest ==
    /\ open
    /\ \E time \in RequestTime :
          rctx' = [magic |-> TRUE, time |-> time, beacon |-> <<>>, num_ap |-> 0]
    /\ cached' \in UsedMacs
    /\ UNCHANGED <<open, config>>

\* Any value of any option, whatever the request holds.
SkySetOption ==
    /\ rctx.magic
    /\ \E o \in Option : config' = SetOption(config, o[1], o[2])
    /\ UNCHANGED <<open, rctx, cached>>

\* The configuration in a response to any request of the session.
ConfigReceived ==
    /\ open
    /\ \E override \in Override : config' = ApplyConfigOverrides(config, override)
    /\ UNCHANGED <<open, rctx, cached>>

\* With other credentials the session, and with it the cache, starts afresh.
SkyOpen ==
    /\ ~open
    /\ open' = TRUE
    /\ \/ config' = ConfigDefaults(config) /\ UNCHANGED cached
       \/ config' = Built /\ cached' = {}
    /\ UNCHANGED rctx

SkyClose ==
    /\ open
    /\ open' = FALSE
    /\ UNCHANGED <<config, rctx, cached>>

Next ==
    \/ \E scan \in Scan, timestamp \in Timestamp : SkyAddBeacon(scan, timestamp)
    \/ SkyNewRequest
    \/ SkySetOption
    \/ ConfigReceived
    \/ SkyOpen
    \/ SkyClose

Spec == Init /\ [][Next]_vars

----------------------------------------------------------------------------
\* Properties.

\* The state has its type.  validate_request_ctx() ends the growth of a list
\* that is not trimmed at one beacon beyond the array.
TypeOK ==
    /\ open \in BOOLEAN
    /\ DOMAIN config = OptionName
    /\ \A name \in OptionName : config[name] \in 0 .. UintMod - 1
    /\ rctx.magic \in BOOLEAN /\ rctx.time \in RequestTime \cup {0}
    /\ \A i \in DOMAIN rctx.beacon :
          LET b == rctx.beacon[i]
          IN  /\ b.age \in Nat /\ (IsAp(b) => b.used \in BOOLEAN)
              /\ ValidBeacon(b) /\ Corrected(b) = b
    /\ Len(rctx.beacon) <= TOTAL_BEACONS + 2
    /\ cached \in UsedMacs \cup {{}}

\* The APs are the first num_ap beacons, strongest first; the cells follow in
\* order of priority, then age, then type, then strength.  set_priorities()
\* and the cell plugin, which removes the last beacon, rely on it.
Ordered ==
    LET list == rctx.beacon
    IN  /\ \A i \in DOMAIN list : IsAp(list[i]) <=> i <= rctx.num_ap
        /\ \A i, j \in DOMAIN list :
              i < j /\ IsAp(list[i]) /\ IsAp(list[j])
                => EffectiveRssi(list[i]) >= EffectiveRssi(list[j])
        /\ \A i, j \in DOMAIN list :
              i < j /\ IsCell(list[i]) /\ IsCell(list[j]) => CellFirst(list[i], list[j])

\* No AP or cell is sent to the server twice, whatever was replaced, trimmed
\* and added again: insert_beacon() looks at the first duplicate only.
NoDuplicates ==
    \A i, j \in DOMAIN rctx.beacon : i # j => ~Equal(rctx.beacon[i], rctx.beacon[j])

\* "For duplicates, keep newest and strongest": as long as a request holds an
\* AP or a cell, what it knows of it never gets older.
KeepsNewest ==
    [][\A i \in DOMAIN rctx.beacon, j \in DOMAIN rctx'.beacon :
          Equal(rctx.beacon[i], rctx'.beacon[j])
            => rctx'.beacon[j].age <= rctx.beacon[i].age]_rctx

\* remove_virtual_ap() gives up only APs another AP stands in for: if an AP is
\* trimmed although two unconnected APs were of one virtual group, one that
\* is similar to it stays.
VirtualGroupsCovered ==
    [][\A i \in 1 .. rctx.num_ap :
          LET lost == rctx.beacon[i]
              kept == {rctx'.beacon[j] : j \in 1 .. rctx'.num_ap}
          IN  /\ Len(rctx'.beacon) >= Len(rctx.beacon)
              /\ VirtualPairs(rctx.beacon, rctx.num_ap) # {}
              /\ lost.mac \notin {b.mac : b \in kept}
              => ~lost.connected /\ \E b \in kept : MacSimilar(b.mac, lost.mac)]_rctx

\* The lists on which add_beacon() is about to give up an AP by priority.
ListsToTrim ==
    LET Added(scan) == InsertBeacon(Scanned(scan, 0), rctx.beacon)
    IN  {list \in {Added(scan) : scan \in {s \in Scan : ValidBeacon(s)}} :
            /\ ApCount(list) > config.max_ap_beacons
            /\ RemoveVirtualAp(list, ApCount(list)) = 0
            /\ RemoveOldestAp(list, ApCount(list)) = 0}

\* If no AP of the list is weak, set_priorities() gives up the one with the
\* lowest priority and, if there are several, the one with the highest MAC,
\* although it visits the list from both ends to the middle.
EvictsLowestPriority ==
    \A list \in ListsToTrim :
       LET n == ApCount(list)
           worst == WorstAp(list, n, config.cache_neg_rssi_threshold)
       IN  ~BelowRssiThreshold(list[n], config.cache_neg_rssi_threshold) =>
             \A j \in 1 .. n \ {worst} :
                \/ GetPriority(list, n, worst) < GetPriority(list, n, j)
                \/ /\ GetPriority(list, n, worst) = GetPriority(list, n, j)
                   /\ MacLower(list[j].mac, list[worst].mac)

\* However the limits change while the application adds its scans, the list
\* grows only within the limits in force and then trades one beacon for
\* another (add_beacon removes at most one beacon per call).  Limits that do
\* not fit each other (a total below max_ap_beacons) do not limit the cells.
List == INSTANCE BeaconList WITH
    num_ap <- rctx.num_ap,
    num_cells <- Len(rctx.beacon) - rctx.num_ap,
    total_beacons <- config.total_beacons,
    max_ap_beacons <- config.max_ap_beacons
ImplementsList == List!Spec

\* Sky_rctx_t.beacon has one element to spare, for the beacon that add_beacon()
\* is about to trim.  However many beacons a request holds when its limits are
\* lowered, and whatever limits it had before, no call uses the spare element
\* up while the limits in force fit each other.
RoomKept == List!RoomKept

\* remove_virtual_ap(): "remove the worse such candidate".  An AP that was used
\* to find a location is not given up while another candidate, of any group,
\* that was not used stays.
WorseVirtualRemoved ==
    [][\A i, k \in 1 .. rctx.num_ap :
          LET lost == rctx.beacon[i]
              kept == {rctx'.beacon[j].mac : j \in 1 .. rctx'.num_ap}
          IN  /\ Len(rctx'.beacon) >= Len(rctx.beacon)
              /\ {i, k} \subseteq VirtualCandidates(rctx.beacon, rctx.num_ap)
              /\ lost.mac \notin kept
              /\ rctx.beacon[k].mac \in kept
              => ConnectedUsedRank(lost) <= ConnectedUsedRank(rctx.beacon[k])]_rctx

\* The comments of sky_add_cell_*(), "physical cell ID (0-1007)": a cell whose
\* ids are in the ranges given there is accepted.
AcceptedAsDocumented ==
    \A scan \in Scan :
       open /\ rctx.magic /\ IsCell(scan) /\ DocumentedIds(scan)
          => Accepted(scan, TIME_UNAVAILABLE)

\* Sky_rctx_t.beacon has TOTAL_BEACONS + 1 elements, and to hold more is an
\* error to validate_request_ctx(), "Too many beacons".
HeldInArray == Len(rctx.beacon) <= TOTAL_BEACONS + 1
============================================================================
