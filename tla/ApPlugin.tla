------------------------------ MODULE ApPlugin ------------------------------
(***************************************************************************)
(* The access point plugin (ap_plugin_basic.c) as operators on the list of *)
(* beacons of a request: equality, order, and the choice of the AP to give *)
(* up when there are too many.  APs are the first n elements of the list.  *)
(*                                                                         *)
(* A MAC address is the sequence of its nibbles, of which only as many as  *)
(* the instance needs are kept; the second one holds the local admin bit.  *)
(***************************************************************************)
EXTENDS Integers, FiniteSets, SequencesExt

UNKNOWN_RSSI == -1
CONNECTED == 512
HIGHEST_PRIORITY == 65535

IsAp(b) == b.type = "AP"

EffectiveRssi(b) == IF b.rssi = UNKNOWN_RSSI THEN -127 ELSE b.rssi

MacLower(m, n) ==
    \E i \in DOMAIN m : m[i] < n[i] /\ \A j \in 1 .. i - 1 : m[j] = n[j]

LocalAdmin(mac) == (mac[2] \div 2) % 2

\* At most one nibble differs, and not by the local admin bit: one group of
\* virtual APs.
MacSimilar(m, n) ==
    /\ Cardinality({i \in DOMAIN m : m[i] # n[i]}) <= 1
    /\ LocalAdmin(m) = LocalAdmin(n)

ApEqual(a, b) == a.mac = b.mac

\* b goes before x in the list.  A tie of effective strengths that are not
\* the same value is one for b.
ApFirst(b, x) ==
    IF b.rssi # x.rssi
    THEN EffectiveRssi(b) >= EffectiveRssi(x)
    ELSE ~MacLower(x.mac, b.mac)

----------------------------------------------------------------------------
\* Giving up an AP: of a virtual group, else the oldest, else the one that
\* spoils the distribution of signal strengths.  0 stands for none.

ConnectedUsedRank(b) == (IF b.connected THEN 2 ELSE 0) + (IF b.used THEN 1 ELSE 0)

\* Mutant: any two unconnected APs are taken for one group.
VirtualPairsAnyMac(list, n) ==
    {p \in (1 .. n) \X (1 .. n) :
        p[1] < p[2] /\ ~list[p[1]].connected /\ ~list[p[2]].connected}

\* The pairs of unconnected APs of one virtual group.
VirtualPairs(list, n) ==
    {p \in (1 .. n) \X (1 .. n) :
        /\ p[1] < p[2]
        /\ ~list[p[1]].connected /\ ~list[p[2]].connected
        /\ MacSimilar(list[p[1]].mac, list[p[2]].mac)}

\* i has the better properties or, if they are the same, the lower MAC.
VirtualPreferred(i, j, list) ==
    LET ri == ConnectedUsedRank(list[i])
        rj == ConnectedUsedRank(list[j])
    IN  ri > rj \/ (ri = rj /\ MacLower(list[i].mac, list[j].mac))

VirtualCandidates(list, n) ==
    {IF VirtualPreferred(p[1], p[2], list) THEN p[2] ELSE p[1] : p \in VirtualPairs(list, n)}

\* The candidate with the best properties, and of those the highest MAC.
RemoveVirtualAp(list, n) ==
    LET candidates == VirtualCandidates(list, n)
        NotAfter(k, m) ==
            LET rk == ConnectedUsedRank(list[k])
                rm == ConnectedUsedRank(list[m])
            IN  rm > rk \/ (rm = rk /\ ~MacLower(list[m].mac, list[k].mac))
    IN  IF candidates = {} THEN 0
        ELSE CHOOSE k \in candidates : \A m \in candidates : NotAfter(m, k)

RemoveOldestAp(list, n) ==
    LET ages == {list[i].age : i \in 1 .. n}
    IN  IF Cardinality(ages) <= 1 THEN 0
        ELSE Min({i \in 1 .. n : list[i].age = Max(ages)})

Magnitude(x) == IF x < 0 THEN -x ELSE x

\* n - 1 times the priority of AP j: how far its strength is from where an
\* even spread over the APs would put it.
GetPriority(list, n, j) ==
    LET E(k) == EffectiveRssi(list[k])
    IN  (n - 1) * ((IF list[j].connected THEN CONNECTED ELSE 0) + 128)
        - Magnitude((n - 1) * (E(j) - E(1)) + (j - 1) * (E(1) - E(n)))

BelowRssiThreshold(b, threshold) == EffectiveRssi(b) < -threshold

\* From both ends to the middle: 1, n, 2, n - 1, ...
VisitOrder(n) ==
    [k \in 1 .. n |-> IF k % 2 = 1 THEN (k + 1) \div 2 ELSE n + 1 - k \div 2]

\* Mutant: the last AP visited wins a tie.
SetPrioritiesNoTieBreak(list, n, threshold) ==
    LET Visit(acc, j) ==
            LET p == GetPriority(list, n, j)
            IN  IF p <= acc.priority THEN [idx |-> j, priority |-> p] ELSE acc
    IN  FoldLeft(Visit, [idx |-> n \div 2 + 1, priority |-> (n - 1) * HIGHEST_PRIORITY],
                 VisitOrder(n)).idx

\* The scan for the worst AP starts from the middle at the highest priority.
SetPriorities(list, n, threshold) ==
    LET weakOnly == BelowRssiThreshold(list[n], threshold)
        Visit(acc, j) ==
            LET p == GetPriority(list, n, j)
            IN  IF /\ \/ weakOnly /\ BelowRssiThreshold(list[j], threshold)
                      \/ p <= acc.priority
                   /\ p # acc.priority \/ MacLower(list[acc.idx].mac, list[j].mac)
                THEN [idx |-> j, priority |-> p]
                ELSE acc
    IN  FoldLeft(Visit,
                 [idx |-> n \div 2 + 1, priority |-> (n - 1) * HIGHEST_PRIORITY],
                 VisitOrder(n)).idx

\* The AP remove_worst removes when there are more than it may keep.
WorstAp(list, n, threshold) ==
    LET virtual == RemoveVirtualAp(list, n)
        oldest == RemoveOldestAp(list, n)
    IN  IF virtual # 0 THEN virtual
        ELSE IF oldest # 0 THEN oldest
        ELSE SetPriorities(list, n, threshold)
=============================================================================
