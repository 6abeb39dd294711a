------------------------------- MODULE Cache -------------------------------
(***************************************************************************)
(* The client cache of a session: cachelines that hold a scan and the      *)
(* location the server gave for it, the search for a line that matches a   *)
(* new scan, what is sent to the server after a hit, where the answer is   *)
(* saved, and when lines are cleared.                                      *)
(*                                                                         *)
(* A scan is a record: aps is a set of APs, Group tells which of them are  *)
(* virtual APs of one another; cells is a sequence, the serving cell       *)
(* first; gnss is a fix with an error hpe and a position, or NoGnss.  The  *)
(* location in a line is the one of its scan: the response of a request    *)
(* and the beacons it held are saved together.                             *)
(*                                                                         *)
(* Cachelines count from 1 and NoLine stands for index -1.                 *)
(***************************************************************************)
EXTENDS Config, FiniteSets, SequencesExt

CONSTANTS
    Rctx,             \* request contexts that share the session
    Scan,             \* scans a request may build up
    Group,            \* the virtual group of an AP
    Neighbour,        \* cells that are neighbours (NMR)
    CacheSize,        \* CACHE_SIZE
    MaxHits,          \* cache hits in a row before a miss is forced
    MaxSearches,      \* searches of one request
    Epoch,            \* TIMESTAMP_2019_03_01
    ColdClock,        \* what timefn() returns while the clock is not set
    MaxNow            \* bound on real time

ASSUME CacheAssumption ==
    /\ \A s \in Scan : IsFiniteSet(s.aps) /\ (s.cells = <<>> \/ 1 \in DOMAIN s.cells)
    /\ CacheSize \in Nat \ {0}
    /\ Epoch \in Nat /\ ColdClock \in Nat /\ ColdClock < Epoch
    /\ MaxHits \in Nat /\ MaxSearches \in Nat /\ MaxNow \in Nat

VARIABLES
    now, clockSet,   \* real time, and whether timefn() shows it
    config,          \* dynamic configuration
    cacheline,       \* the cachelines
    cache_hits,      \* cache hits in a row, reported to the server
    rctx,            \* the request contexts
    cachedRun        \* history: sizings in a row that found a hit to send

vars == <<now, clockSet, config, cacheline, cache_hits, rctx, cachedRun>>

NoLine == 0
CACHE_EMPTY == 0
NoGnss == [hpe |-> 0, pos |-> -1]
EmptyScan == [aps |-> {}, cells |-> <<>>, gnss |-> NoGnss]

Line == 1 .. CacheSize
EmptyLine == [time |-> CACHE_EMPTY, scan |-> EmptyScan]

Clock == IF clockSet THEN Epoch + now ELSE ColdClock

\* own is the scan the application reported, scan the beacons the request
\* holds: a cache hit replaces them.
IdleRequest ==
    [phase |-> "idle", time |-> 0, own |-> EmptyScan, scan |-> EmptyScan,
     hit |-> FALSE, get_from |-> NoLine, save_to |-> NoLine, searches |-> 0]

Init ==
    /\ now = 0
    /\ clockSet \in BOOLEAN
    /\ config = Built
    /\ cacheline = [i \in Line |-> EmptyLine]
    /\ cache_hits = 0
    /\ rctx = [r \in Rctx |-> IdleRequest]
    /\ cachedRun = 0

----------------------------------------------------------------------------
\* Comparing a request with a cacheline.

\* APs of both scans: an AP of a virtual group matches one other of it.
CachedAps(a, b) ==
    LET members(s, g) == Cardinality({ap \in s.aps : Group[ap] = g})
        common(g) == Min({members(a, g), members(b, g)})
    IN  Cardinality(UNION {{g} \X (1 .. common(g)) : g \in {Group[ap] : ap \in a.aps}})

UniqVg(s) == Cardinality({Group[ap] : ap \in s.aps})

ServingCellChanged(s, line) ==
    /\ s.cells # <<>> /\ line.scan.cells # <<>>
    /\ {s.cells[1], line.scan.cells[1]} \cap Neighbour = {}
    /\ s.cells[1] # line.scan.cells[1]

Distance(g, h) == IF g.pos > h.pos THEN g.pos - h.pos ELSE h.pos - g.pos

\* The scan has a fix and the line has none, a less accurate one or one out
\* of its range.
CachedGnssWorse(s, line) ==
    /\ s.gnss # NoGnss
    /\ \/ line.scan.gnss = NoGnss
       \/ s.gnss.hpe < line.scan.gnss.hpe
       \/ Distance(s.gnss, line.scan.gnss) >= s.gnss.hpe

\* Mutant: a change of the serving cell does not matter.
ComparableAnyCell(s, line) == line.time # CACHE_EMPTY /\ ~CachedGnssWorse(s, line)

\* The line takes part in the comparison.
Comparable(s, line) ==
    /\ line.time # CACHE_EMPTY
    /\ ~ServingCellChanged(s, line)
    /\ ~CachedGnssWorse(s, line)

\* Degree of match, as a fraction of whole numbers.
ApRatio(s, line) ==
    IF line.scan.aps = {} THEN [num |-> 0, den |-> 1]
    ELSE LET score == CachedAps(s, line.scan)
         IN  [num |-> score,
              den |-> Cardinality(s.aps) + Cardinality(line.scan.aps) - score]

CellRatio(s, line) ==
    [num |-> IF ToSet(s.cells) \subseteq ToSet(line.scan.cells) THEN 1 ELSE 0, den |-> 1]

Less(p, q) == p.num * q.den < q.num * p.den

Exceeds(p, percent) == 100 * p.num > percent * p.den

ApThreshold(s) ==
    IF UniqVg(s) <= config.cache_beacon_threshold THEN 99 ELSE config.cache_match_all_threshold

----------------------------------------------------------------------------
\* Clearing lines.

Cleared(line) == [line EXCEPT !.time = CACHE_EMPTY]

\* Mutant: a line expires only after twice its time.
ExpiredLate(line, time) ==
    line.time # CACHE_EMPTY /\ time - line.time > 2 * config.cache_age_threshold

Expired(line, time) ==
    line.time # CACHE_EMPTY /\ time - line.time > config.cache_age_threshold

ExpireLines(time) ==
    [i \in Line |-> IF Expired(cacheline[i], time) THEN Cleared(cacheline[i]) ELSE cacheline[i]]

\* sky_new_request() also clears lines that are too large for the limits, and
\* all lines while the clock is not set.
ClearLines(time) ==
    [i \in Line |->
        LET line == cacheline[i]
        IN  IF \/ Cardinality(line.scan.aps) > config.max_ap_beacons
               \/ Cardinality(line.scan.aps) + Len(line.scan.cells) > config.total_beacons
               \/ time < Epoch
               \/ Expired(line, time)
            THEN Cleared(line) ELSE line]

EmptyLines(lines) == {i \in Line : lines[i].time = CACHE_EMPTY}

----------------------------------------------------------------------------
\* Searching.

\* Mutant: an empty line is not preferred.
ApSaveToIgnoresEmpty(s, lines) ==
    LET eligible == {i \in Line : Comparable(s, lines[i])}
        worst == {i \in eligible :
                    \A j \in eligible : ~Less(ApRatio(s, lines[j]), ApRatio(s, lines[i]))}
    IN  IF worst = {} THEN NoLine ELSE Min(worst)

\* Where the AP plugin would save: the last empty line, else the first one of
\* those that match least, if it does not match entirely.
ApSaveTo(s, lines) ==
    LET eligible == {i \in Line : /\ Comparable(s, lines[i])
                                  /\ ApRatio(s, lines[i]).num < ApRatio(s, lines[i]).den}
        worst == {i \in eligible :
                    \A j \in eligible : ~Less(ApRatio(s, lines[j]), ApRatio(s, lines[i]))}
    IN  IF EmptyLines(lines) # {} THEN Max(EmptyLines(lines))
        ELSE IF worst = {} THEN NoLine ELSE Min(worst)

\* The first of the lines that match best, if any matches at all.
BestLine(ratio, s, lines) ==
    LET eligible == {i \in Line : Comparable(s, lines[i]) /\ ratio[i].num > 0}
        best == {i \in eligible : \A j \in eligible : ~Less(ratio[i], ratio[j])}
    IN  IF best = {} THEN NoLine ELSE Min(best)

\* match() of the AP plugin.  A miss leaves hit as it was and puts false into
\* get_from, which is the index of the first line.
ApMatch(q, lines) ==
    LET ratio == [i \in Line |-> ApRatio(q.scan, lines[i])]
        best == BestLine(ratio, q.scan, lines)
        good == best # NoLine /\ Exceeds(ratio[best], ApThreshold(q.scan))
    IN  [q EXCEPT !.save_to = ApSaveTo(q.scan, lines),
                  !.get_from = IF good THEN best ELSE 1,
                  !.hit = @ \/ good]

\* match() of the cell plugin.
CellMatch(q, lines) ==
    LET best == BestLine([i \in Line |-> CellRatio(q.scan, lines[i])], q.scan, lines)
    IN  [q EXCEPT !.save_to = IF EmptyLines(lines) # {} THEN Min(EmptyLines(lines)) ELSE best,
                  !.get_from = best,
                  !.hit = best # NoLine /\ 100 > config.cache_match_all_threshold]

\* search_cache(): the first plugin that can compare the scan.
SearchCache(q, lines) ==
    IF q.time >= Epoch /\ q.scan.aps # {} THEN ApMatch(q, lines)
    ELSE IF q.time >= Epoch /\ q.scan.cells # <<>> THEN CellMatch(q, lines)
    ELSE [q EXCEPT !.get_from = NoLine, !.hit = FALSE]

\* Mutant: only the index is looked at.
IsCacheHitByIndex(q) == q.get_from # NoLine

IsCacheHit(q) == q.get_from # NoLine /\ q.hit

----------------------------------------------------------------------------
\* Saving.

\* find_oldest(): the first empty line, else the first of the oldest lines
\* older than the request, else the first line.
FindOldest(q) ==
    LET older == {i \in Line : cacheline[i].time < q.time}
        oldest == {i \in older : \A j \in older : cacheline[i].time <= cacheline[j].time}
    IN  IF q.time = 0 THEN 1
        ELSE IF EmptyLines(cacheline) # {} THEN Min(EmptyLines(cacheline))
        ELSE IF oldest # {} THEN Min(oldest)
        ELSE 1

\* Mutant: the time of the location is not checked.
ToCacheAnyTime(q) ==
    [cacheline EXCEPT ![IF q.save_to # NoLine THEN q.save_to ELSE FindOldest(q)] =
        [time |-> Clock, scan |-> q.scan]]

ToCache(q) ==
    IF Clock <= Epoch THEN cacheline
    ELSE [cacheline EXCEPT ![IF q.save_to # NoLine THEN q.save_to ELSE FindOldest(q)] =
            [time |-> Clock, scan |-> q.scan]]

----------------------------------------------------------------------------
\* API calls on request context r.

SkyNewRequest(r) ==
    /\ rctx' = [rctx EXCEPT ![r] = [IdleRequest EXCEPT !.phase = "building", !.time = Clock]]
    /\ cacheline' = ClearLines(Clock)
    /\ UNCHANGED <<now, clockSet, config, cache_hits, cachedRun>>

\* A request that violates a prohibition leaves the cache alone.
SkyNewRequestDenied(r) ==
    /\ rctx' = [rctx EXCEPT ![r] = IdleRequest]
    /\ UNCHANGED <<now, clockSet, config, cacheline, cache_hits, cachedRun>>

Covers(s, t) ==
    /\ t.aps \subseteq s.aps /\ ToSet(t.cells) \subseteq ToSet(s.cells)
    /\ t.gnss # NoGnss => s.gnss # NoGnss

\* The sky_add_*() calls for what a scan adds to the request (see Beacons).
\* Everything is added before the search, as sky_search_cache() asks for.
AddScan(r, s) ==
    /\ rctx[r].phase = "building" /\ rctx[r].searches = 0
    /\ s # rctx[r].own /\ Covers(s, rctx[r].own)
    /\ rctx' = [rctx EXCEPT ![r].own = s, ![r].scan = s]
    /\ UNCHANGED <<now, clockSet, config, cacheline, cache_hits, cachedRun>>

SkySearchCache(r) ==
    LET q == rctx[r]
        lines == IF q.time >= Epoch THEN ExpireLines(q.time) ELSE cacheline
        found == SearchCache(q, lines)
        hit == IsCacheHit(found)
    IN  /\ q.phase = "building" /\ q.searches < MaxSearches
        /\ cacheline' = lines
        /\ rctx' = [rctx EXCEPT ![r] = [found EXCEPT !.hit = hit, !.searches = @ + 1]]
        /\ cache_hits' = IF hit THEN cache_hits ELSE 0
        /\ cachedRun' = IF hit THEN cachedRun ELSE 0
        /\ UNCHANGED <<now, clockSet, config>>

SkyIgnoreCacheHit(r) ==
    /\ rctx[r].phase = "building" /\ IsCacheHit(rctx[r])
    /\ rctx' = [rctx EXCEPT ![r].hit = FALSE]
    /\ UNCHANGED <<now, clockSet, config, cacheline, cache_hits, cachedRun>>

\* Mutant: the last hit is counted once too often.
SkySizeofRequestBufLate(r) ==
    LET q == rctx[r]
    IN  /\ q.phase = "building"
        /\ \/ /\ IsCacheHit(q) /\ cache_hits <= MaxHits
              /\ cache_hits' = cache_hits + 1
              /\ cachedRun' = cachedRun + 1
              /\ rctx' = [rctx EXCEPT ![r].phase = "sized",
                                      ![r].scan = cacheline[q.get_from].scan]
           \/ /\ IsCacheHit(q) /\ cache_hits > MaxHits
              /\ cache_hits' = 0
              /\ cachedRun' = 0
              /\ rctx' = [rctx EXCEPT ![r].phase = "sized", ![r].get_from = NoLine]
           \/ /\ ~IsCacheHit(q)
              /\ cachedRun' = 0
              /\ rctx' = [rctx EXCEPT ![r].phase = "sized"]
              /\ UNCHANGED cache_hits
        /\ UNCHANGED <<now, clockSet, config, cacheline>>

\* A hit sends the beacons of the line, and after MaxHits of them is turned
\* into a miss.  A request that is sized again is counted again; if it becomes
\* a miss then, it keeps the beacons of the line.
SkySizeofRequestBuf(r) ==
    LET q == rctx[r]
    IN  /\ q.phase = "building"
        /\ \/ /\ IsCacheHit(q) /\ cache_hits < MaxHits
              /\ cache_hits' = cache_hits + 1
              /\ cachedRun' = cachedRun + 1
              /\ rctx' = [rctx EXCEPT ![r].phase = "sized",
                                      ![r].scan = cacheline[q.get_from].scan]
           \/ /\ IsCacheHit(q) /\ cache_hits >= MaxHits
              /\ cache_hits' = 0
              /\ cachedRun' = 0
              /\ rctx' = [rctx EXCEPT ![r].phase = "sized", ![r].get_from = NoLine]
           \/ /\ ~IsCacheHit(q)
              /\ cachedRun' = 0
              /\ rctx' = [rctx EXCEPT ![r].phase = "sized"]
              /\ UNCHANGED cache_hits
        /\ UNCHANGED <<now, clockSet, config, cacheline>>

\* The server locates the device, does not, or asks for authentication: then
\* the same request is sized and sent again.  A response to a miss, whatever
\* it says, ends the count of hits.  A request without beacons is not encoded.
SkyDecodeResponse(r) ==
    LET q == rctx[r]
    IN  /\ q.phase = "sized" /\ q.scan # EmptyScan
        /\ \/ cacheline' \in {ToCache(q), cacheline} /\ rctx' = [rctx EXCEPT ![r] = IdleRequest]
           \/ rctx' = [rctx EXCEPT ![r].phase = "building"] /\ UNCHANGED cacheline
        /\ cache_hits' = IF q.hit THEN cache_hits ELSE 0
        /\ UNCHANGED <<now, clockSet, config, cachedRun>>

\* No response arrives, or one that cannot be decoded.
Unanswered(r) ==
    /\ rctx[r].phase = "sized"
    /\ rctx' = [rctx EXCEPT ![r] = IdleRequest]
    /\ UNCHANGED <<now, clockSet, config, cacheline, cache_hits, cachedRun>>

Request(r) ==
    \/ SkyNewRequest(r) \/ SkyNewRequestDenied(r)
    \/ \E s \in Scan : AddScan(r, s)
    \/ SkySearchCache(r) \/ SkyIgnoreCacheHit(r)
    \/ SkySizeofRequestBuf(r) \/ SkyDecodeResponse(r) \/ Unanswered(r)

\* sky_set_option() or a response with configuration overrides, at any time.
Reconfigure ==
    /\ config' \in Reconfigured(config)
    /\ UNCHANGED <<now, clockSet, cacheline, cache_hits, rctx, cachedRun>>

Tick ==
    /\ now < MaxNow
    /\ now' = now + 1
    /\ UNCHANGED <<clockSet, config, cacheline, cache_hits, rctx, cachedRun>>

\* The device gets or loses the time of day.
ClockChange ==
    /\ clockSet' = ~clockSet
    /\ UNCHANGED <<now, config, cacheline, cache_hits, rctx, cachedRun>>

Next ==
    \/ \E r \in Rctx : Request(r)
    \/ Reconfigure \/ Tick \/ ClockChange

Spec == Init /\ [][Next]_vars

----------------------------------------------------------------------------
\* Properties.

\* The state has its type: a line in use has a time at which the device's
\* clock was set, although the clock may be lost at any moment.
TypeOK ==
    /\ now \in 0 .. MaxNow /\ clockSet \in BOOLEAN
    /\ config \in [OptionName -> 0 .. UintMod - 1]
    /\ \A i \in Line :
          /\ cacheline[i].time \in {CACHE_EMPTY} \cup Epoch + 1 .. Epoch + MaxNow
          /\ cacheline[i].scan \in Scan \cup {EmptyScan}
    /\ \A r \in Rctx :
          /\ rctx[r].phase \in {"idle", "building", "sized"}
          /\ {rctx[r].own, rctx[r].scan} \subseteq Scan \cup {EmptyScan}
          /\ {rctx[r].get_from, rctx[r].save_to} \subseteq Line \cup {NoLine}
          /\ rctx[r].hit \in BOOLEAN /\ rctx[r].searches \in 0 .. MaxSearches

\* What makes a line a match: it is fresh, from the same serving cell, not
\* less accurate, and has more APs in common with the scan than the threshold
\* says or, for a scan without APs, all its cells.
Matching(q, line) ==
    /\ line.time # CACHE_EMPTY /\ q.time - line.time <= config.cache_age_threshold
    /\ ~ServingCellChanged(q.scan, line) /\ ~CachedGnssWorse(q.scan, line)
    /\ \/ q.scan.aps # {} /\ Exceeds(ApRatio(q.scan, line), ApThreshold(q.scan))
       \/ /\ q.scan.aps = {} /\ q.scan.cells # <<>>
          /\ Exceeds(CellRatio(q.scan, line), config.cache_match_all_threshold)

Searched(r) == rctx'[r].searches = rctx[r].searches + 1

\* The first search of a request tells a hit exactly if a line matches, and no
\* line matches better than the one it names (sky_search_cache).
SearchFindsBestMatch ==
    [][\A r \in Rctx :
          LET q == rctx[r]
              line == cacheline[rctx'[r].get_from]
              Ratio(s, l) == IF s.aps # {} THEN ApRatio(s, l) ELSE CellRatio(s, l)
              matching == {i \in Line : q.time >= Epoch /\ Matching(q, cacheline[i])}
          IN  Searched(r) =>
                /\ IsCacheHit(rctx'[r]) <=> matching # {}
                /\ IsCacheHit(rctx'[r]) =>
                     /\ rctx'[r].get_from \in matching
                     /\ \A i \in matching :
                          ~Less(Ratio(q.scan, line), Ratio(q.scan, cacheline[i]))]_vars

\* A request carries the beacons of the application's own scan, or those of a
\* line from the same place, as far as the scan can tell: a beacon in common,
\* the same serving cell, no better fix at hand.
SentBeaconsFit ==
    \A r \in Rctx :
       LET q == rctx[r]
           sent == [time |-> q.time, scan |-> q.scan]
       IN  q.phase = "sized" /\ q.scan # q.own =>
             /\ CachedAps(q.own, q.scan) > 0 \/ ToSet(q.own.cells) \cap ToSet(q.scan.cells) # {}
             /\ ~ServingCellChanged(q.own, sent) /\ ~CachedGnssWorse(q.own, sent)

\* cache_hits counts at least the hits in a row that were sent, so that a miss
\* is forced after MaxHits of them, whichever requests are ignored, abandoned,
\* never answered or sent again after a refusal.
HitsCounted == cachedRun <= cache_hits /\ cache_hits <= MaxHits

\* A location in a line is never overwritten by a response while another line
\* is empty, wherever save_to was found.
SavesToEmptyFirst ==
    [][\A i \in Line :
          cacheline'[i].time > cacheline[i].time /\ cacheline[i].time # CACHE_EMPTY
            => EmptyLines(cacheline) = {}]_vars

\* sky_search_cache(): "Loc is set to the location of the matching cache when a
\* cache hit", also if the thresholds change and the application searches again.
HitIsMatch ==
    [][\A r \in Rctx :
          Searched(r) /\ IsCacheHit(rctx'[r])
            => Matching(rctx[r], cacheline[rctx'[r].get_from])]_vars
============================================================================
