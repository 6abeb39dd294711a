----------------------------- MODULE CacheProofs -----------------------------
(***************************************************************************)
(* Theorems about Cache, for every size of the cache, every set of scans   *)
(* and every configuration.                                                *)
(*                                                                         *)
(*   CacheTypeCorrect   Spec => []TypeOK                                   *)
(*   CountsHits         with one request context, a miss is forced in time *)
(*   SendsFittingScan   with one request context that is searched once,    *)
(*                      what a hit sends is from the same place            *)
(*   SavesWhereEmpty    and no location is lost while a line is empty      *)
(*   FindsBestMatch     with one search for each request, a search tells a *)
(*                      hit exactly if a line matches, and names the best  *)
(***************************************************************************)
EXTENDS Cache, CommonProofs, FiniteSetTheorems

(***************************************************************************)
(* Type correctness.                                                       *)
(***************************************************************************)

Held == Scan \cup {EmptyScan}

LineTime == {CACHE_EMPTY} \cup Epoch + 1 .. Epoch + MaxNow

LineRecord == [time : LineTime, scan : Held]

RequestRecord ==
    [phase : {"idle", "building", "sized"}, time : Nat, own : Held, scan : Held,
     hit : BOOLEAN, get_from : Line \cup {NoLine}, save_to : Line \cup {NoLine},
     searches : 0 .. MaxSearches]

Typed ==
    /\ now \in 0 .. MaxNow /\ clockSet \in BOOLEAN
    /\ config \in ConfigRecord
    /\ cacheline \in [Line -> LineRecord]
    /\ rctx \in [Rctx -> RequestRecord]
    /\ cache_hits \in Nat /\ cachedRun \in Nat

LEMMA TypedIsTypeOK == Typed => TypeOK
BY DEF Typed, TypeOK, ConfigRecord, LineRecord, LineTime, RequestRecord, Held

\* Clearing lines leaves cachelines.
LEMMA LinesTyped ==
    ASSUME Typed, NEW t
    PROVE  /\ ExpireLines(t) \in [Line -> LineRecord]
           /\ ClearLines(t) \in [Line -> LineRecord]
<1>1. \A i \in Line : cacheline[i] \in LineRecord /\ Cleared(cacheline[i]) \in LineRecord
  BY DEF Typed, LineRecord, LineTime, Cleared
<1> QED
  BY <1>1 DEF ExpireLines, ClearLines

\* The choices of a search are lines, or none.
LEMMA LineChoice ==
    ASSUME NEW S \in SUBSET Line, S # {}
    PROVE  Min(S) \in S /\ Max(S) \in S
<1>1. CacheSize \in Nat /\ S \in SUBSET Nat /\ S \in SUBSET (0 .. CacheSize)
  BY CacheAssumption DEF Line
<1> QED
  BY <1>1, LeastNatural, GreatestNatural

LEMMA BestLineTyped ==
    ASSUME NEW ratio, NEW s, NEW lines
    PROVE  /\ BestLine(ratio, s, lines) \in Line \cup {NoLine}
           /\ BestLine(ratio, s, lines) # NoLine =>
                LET i == BestLine(ratio, s, lines)
                IN  i \in Line /\ Comparable(s, lines[i]) /\ ratio[i].num > 0
<1> DEFINE eligible == {i \in Line : Comparable(s, lines[i]) /\ ratio[i].num > 0}
           best == {i \in eligible : \A j \in eligible : ~Less(ratio[i], ratio[j])}
<1>1. best # {} => Min(best) \in best
  <2>1. best \in SUBSET Line
    OBVIOUS
  <2> HIDE DEF best
  <2> QED
    BY <2>1, LineChoice
<1>2. BestLine(ratio, s, lines) = IF best = {} THEN NoLine ELSE Min(best)
  BY DEF BestLine
<1> QED
  BY <1>1, <1>2

LEMMA ApSaveToTyped ==
    ASSUME NEW s, NEW lines
    PROVE  /\ ApSaveTo(s, lines) \in Line \cup {NoLine}
           /\ EmptyLines(lines) # {} => ApSaveTo(s, lines) \in EmptyLines(lines)
<1> DEFINE eligible == {i \in Line : /\ Comparable(s, lines[i])
                                     /\ ApRatio(s, lines[i]).num < ApRatio(s, lines[i]).den}
           worst == {i \in eligible :
                       \A j \in eligible : ~Less(ApRatio(s, lines[j]), ApRatio(s, lines[i]))}
<1>1. worst # {} => Min(worst) \in Line
  <2>1. worst \in SUBSET Line
    OBVIOUS
  <2> HIDE DEF worst
  <2> QED
    BY <2>1, LineChoice
<1>2. EmptyLines(lines) \in SUBSET Line
  BY DEF EmptyLines
<1>3. EmptyLines(lines) # {} => Max(EmptyLines(lines)) \in EmptyLines(lines)
  BY <1>2, LineChoice
<1>4. ApSaveTo(s, lines) =
        IF EmptyLines(lines) # {} THEN Max(EmptyLines(lines))
        ELSE IF worst = {} THEN NoLine ELSE Min(worst)
  BY DEF ApSaveTo
<1> HIDE DEF worst
<1> QED
  BY <1>1, <1>2, <1>3, <1>4

LEMMA CellSaveToTyped ==
    ASSUME NEW q, NEW lines
    PROVE  LET i == CellMatch(q, lines).save_to
           IN  q \in RequestRecord =>
                 /\ i \in Line \cup {NoLine}
                 /\ EmptyLines(lines) # {} => i \in EmptyLines(lines)
<1> DEFINE best == BestLine([i \in Line |-> CellRatio(q.scan, lines[i])], q.scan, lines)
<1>1. best \in Line \cup {NoLine}
  BY BestLineTyped
<1>2. EmptyLines(lines) \in SUBSET Line
  BY DEF EmptyLines
<1>3. EmptyLines(lines) # {} => Min(EmptyLines(lines)) \in EmptyLines(lines)
  BY <1>2, LineChoice
<1>4. q \in RequestRecord =>
        CellMatch(q, lines).save_to =
          IF EmptyLines(lines) # {} THEN Min(EmptyLines(lines)) ELSE best
  BY DEF CellMatch, RequestRecord
<1> HIDE DEF best
<1> QED
  BY <1>1, <1>2, <1>3, <1>4

\* The line is from the place of scan s, as far as s can tell.
Fits(s, line) ==
    /\ \/ CachedAps(s, line.scan) > 0
       \/ ToSet(s.cells) \cap ToSet(line.scan.cells) # {}
    /\ ~ServingCellChanged(s, line) /\ ~CachedGnssWorse(s, line)

\* What a line the plugins may choose has in common with the scan.
LEMMA MatchFits ==
    ASSUME NEW s, NEW line, Comparable(s, line),
           \/ ApRatio(s, line).num > 0
           \/ 1 \in DOMAIN s.cells /\ CellRatio(s, line).num > 0
    PROVE  Fits(s, line)
<1>1. ~ServingCellChanged(s, line) /\ ~CachedGnssWorse(s, line)
  BY DEF Comparable
<1>2. CASE ApRatio(s, line).num > 0
  <2>1. CachedAps(s, line.scan) > 0
    BY <1>2 DEF ApRatio
  <2> QED
    BY <1>1, <2>1 DEF Fits
<1>3. CASE 1 \in DOMAIN s.cells /\ CellRatio(s, line).num > 0
  <2>1. ToSet(s.cells) \subseteq ToSet(line.scan.cells)
    BY <1>3 DEF CellRatio
  <2>2. s.cells[1] \in ToSet(s.cells)
    BY <1>3 DEF ToSet
  <2> QED
    BY <1>1, <2>1, <2>2 DEF Fits
<1> QED
  BY <1>2, <1>3

\* What a search of the cache changes in a request.
SearchResult(q, found, lines) ==
    /\ found \in RequestRecord
    /\ found.phase = q.phase /\ found.time = q.time
    /\ found.own = q.own /\ found.scan = q.scan /\ found.searches = q.searches
    /\ \/ found.save_to = q.save_to
       \/ EmptyLines(lines) # {} => found.save_to \in EmptyLines(lines)
    /\ ~q.hit /\ IsCacheHit(found) => Fits(q.scan, lines[found.get_from])

LEMMA ApMatchResult ==
    ASSUME NEW q \in RequestRecord, NEW lines
    PROVE  SearchResult(q, ApMatch(q, lines), lines)
<1> DEFINE ratio == [i \in Line |-> ApRatio(q.scan, lines[i])]
           best == BestLine(ratio, q.scan, lines)
           save == ApSaveTo(q.scan, lines)
           good == best # NoLine /\ Exceeds(ratio[best], ApThreshold(q.scan))
<1>1. best \in Line \cup {NoLine}
  BY BestLineTyped
<1>2. best # NoLine => Comparable(q.scan, lines[best]) /\ ApRatio(q.scan, lines[best]).num > 0
  <2>1. best # NoLine => best \in Line /\ Comparable(q.scan, lines[best]) /\ ratio[best].num > 0
    <3> HIDE DEF ratio
    <3> QED
      BY BestLineTyped
  <2> HIDE DEF best
  <2> QED
    BY <2>1
<1>3. best # NoLine => Fits(q.scan, lines[best])
  <2> HIDE DEF best
  <2> QED
    BY <1>2, MatchFits
<1>4. /\ save \in Line \cup {NoLine}
      /\ EmptyLines(lines) # {} => save \in EmptyLines(lines)
  BY ApSaveToTyped
<1>5. ApMatch(q, lines) =
        [q EXCEPT !.save_to = save, !.get_from = IF good THEN best ELSE 1, !.hit = @ \/ good]
  BY DEF ApMatch
<1>6. 1 \in Line /\ good \in BOOLEAN
  BY CacheAssumption DEF Line
<1>7. good => best # NoLine
  OBVIOUS
<1> HIDE DEF best, save, good
<1>8. q.hit \/ good \in BOOLEAN
  BY <1>6 DEF RequestRecord
<1>9. (IF good THEN best ELSE 1) \in Line \cup {NoLine}
  BY <1>1, <1>6
<1>10. ApMatch(q, lines) \in RequestRecord
  BY <1>4, <1>5, <1>8, <1>9 DEF RequestRecord
<1>11. /\ ApMatch(q, lines).save_to = save
       /\ ApMatch(q, lines).hit = (q.hit \/ good)
       /\ ApMatch(q, lines).get_from = IF good THEN best ELSE 1
  BY <1>5 DEF RequestRecord
<1>12. ~q.hit /\ IsCacheHit(ApMatch(q, lines)) => Fits(q.scan, lines[ApMatch(q, lines).get_from])
  BY <1>3, <1>7, <1>11 DEF IsCacheHit
<1> QED
  BY <1>4, <1>5, <1>10, <1>11, <1>12 DEF SearchResult, RequestRecord

LEMMA CellMatchResult ==
    ASSUME NEW q \in RequestRecord, NEW lines, q.scan.cells # <<>>
    PROVE  SearchResult(q, CellMatch(q, lines), lines)
<1> DEFINE ratio == [i \in Line |-> CellRatio(q.scan, lines[i])]
           best == BestLine(ratio, q.scan, lines)
           save == CellMatch(q, lines).save_to
           good == best # NoLine /\ 100 > config.cache_match_all_threshold
<1>1. best \in Line \cup {NoLine}
  BY BestLineTyped
<1>2. best # NoLine => Comparable(q.scan, lines[best]) /\ CellRatio(q.scan, lines[best]).num > 0
  <2>1. best # NoLine => best \in Line /\ Comparable(q.scan, lines[best]) /\ ratio[best].num > 0
    <3> HIDE DEF ratio
    <3> QED
      BY BestLineTyped
  <2> HIDE DEF best
  <2> QED
    BY <2>1
<1>3. 1 \in DOMAIN q.scan.cells
  BY CacheAssumption DEF RequestRecord, Held, EmptyScan
<1>4. best # NoLine => Fits(q.scan, lines[best])
  <2> HIDE DEF best
  <2> QED
    BY <1>2, <1>3, MatchFits
<1>5. /\ save \in Line \cup {NoLine}
      /\ EmptyLines(lines) # {} => save \in EmptyLines(lines)
  BY CellSaveToTyped
<1>6. /\ CellMatch(q, lines) = [q EXCEPT !.save_to = CellMatch(q, lines).save_to,
                                         !.get_from = best, !.hit = good]
      /\ good \in BOOLEAN
  BY DEF CellMatch, RequestRecord
<1>7. good => best # NoLine
  OBVIOUS
<1> HIDE DEF best, good
<1>8. CellMatch(q, lines) \in RequestRecord
  BY <1>1, <1>5, <1>6 DEF RequestRecord
<1>9. CellMatch(q, lines).hit = good /\ CellMatch(q, lines).get_from = best
  BY <1>6 DEF RequestRecord
<1>10. IsCacheHit(CellMatch(q, lines)) => Fits(q.scan, lines[CellMatch(q, lines).get_from])
  BY <1>4, <1>7, <1>9 DEF IsCacheHit
<1> QED
  BY <1>5, <1>6, <1>8, <1>10 DEF SearchResult, RequestRecord

LEMMA SearchCacheResult ==
    ASSUME NEW q \in RequestRecord, NEW lines
    PROVE  SearchResult(q, SearchCache(q, lines), lines)
<1>1. CASE q.time >= Epoch /\ q.scan.aps # {}
  BY <1>1, ApMatchResult DEF SearchCache
<1>2. CASE q.time >= Epoch /\ q.scan.aps = {} /\ q.scan.cells # <<>>
  BY <1>2, CellMatchResult DEF SearchCache
<1>3. CASE ~(q.time >= Epoch /\ (q.scan.aps # {} \/ q.scan.cells # <<>>))
  <2>1. SearchCache(q, lines) = [q EXCEPT !.get_from = NoLine, !.hit = FALSE]
    BY <1>3 DEF SearchCache
  <2> QED
    BY <2>1 DEF SearchResult, RequestRecord, IsCacheHit
<1> QED
  BY <1>1, <1>2, <1>3

\* The oldest line is a line, and an empty one if there is one, unless the
\* request has no time.
LEMMA FindOldestTyped ==
    ASSUME NEW q
    PROVE  /\ FindOldest(q) \in Line
           /\ EmptyLines(cacheline) # {} /\ q.time # 0 => FindOldest(q) \in EmptyLines(cacheline)
<1> DEFINE older == {i \in Line : cacheline[i].time < q.time}
           oldest == {i \in older : \A j \in older : cacheline[i].time <= cacheline[j].time}
<1>1. oldest # {} => Min(oldest) \in Line
  <2>1. oldest \in SUBSET Line
    OBVIOUS
  <2> HIDE DEF oldest
  <2> QED
    BY <2>1, LineChoice
<1>2. EmptyLines(cacheline) \in SUBSET Line
  BY DEF EmptyLines
<1>3. EmptyLines(cacheline) # {} => Min(EmptyLines(cacheline)) \in EmptyLines(cacheline)
  BY <1>2, LineChoice
<1>4. 1 \in Line
  BY CacheAssumption DEF Line
<1>5. FindOldest(q) =
        IF q.time = 0 THEN 1
        ELSE IF EmptyLines(cacheline) # {} THEN Min(EmptyLines(cacheline))
        ELSE IF oldest # {} THEN Min(oldest)
        ELSE 1
  BY DEF FindOldest
<1> HIDE DEF oldest
<1> QED
  BY <1>1, <1>2, <1>3, <1>4, <1>5

LEMMA ClockType ==
    ASSUME Typed
    PROVE  Clock \in Nat /\ (Clock > Epoch => Clock \in LineTime)
BY CacheAssumption DEF Typed, Clock, LineTime

\* A line that is saved is a line, whichever the response goes to.
LEMMA ToCacheTyped ==
    ASSUME Typed, NEW r \in Rctx
    PROVE  ToCache(rctx[r]) \in [Line -> LineRecord]
<1>1. rctx[r].scan \in Held /\ FindOldest(rctx[r]) \in Line
      /\ rctx[r].save_to \in Line \cup {NoLine}
  BY FindOldestTyped DEF Typed, RequestRecord
<1>2. CASE Clock > Epoch
  <2>1. [time |-> Clock, scan |-> rctx[r].scan] \in LineRecord
    BY <1>1, <1>2, ClockType DEF LineRecord
  <2>2. ~(Clock <= Epoch)
    BY <1>2, ClockType, CacheAssumption
  <2> QED
    BY <1>1, <2>1, <2>2 DEF ToCache, Typed
<1>3. CASE ~(Clock > Epoch)
  <2>1. Clock <= Epoch
    BY <1>3, ClockType, CacheAssumption
  <2> QED
    BY <2>1 DEF ToCache, Typed
<1> QED
  BY <1>2, <1>3

LEMMA IdleTyped == IdleRequest \in RequestRecord
BY CacheAssumption DEF IdleRequest, RequestRecord, Held

LEMMA InitTyped == Init => Typed
BY CacheAssumption, BuiltTyped, IdleTyped
DEF Init, Typed, EmptyLine, LineRecord, LineTime, Held

\* What a search leaves in the state.
LEMMA SearchStep ==
    ASSUME Typed, NEW r \in Rctx, SkySearchCache(r)
    PROVE  LET q == rctx[r]
               lines == IF q.time >= Epoch THEN ExpireLines(q.time) ELSE cacheline
               found == SearchCache(q, lines)
           IN  /\ SearchResult(q, found, lines)
               /\ cacheline' = lines
               /\ rctx' = [rctx EXCEPT ![r] =
                             [found EXCEPT !.hit = IsCacheHit(found), !.searches = @ + 1]]
               /\ rctx'[r] = [found EXCEPT !.hit = IsCacheHit(found), !.searches = @ + 1]
               /\ rctx'[r] \in RequestRecord
               /\ IsCacheHit(rctx'[r]) <=> IsCacheHit(found)
               /\ rctx'[r].phase = "building" /\ rctx'[r].time = q.time
               /\ rctx'[r].own = q.own /\ rctx'[r].scan = q.scan
               /\ rctx'[r].save_to = found.save_to /\ rctx'[r].get_from = found.get_from
               /\ rctx'[r].searches = q.searches + 1
<1> DEFINE q == rctx[r]
           lines == IF q.time >= Epoch THEN ExpireLines(q.time) ELSE cacheline
           found == SearchCache(q, lines)
<1>1. q \in RequestRecord
  BY DEF Typed
<1>2. SearchResult(q, found, lines)
  BY <1>1, SearchCacheResult
<1>3. /\ cacheline' = lines
      /\ q.searches < MaxSearches
      /\ rctx' = [rctx EXCEPT ![r] =
                    [found EXCEPT !.hit = IsCacheHit(found), !.searches = @ + 1]]
  BY DEF SkySearchCache
<1> HIDE DEF found, lines
<1>4. rctx'[r] = [found EXCEPT !.hit = IsCacheHit(found), !.searches = @ + 1]
  BY <1>3 DEF Typed
<1>5. found \in RequestRecord /\ found.searches = q.searches
  BY <1>2 DEF SearchResult
<1>6. q.searches + 1 \in 0 .. MaxSearches
  BY <1>1, <1>3, CacheAssumption DEF RequestRecord
<1>7. IsCacheHit(found) \in BOOLEAN
  BY <1>5 DEF IsCacheHit, RequestRecord
<1>8. rctx'[r] \in RequestRecord
  BY <1>4, <1>5, <1>6, <1>7 DEF RequestRecord
<1>9. IsCacheHit(rctx'[r]) <=> IsCacheHit(found)
  BY <1>4, <1>5 DEF IsCacheHit, RequestRecord
<1>10. /\ rctx'[r].phase = found.phase /\ rctx'[r].time = found.time
       /\ rctx'[r].own = found.own /\ rctx'[r].scan = found.scan
       /\ rctx'[r].save_to = found.save_to /\ rctx'[r].get_from = found.get_from
       /\ rctx'[r].searches = q.searches + 1
  BY <1>4, <1>5 DEF RequestRecord
<1>11. /\ found.phase = "building" /\ found.time = q.time
       /\ found.own = q.own /\ found.scan = q.scan
  BY <1>2 DEF SearchResult, SkySearchCache
<1> QED
  BY <1>2, <1>3, <1>4, <1>8, <1>9, <1>10, <1>11 DEF found, lines

LEMMA NextTyped == Typed /\ [Next]_vars => Typed'
<1> SUFFICES ASSUME Typed, [Next]_vars
             PROVE  Typed'
  OBVIOUS
<1>c. Clock \in Nat
  BY ClockType
<1>1. ASSUME NEW r \in Rctx, SkyNewRequest(r)
      PROVE  Typed'
  <2>1. [IdleRequest EXCEPT !.phase = "building", !.time = Clock] \in RequestRecord
    BY <1>c, IdleTyped DEF RequestRecord
  <2> QED
    BY <1>1, <2>1, LinesTyped DEF SkyNewRequest, Typed
<1>2. ASSUME NEW r \in Rctx, SkyNewRequestDenied(r) \/ Unanswered(r)
      PROVE  Typed'
  BY <1>2, IdleTyped DEF SkyNewRequestDenied, Unanswered, Typed
<1>3. ASSUME NEW r \in Rctx, NEW s \in Scan, AddScan(r, s)
      PROVE  Typed'
  <2>1. [rctx[r] EXCEPT !.own = s, !.scan = s] \in RequestRecord
    BY DEF Typed, RequestRecord, Held
  <2>2. rctx' = [rctx EXCEPT ![r] = [rctx[r] EXCEPT !.own = s, !.scan = s]]
    BY <1>3 DEF AddScan, Typed, RequestRecord
  <2> QED
    BY <1>3, <2>1, <2>2 DEF AddScan, Typed
<1>4. ASSUME NEW r \in Rctx, SkySearchCache(r)
      PROVE  Typed'
  <2>1. rctx'[r] \in RequestRecord
    BY <1>4, SearchStep
  <2>2. \E found : rctx' = [rctx EXCEPT ![r] = found]
    BY <1>4 DEF SkySearchCache
  <2>3. rctx' \in [Rctx -> RequestRecord]
    BY <2>1, <2>2 DEF Typed
  <2>4. cacheline' \in {ExpireLines(rctx[r].time), cacheline}
    BY <1>4 DEF SkySearchCache
  <2>5. cacheline' \in [Line -> LineRecord]
    BY <2>4, LinesTyped DEF Typed
  <2> QED
    BY <1>4, <2>3, <2>5 DEF SkySearchCache, Typed
<1>5. ASSUME NEW r \in Rctx, SkyIgnoreCacheHit(r)
      PROVE  Typed'
  BY <1>5 DEF SkyIgnoreCacheHit, Typed, RequestRecord
<1>6. ASSUME NEW r \in Rctx, SkySizeofRequestBuf(r)
      PROVE  Typed'
  <2>1. rctx[r] \in RequestRecord
    BY DEF Typed
  <2>2. /\ IsCacheHit(rctx[r]) => cacheline[rctx[r].get_from].scan \in Held
        /\ rctx' \in [Rctx -> RequestRecord]
    <3>1. IsCacheHit(rctx[r]) => cacheline[rctx[r].get_from].scan \in Held
      BY <2>1 DEF IsCacheHit, Typed, RequestRecord, LineRecord
    <3> QED
      BY <1>6, <2>1, <3>1 DEF SkySizeofRequestBuf, Typed, RequestRecord
  <2> QED
    BY <1>6, <2>2 DEF SkySizeofRequestBuf, Typed
<1>7. ASSUME NEW r \in Rctx, SkyDecodeResponse(r)
      PROVE  Typed'
  <2>1. rctx' \in [Rctx -> RequestRecord]
    BY <1>7, IdleTyped DEF SkyDecodeResponse, Typed, RequestRecord
  <2>2. cacheline' \in [Line -> LineRecord]
    BY <1>7, ToCacheTyped DEF SkyDecodeResponse, Typed
  <2> QED
    BY <1>7, <2>1, <2>2 DEF SkyDecodeResponse, Typed
<1>8. CASE Reconfigure
  BY <1>8, ReconfiguredTyped DEF Reconfigure, Typed
<1>9. CASE Tick
  BY <1>9, CacheAssumption DEF Tick, Typed
<1>10. CASE ClockChange
  BY <1>10 DEF ClockChange, Typed
<1>11. CASE UNCHANGED vars
  BY <1>11 DEF vars, Typed
<1> QED
  BY <1>1, <1>2, <1>3, <1>4, <1>5, <1>6, <1>7, <1>8, <1>9, <1>10, <1>11 DEF Next, Request

\* A cacheline keeps a time at which the clock was set, a request context the
\* index of a line or none, and every option a value of its type.
THEOREM CacheTypeCorrect == Spec => []TypeOK
BY InitTyped, NextTyped, TypedIsTypeOK, PTL DEF Spec

(***************************************************************************)
(* Hits are counted.                                                       *)
(***************************************************************************)

\* An application uses one request context at a time, as the sample does.
OneRequest == \A r, s \in Rctx : r = s

\* A request that was sized without a hit has ended the run of hits.
MissEndsRun == \A r \in Rctx : rctx[r].phase = "sized" /\ ~rctx[r].hit => cachedRun = 0

Counted == Typed /\ HitsCounted /\ MissEndsRun

LEMMA NextCounted ==
    ASSUME OneRequest
    PROVE  Counted /\ [Next]_vars => Counted'
<1> SUFFICES ASSUME Counted, [Next]_vars
             PROVE  Counted'
  OBVIOUS
<1>t. /\ Typed /\ Typed'
      /\ cache_hits \in Nat /\ cachedRun \in Nat /\ MaxHits \in Nat
      /\ cachedRun <= cache_hits /\ cache_hits <= MaxHits
      /\ \A r \in Rctx : rctx[r] \in RequestRecord
  BY NextTyped, CacheAssumption DEF Counted, Typed, HitsCounted
<1>o. \A r, s \in Rctx : r = s
  BY DEF OneRequest
<1>1. ASSUME NEW r \in Rctx, \/ SkyNewRequest(r) \/ SkyNewRequestDenied(r) \/ Unanswered(r)
                             \/ SkyIgnoreCacheHit(r) \/ \E s \in Scan : AddScan(r, s)
      PROVE  Counted'
  <2>1. rctx'[r].phase # "sized"
    <3>1. CASE SkyNewRequest(r)
      BY <3>1, <1>t DEF SkyNewRequest, Typed, IdleRequest
    <3>2. CASE SkyNewRequestDenied(r) \/ Unanswered(r)
      BY <3>2, <1>t DEF SkyNewRequestDenied, Unanswered, Typed, IdleRequest
    <3>3. CASE SkyIgnoreCacheHit(r)
      BY <3>3, <1>t DEF SkyIgnoreCacheHit, Typed, RequestRecord
    <3>4. CASE \E s \in Scan : AddScan(r, s)
      BY <3>4, <1>t DEF AddScan, Typed, RequestRecord
    <3> QED
      BY <1>1, <3>1, <3>2, <3>3, <3>4
  <2>2. UNCHANGED <<cache_hits, cachedRun>>
    BY <1>1 DEF SkyNewRequest, SkyNewRequestDenied, Unanswered, SkyIgnoreCacheHit, AddScan
  <2> QED
    BY <2>1, <2>2, <1>t, <1>o DEF Counted, HitsCounted, MissEndsRun
<1>2. ASSUME NEW r \in Rctx, SkySearchCache(r)
      PROVE  Counted'
  <2>1. \/ cache_hits' = cache_hits /\ cachedRun' = cachedRun
        \/ cache_hits' = 0 /\ cachedRun' = 0
    BY <1>2 DEF SkySearchCache
  <2>2. rctx'[r].phase # "sized"
    BY <1>2, <1>t, SearchStep
  <2> QED
    BY <2>1, <2>2, <1>t, <1>o DEF Counted, HitsCounted, MissEndsRun
<1>3. ASSUME NEW r \in Rctx, SkySizeofRequestBuf(r)
      PROVE  Counted'
  <2>1. CASE IsCacheHit(rctx[r]) /\ cache_hits < MaxHits
    <3>1. cache_hits' = cache_hits + 1 /\ cachedRun' = cachedRun + 1
      BY <1>3, <2>1, <1>t DEF SkySizeofRequestBuf
    <3>2. rctx'[r].hit
      BY <1>3, <2>1, <1>t DEF SkySizeofRequestBuf, IsCacheHit, Typed, RequestRecord
    <3> QED
      BY <3>1, <3>2, <2>1, <1>t, <1>o DEF Counted, HitsCounted, MissEndsRun
  <2>2. CASE ~(IsCacheHit(rctx[r]) /\ cache_hits < MaxHits)
    <3>1. cachedRun' = 0 /\ cache_hits' \in {0, cache_hits}
      BY <1>3, <2>2, <1>t DEF SkySizeofRequestBuf
    <3> QED
      BY <3>1, <1>t DEF Counted, HitsCounted, MissEndsRun
  <2> QED
    BY <2>1, <2>2
<1>4. ASSUME NEW r \in Rctx, SkyDecodeResponse(r)
      PROVE  Counted'
  <2>1. /\ rctx[r].phase = "sized"
        /\ cachedRun' = cachedRun
        /\ cache_hits' = IF rctx[r].hit THEN cache_hits ELSE 0
    BY <1>4 DEF SkyDecodeResponse
  <2>2. ~rctx[r].hit => cachedRun = 0
    BY <2>1 DEF Counted, MissEndsRun
  <2>3. rctx'[r].phase # "sized"
    BY <1>4, <1>t DEF SkyDecodeResponse, Typed, RequestRecord, IdleRequest
  <2> QED
    BY <2>1, <2>2, <2>3, <1>t, <1>o DEF Counted, HitsCounted, MissEndsRun
<1>5. CASE Reconfigure \/ Tick \/ ClockChange \/ UNCHANGED vars
  <2>1. UNCHANGED <<rctx, cache_hits, cachedRun>>
    BY <1>5 DEF Reconfigure, Tick, ClockChange, vars
  <2> QED
    BY <2>1, <1>t DEF Counted, HitsCounted, MissEndsRun
<1> QED
  BY <1>1, <1>2, <1>3, <1>4, <1>5 DEF Next, Request

\* While one request context is used at a time, a run of hits is never longer
\* than what is counted, nor than MaxHits, whatever the application ignores,
\* abandons or sends again.
THEOREM CountsHits ==
    ASSUME OneRequest
    PROVE  Spec => []HitsCounted
<1>1. Init => Counted
  BY InitTyped, CacheAssumption DEF Init, Counted, HitsCounted, MissEndsRun, IdleRequest
<1>2. Counted => HitsCounted
  BY DEF Counted
<1> QED
  BY <1>1, <1>2, NextCounted, PTL DEF Spec

(***************************************************************************)
(* One search for each request.                                            *)
(***************************************************************************)

\* A request that was not searched for has the application's own beacons and
\* names no line.
Unsearched(q) ==
    q.searches = 0 => q.scan = q.own /\ ~q.hit /\ q.save_to = NoLine

\* A hit names a line from the same place as the application's scan, and what
\* took the place of that scan is from there too.
FromThePlace(q) ==
    /\ IsCacheHit(q) => Fits(q.own, cacheline[q.get_from])
    /\ q.scan # q.own => Fits(q.own, [time |-> q.time, scan |-> q.scan])

\* The line to save to is empty, unless all are in use.  A request of a time
\* before the clock was set finds all of them empty.
WhereEmpty(q) ==
    /\ EmptyLines(cacheline) # {} /\ q.save_to # NoLine
         => q.save_to \in EmptyLines(cacheline)
    /\ q.time < Epoch => EmptyLines(cacheline) = Line

Searching ==
    /\ Typed
    /\ \A r \in Rctx : rctx[r].phase # "idle" =>
          Unsearched(rctx[r]) /\ FromThePlace(rctx[r]) /\ WhereEmpty(rctx[r])

\* Two lines with one scan fit alike.
LEMMA FitsScan ==
    ASSUME NEW s, NEW a, NEW b, a.scan = b.scan, Fits(s, a)
    PROVE  Fits(s, b)
BY DEF Fits, ServingCellChanged, CachedGnssWorse

\* Clearing empties lines, and keeps their scans.
LEMMA LinesCleared ==
    ASSUME Typed, NEW t
    PROVE  /\ EmptyLines(cacheline) \subseteq EmptyLines(ExpireLines(t))
           /\ t < Epoch => EmptyLines(ClearLines(t)) = Line
           /\ \A i \in Line : /\ ExpireLines(t)[i].time \in {cacheline[i].time, CACHE_EMPTY}
                              /\ ClearLines(t)[i].time \in {cacheline[i].time, CACHE_EMPTY}
<1>1. \A i \in Line : cacheline[i] \in LineRecord /\ Cleared(cacheline[i]).time = CACHE_EMPTY
  BY DEF Typed, LineRecord, Cleared
<1> QED
  BY <1>1 DEF ExpireLines, ClearLines, EmptyLines

\* An application searches the cache once for each request.
OneSearch == MaxSearches = 1

LEMMA NextSearching ==
    ASSUME OneRequest, OneSearch
    PROVE  Searching /\ [Next]_vars => Searching'
<1> SUFFICES ASSUME Searching, [Next]_vars
             PROVE  Searching'
  OBVIOUS
<1>t. /\ Typed /\ Typed'
      /\ \A r \in Rctx : rctx[r] \in RequestRecord
      /\ \A r, s \in Rctx : r = s
  BY NextTyped DEF Searching, Typed, OneRequest
<1>h. \A r \in Rctx : rctx[r].phase # "idle" =>
        Unsearched(rctx[r]) /\ FromThePlace(rctx[r]) /\ WhereEmpty(rctx[r])
  BY DEF Searching
<1>g. ASSUME NEW r \in Rctx,
             rctx'[r].phase # "idle" =>
               Unsearched(rctx'[r]) /\ FromThePlace(rctx[r])' /\ WhereEmpty(rctx[r])'
      PROVE  Searching'
  BY <1>g, <1>t DEF Searching, Unsearched
<1>1. ASSUME NEW r \in Rctx, SkyNewRequest(r)
      PROVE  Searching'
  <2>1. /\ rctx'[r] = [IdleRequest EXCEPT !.phase = "building", !.time = Clock]
        /\ cacheline' = ClearLines(Clock)
    BY <1>1, <1>t DEF SkyNewRequest, Typed
  <2>2. Unsearched(rctx'[r]) /\ FromThePlace(rctx[r])'
    BY <2>1 DEF Unsearched, FromThePlace, IsCacheHit, IdleRequest
  <2>3. rctx'[r].save_to = NoLine /\ rctx'[r].time = Clock
    BY <2>1 DEF IdleRequest
  <2>4. Clock < Epoch => EmptyLines(cacheline') = Line
    BY <2>1, <1>t, LinesCleared
  <2>5. WhereEmpty(rctx[r])'
    BY <2>3, <2>4 DEF WhereEmpty
  <2> QED
    BY <2>2, <2>5, <1>g
<1>2. ASSUME NEW r \in Rctx, SkyNewRequestDenied(r) \/ Unanswered(r)
      PROVE  Searching'
  <2>1. rctx'[r].phase = "idle"
    BY <1>2, <1>t DEF SkyNewRequestDenied, Unanswered, Typed, IdleRequest
  <2> QED
    BY <2>1, <1>g
<1>3. ASSUME NEW r \in Rctx, NEW s \in Scan, AddScan(r, s)
      PROVE  Searching'
  <2>1. /\ rctx[r].phase = "building" /\ rctx[r].searches = 0
        /\ rctx'[r] = [rctx[r] EXCEPT !.own = s, !.scan = s]
        /\ cacheline' = cacheline
    BY <1>3, <1>t DEF AddScan, Typed
  <2>2. /\ rctx'[r].own = s /\ rctx'[r].scan = s /\ rctx'[r].hit = rctx[r].hit
        /\ rctx'[r].save_to = rctx[r].save_to /\ rctx'[r].time = rctx[r].time
    BY <2>1, <1>t DEF RequestRecord
  <2>3. ~rctx[r].hit /\ rctx[r].save_to = NoLine
    BY <2>1, <1>h DEF Unsearched
  <2>4. WhereEmpty(rctx[r])
    BY <2>1, <1>h
  <2>5. WhereEmpty(rctx[r])'
    BY <2>1, <2>2, <2>4 DEF WhereEmpty
  <2> QED
    BY <2>2, <2>3, <2>5, <1>g DEF Unsearched, FromThePlace, IsCacheHit
<1>4. ASSUME NEW r \in Rctx, SkySearchCache(r)
      PROVE  Searching'
  <2> DEFINE q == rctx[r]
             lines == IF q.time >= Epoch THEN ExpireLines(q.time) ELSE cacheline
             found == SearchCache(q, lines)
  <2>1. /\ SearchResult(q, found, lines)
        /\ cacheline' = lines
        /\ IsCacheHit(rctx'[r]) <=> IsCacheHit(found)
        /\ rctx'[r].time = q.time
        /\ rctx'[r].own = q.own /\ rctx'[r].scan = q.scan
        /\ rctx'[r].save_to = found.save_to /\ rctx'[r].get_from = found.get_from
        /\ rctx'[r].searches = q.searches + 1
    BY <1>4, <1>t, SearchStep
  <2>2. q.phase = "building" /\ q.searches < MaxSearches
    BY <1>4 DEF SkySearchCache
  <2>3. q.searches = 0
    BY <2>2, <1>t DEF OneSearch, RequestRecord
  <2>4. q.scan = q.own /\ ~q.hit /\ q.save_to = NoLine /\ WhereEmpty(q)
    BY <2>2, <2>3, <1>h DEF Unsearched
  <2>5. q.time < Epoch => lines = cacheline
    BY <1>t, CacheAssumption DEF RequestRecord
  <2> HIDE DEF found, lines
  <2>6. Unsearched(rctx'[r])
    BY <2>1, <2>3 DEF Unsearched
  <2>7. FromThePlace(rctx[r])'
    BY <2>1, <2>4 DEF FromThePlace, SearchResult
  <2>8. WhereEmpty(rctx[r])'
    BY <2>1, <2>4, <2>5 DEF WhereEmpty, SearchResult
  <2> QED
    BY <2>6, <2>7, <2>8, <1>g
<1>5. ASSUME NEW r \in Rctx, SkyIgnoreCacheHit(r)
      PROVE  Searching'
  <2>1. /\ rctx[r].phase = "building"
        /\ rctx'[r] = [rctx[r] EXCEPT !.hit = FALSE]
        /\ cacheline' = cacheline
    BY <1>5, <1>t DEF SkyIgnoreCacheHit, Typed
  <2>2. /\ rctx'[r].own = rctx[r].own /\ rctx'[r].scan = rctx[r].scan /\ ~rctx'[r].hit
        /\ rctx'[r].save_to = rctx[r].save_to /\ rctx'[r].time = rctx[r].time
        /\ rctx'[r].searches = rctx[r].searches
    BY <2>1, <1>t DEF RequestRecord
  <2>3. Unsearched(rctx[r]) /\ FromThePlace(rctx[r]) /\ WhereEmpty(rctx[r])
    BY <2>1, <1>h
  <2> QED
    BY <2>1, <2>2, <2>3, <1>g DEF Unsearched, FromThePlace, WhereEmpty, IsCacheHit
<1>6. ASSUME NEW r \in Rctx, SkySizeofRequestBuf(r)
      PROVE  Searching'
  <2>1. /\ rctx[r].phase = "building" /\ cacheline' = cacheline
        /\ IF ~IsCacheHit(rctx[r]) THEN rctx'[r] = [rctx[r] EXCEPT !.phase = "sized"]
           ELSE \/ rctx'[r] = [rctx[r] EXCEPT !.phase = "sized",
                                              !.scan = cacheline[rctx[r].get_from].scan]
                \/ rctx'[r] = [rctx[r] EXCEPT !.phase = "sized", !.get_from = NoLine]
    BY <1>6, <1>t DEF SkySizeofRequestBuf, Typed, RequestRecord
  <2>2. Unsearched(rctx[r]) /\ FromThePlace(rctx[r]) /\ WhereEmpty(rctx[r])
    BY <2>1, <1>h
  <2>3. /\ rctx'[r].own = rctx[r].own /\ rctx'[r].hit = rctx[r].hit
        /\ rctx'[r].save_to = rctx[r].save_to /\ rctx'[r].time = rctx[r].time
        /\ rctx'[r].searches = rctx[r].searches
    BY <2>1, <1>t DEF RequestRecord
  <2>4. WhereEmpty(rctx[r])'
    BY <2>1, <2>2, <2>3 DEF WhereEmpty
  <2>5. CASE rctx'[r].scan = rctx[r].scan /\ rctx'[r].get_from \in {rctx[r].get_from, NoLine}
    BY <2>1, <2>2, <2>3, <2>4, <2>5, <1>g DEF Unsearched, FromThePlace, IsCacheHit
  <2>6. CASE /\ IsCacheHit(rctx[r])
             /\ rctx'[r].scan = cacheline[rctx[r].get_from].scan
             /\ rctx'[r].get_from = rctx[r].get_from
    <3>1. Fits(rctx[r].own, cacheline[rctx[r].get_from])
      BY <2>2, <2>6 DEF FromThePlace
    <3>2. Fits(rctx'[r].own, [time |-> rctx'[r].time, scan |-> rctx'[r].scan])
      BY <3>1, <2>3, <2>6, FitsScan
    <3>3. Unsearched(rctx'[r])
      BY <2>2, <2>3, <2>6 DEF Unsearched, IsCacheHit
    <3>4. FromThePlace(rctx[r])'
      BY <3>1, <3>2, <2>1, <2>3, <2>6 DEF FromThePlace
    <3> QED
      BY <3>3, <3>4, <2>4, <1>g
  <2> QED
    BY <2>1, <2>5, <2>6, <1>t DEF RequestRecord
<1>7. ASSUME NEW r \in Rctx, SkyDecodeResponse(r)
      PROVE  Searching'
  <2>1. CASE rctx'[r].phase = "idle"
    BY <2>1, <1>g
  <2>2. CASE rctx'[r].phase # "idle"
    <3>1. /\ rctx[r].phase = "sized" /\ cacheline' = cacheline
          /\ rctx'[r] = [rctx[r] EXCEPT !.phase = "building"]
      BY <1>7, <2>2, <1>t DEF SkyDecodeResponse, Typed, IdleRequest
    <3>2. /\ rctx'[r].own = rctx[r].own /\ rctx'[r].scan = rctx[r].scan
          /\ rctx'[r].hit = rctx[r].hit /\ rctx'[r].get_from = rctx[r].get_from
          /\ rctx'[r].save_to = rctx[r].save_to /\ rctx'[r].time = rctx[r].time
          /\ rctx'[r].searches = rctx[r].searches
      BY <3>1, <1>t DEF RequestRecord
    <3>3. Unsearched(rctx[r]) /\ FromThePlace(rctx[r]) /\ WhereEmpty(rctx[r])
      BY <3>1, <1>h
    <3> QED
      BY <3>1, <3>2, <3>3, <1>g DEF Unsearched, FromThePlace, WhereEmpty, IsCacheHit
  <2> QED
    BY <2>1, <2>2
<1>8. CASE Reconfigure \/ Tick \/ ClockChange \/ UNCHANGED vars
  <2>1. UNCHANGED <<rctx, cacheline>>
    BY <1>8 DEF Reconfigure, Tick, ClockChange, vars
  <2> QED
    BY <2>1, <1>t, <1>h DEF Searching, FromThePlace, WhereEmpty
<1> QED
  BY <1>1, <1>2, <1>3, <1>4, <1>5, <1>6, <1>7, <1>8 DEF Next, Request

LEMMA InitSearching == Init => Searching
BY InitTyped DEF Init, Searching, IdleRequest

\* What is sent after a hit is from the place of the application's scan, also
\* if the request is refused and sent again.
THEOREM SendsFittingScan ==
    ASSUME OneRequest, OneSearch
    PROVE  Spec => []SentBeaconsFit
<1>1. Searching => SentBeaconsFit
  BY DEF Searching, FromThePlace, Fits, SentBeaconsFit
<1> QED
  BY <1>1, InitSearching, NextSearching, PTL DEF Spec

\* A response takes the place of another location only when every line holds
\* one.
LEMMA ToCacheEmptyFirst ==
    ASSUME Searching, NEW r \in Rctx, SkyDecodeResponse(r), NEW i \in Line,
           cacheline'[i] # cacheline[i], cacheline[i].time # CACHE_EMPTY
    PROVE  EmptyLines(cacheline) = {}
<1>1. rctx[r].phase = "sized" /\ WhereEmpty(rctx[r])
  BY DEF SkyDecodeResponse, Searching
<1>2. cacheline' = ToCache(rctx[r])
  BY DEF SkyDecodeResponse
<1>3. i = IF rctx[r].save_to # NoLine THEN rctx[r].save_to ELSE FindOldest(rctx[r])
  BY <1>2 DEF ToCache, Searching, Typed
<1>4. i \notin EmptyLines(cacheline)
  BY DEF EmptyLines
<1>5. EmptyLines(cacheline) # {} => rctx[r].save_to = NoLine
  BY <1>1, <1>3, <1>4 DEF WhereEmpty
<1>6. EmptyLines(cacheline) # {} => rctx[r].time = 0
  BY <1>3, <1>4, <1>5, FindOldestTyped
<1>7. rctx[r].time = 0 => EmptyLines(cacheline) = Line
  BY <1>1, CacheAssumption DEF WhereEmpty
<1> QED
  BY <1>4, <1>6, <1>7

\* No location in the cache is lost while there is an empty line.
THEOREM SavesWhereEmpty ==
    ASSUME OneRequest, OneSearch
    PROVE  Spec => SavesToEmptyFirst
<1> DEFINE Kept == \A i \in Line :
                     cacheline'[i].time > cacheline[i].time /\ cacheline[i].time # CACHE_EMPTY
                       => EmptyLines(cacheline) = {}
<1>1. Searching /\ [Next]_vars => [Kept]_vars
  <2> SUFFICES ASSUME Searching, Next, NEW i \in Line,
                      cacheline'[i].time > cacheline[i].time,
                      cacheline[i].time # CACHE_EMPTY
               PROVE  EmptyLines(cacheline) = {}
    OBVIOUS
  <2>t. Typed /\ cacheline[i].time \in Nat
    BY CacheAssumption DEF Searching, Typed, LineRecord, LineTime
  <2>1. cacheline'[i].time \notin {cacheline[i].time, CACHE_EMPTY}
    BY <2>t DEF CACHE_EMPTY
  <2>2. \A t : cacheline' \notin {cacheline, ExpireLines(t), ClearLines(t)}
    BY <2>1, <2>t, LinesCleared
  <2>3. PICK r \in Rctx : SkyDecodeResponse(r)
    BY <2>2
    DEF Next, Request, SkyNewRequest, SkyNewRequestDenied, AddScan, SkySearchCache,
        SkyIgnoreCacheHit, SkySizeofRequestBuf, Unanswered, Reconfigure, Tick, ClockChange
  <2> QED
    BY <2>1, <2>3, ToCacheEmptyFirst
<1> QED
  BY <1>1, InitSearching, NextSearching, PTL DEF Spec, SavesToEmptyFirst

(***************************************************************************)
(* The best match.                                                         *)
(***************************************************************************)

\* No more APs are in common than there are in the scan.
LEMMA CachedApsCount ==
    ASSUME NEW a, NEW b, IsFiniteSet(a.aps), IsFiniteSet(b.aps)
    PROVE  CachedAps(a, b) \in Nat /\ CachedAps(a, b) <= Cardinality(a.aps)
<1> DEFINE Members(s, g) == {ap \in s.aps : Group[ap] = g}
           Common(g) == Min({Cardinality(Members(a, g)), Cardinality(Members(b, g))})
           shared == UNION {{g} \X (1 .. Common(g)) : g \in {Group[ap] : ap \in a.aps}}
           Order(g) == CHOOSE h : h \in Bijection(1 .. Cardinality(Members(a, g)), Members(a, g))
           member == [p \in shared |-> Order(p[1])[p[2]]]
<1>1. \A g : /\ IsFiniteSet(Members(a, g)) /\ Cardinality(Members(a, g)) \in Nat
             /\ Cardinality(Members(b, g)) \in Nat
  <2> TAKE g
  <2>1. Members(a, g) \in SUBSET a.aps /\ Members(b, g) \in SUBSET b.aps
    OBVIOUS
  <2> HIDE DEF Members
  <2>2. IsFiniteSet(Members(a, g)) /\ IsFiniteSet(Members(b, g))
    BY <2>1, FS_Subset
  <2> QED
    BY <2>2, FS_CardinalityType
<1>2. \A g : Common(g) \in Nat /\ Common(g) <= Cardinality(Members(a, g))
  <2> TAKE g
  <2> DEFINE x == Cardinality(Members(a, g))
             y == Cardinality(Members(b, g))
  <2>1. x \in Nat /\ y \in Nat
    BY <1>1
  <2> HIDE DEF x, y
  <2>2. Min({x, y}) = IF x <= y THEN x ELSE y
    BY <2>1, LesserOfTwo
  <2> QED
    BY <2>1, <2>2 DEF x, y
<1>3. \A g : Order(g) \in Bijection(1 .. Cardinality(Members(a, g)), Members(a, g))
  <2> TAKE g
  <2>1. ExistsBijection(1 .. Cardinality(Members(a, g)), Members(a, g))
    <3> HIDE DEF Members
    <3> QED
      BY <1>1, FS_CardinalityType
  <2> QED
    BY <2>1 DEF ExistsBijection
<1>4. CachedAps(a, b) = Cardinality(shared)
  BY DEF CachedAps
<1> HIDE DEF Common, Order
<1>5. \A p \in shared : p = <<p[1], p[2]>> /\ p[2] \in 1 .. Common(p[1])
  <2> TAKE p \in shared
  <2>1. PICK g : p \in {g} \X (1 .. Common(g))
    OBVIOUS
  <2> QED
    BY <2>1
<1> HIDE DEF shared
<1>6. ASSUME NEW p \in shared
      PROVE  /\ p[2] \in 1 .. Cardinality(Members(a, p[1]))
             /\ member[p] = Order(p[1])[p[2]]
             /\ member[p] \in a.aps /\ Group[member[p]] = p[1]
  <2> DEFINE g == p[1]
             k == p[2]
             last == Cardinality(Members(a, g))
  <2>1. k \in 1 .. Common(g) /\ Common(g) \in Nat /\ last \in Nat /\ Common(g) <= last
    BY <1>1, <1>2, <1>5
  <2> HIDE DEF k, last
  <2>2. k \in 1 .. last
    BY <2>1
  <2>3. Order(g) \in [1 .. last -> Members(a, g)]
    BY <1>3 DEF last, Bijection, Injection
  <2>4. Order(g)[k] \in Members(a, g)
    <3> HIDE DEF g, Members
    <3> QED
      BY <2>2, <2>3
  <2> QED
    BY <2>2, <2>4 DEF k, last
<1>7. \A p, q \in shared : member[p] = member[q] => p = q
  <2> SUFFICES ASSUME NEW p \in shared, NEW q \in shared, member[p] = member[q]
               PROVE  p = q
    OBVIOUS
  <2>1. p[1] = q[1]
    <3> HIDE DEF Members, member
    <3>1. Group[member[p]] = p[1] /\ Group[member[q]] = q[1]
      BY <1>6
    <3> QED
      BY <3>1
  <2>2. Order(p[1])[p[2]] = Order(p[1])[q[2]]
    BY <1>6, <2>1
  <2>3. /\ p[2] \in 1 .. Cardinality(Members(a, p[1]))
        /\ q[2] \in 1 .. Cardinality(Members(a, p[1]))
    BY <1>6, <2>1
  <2>4. p[2] = q[2]
    <3> DEFINE h == Order(p[1])
               S == 1 .. Cardinality(Members(a, p[1]))
    <3>1. DOMAIN h = S /\ IsInjective(h)
      BY <1>3 DEF Bijection, Injection
    <3>2. p[2] \in S /\ q[2] \in S /\ h[p[2]] = h[q[2]]
      BY <2>2, <2>3
    <3> HIDE DEF h, S
    <3> QED
      BY <3>1, <3>2 DEF IsInjective
  <2> QED
    BY <1>5, <2>1, <2>4
<1>8. member \in Injection(shared, a.aps)
  <2>1. member \in [shared -> a.aps]
    BY <1>6
  <2> HIDE DEF member
  <2> QED
    BY <1>7, <2>1 DEF Injection, IsInjective
<1>9. IsFiniteSet(shared) /\ Cardinality(shared) <= Cardinality(a.aps)
  <2> HIDE DEF member
  <2> QED
    BY <1>8, FS_Injection
<1> QED
  BY <1>4, <1>9, FS_CardinalityType

Fraction == [num : Nat, den : Nat \ {0}]

LEMMA RatiosTyped ==
    ASSUME NEW s \in Held, NEW line, line.scan \in Held
    PROVE  ApRatio(s, line) \in Fraction /\ CellRatio(s, line) \in Fraction
<1> DEFINE t == line.scan
           score == CachedAps(s, t)
<1>1. IsFiniteSet(s.aps) /\ IsFiniteSet(t.aps)
  <2>1. \A u \in Scan : IsFiniteSet(u.aps)
    BY CacheAssumption
  <2>2. IsFiniteSet(EmptyScan.aps)
    BY FS_EmptySet DEF EmptyScan
  <2> QED
    BY <2>1, <2>2 DEF Held
<1>2. /\ score \in Nat /\ score <= Cardinality(s.aps)
      /\ Cardinality(s.aps) \in Nat /\ Cardinality(t.aps) \in Nat
      /\ t.aps # {} => Cardinality(t.aps) # 0
  BY <1>1, CachedApsCount, FS_CardinalityType, FS_EmptySet
<1>3. ApRatio(s, line) = IF t.aps = {} THEN [num |-> 0, den |-> 1]
                         ELSE [num |-> score, den |-> Cardinality(s.aps) + Cardinality(t.aps) - score]
  BY DEF ApRatio
<1> HIDE DEF score, t
<1>4. ApRatio(s, line) \in Fraction
  <2>1. CASE t.aps = {}
    BY <1>3, <2>1 DEF Fraction
  <2>2. CASE t.aps # {}
    <3>1. Cardinality(s.aps) + Cardinality(t.aps) - score \in Nat \ {0}
      BY <1>2, <2>2
    <3> QED
      BY <1>2, <1>3, <2>2, <3>1 DEF Fraction
  <2> QED
    BY <2>1, <2>2
<1>5. CellRatio(s, line) \in Fraction
  BY DEF CellRatio, Fraction
<1> QED
  BY <1>4, <1>5

\* Products decide as the fractions do.
LEMMA ProductGrows ==
    ASSUME NEW a \in Nat, NEW b \in Nat, NEW c \in Nat, c # 0
    PROVE  a <= b <=> a * c <= b * c
<1>1. ASSUME a <= b
      PROVE  a * c <= b * c
  <2>1. (b - a) * c >= 0
    BY <1>1
  <2>2. (b - a) * c = b * c - a * c
    OBVIOUS
  <2> QED
    BY <2>1, <2>2
<1>2. ASSUME b < a
      PROVE  b * c < a * c
  <2>1. (a - b) * c > 0
    BY <1>2
  <2>2. (a - b) * c = a * c - b * c
    OBVIOUS
  <2> QED
    BY <2>1, <2>2
<1>3. a * c \in Int /\ b * c \in Int
  OBVIOUS
<1> QED
  BY <1>1, <1>2, <1>3

LEMMA NotLessTransitive ==
    ASSUME NEW p \in Fraction, NEW q \in Fraction, NEW r \in Fraction, ~Less(q, p), ~Less(r, q)
    PROVE  ~Less(r, p)
<1> DEFINE a == p.num
           b == p.den
           c == q.num
           d == q.den
           e == r.num
           f == r.den
<1>1. /\ a \in Nat /\ b \in Nat /\ b # 0 /\ c \in Nat /\ d \in Nat /\ d # 0
      /\ e \in Nat /\ f \in Nat /\ f # 0
  BY DEF Fraction
<1>2. ~(c * b < a * d) /\ ~(e * d < c * f)
  BY DEF Less
<1> HIDE DEF a, b, c, d, e, f
<1>3. /\ a * d \in Nat /\ c * b \in Nat /\ c * f \in Nat /\ e * d \in Nat
      /\ a * f \in Nat /\ e * b \in Nat
  BY <1>1
<1>4. a * d <= c * b /\ c * f <= e * d
  BY <1>2, <1>3
<1>5. (a * d) * f <= (c * b) * f
  BY <1>1, <1>3, <1>4, ProductGrows
<1>6. (c * f) * b <= (e * d) * b
  BY <1>1, <1>3, <1>4, ProductGrows
<1>7. (a * d) * f = (a * f) * d /\ (c * b) * f = (c * f) * b /\ (e * d) * b = (e * b) * d
  BY <1>1
<1>8. (a * f) * d <= (e * b) * d
  <2> DEFINE x == (a * f) * d
             y == (c * f) * b
             z == (e * b) * d
  <2>1. x \in Int /\ y \in Int /\ z \in Int
    BY <1>1
  <2>2. x <= y /\ y <= z
    BY <1>5, <1>6, <1>7
  <2> HIDE DEF x, y, z
  <2>3. x <= z
    BY <2>1, <2>2
  <2> QED
    BY <2>3 DEF x, z
<1>9. a * f <= e * b
  BY <1>1, <1>3, <1>8, ProductGrows
<1> QED
  BY <1>3, <1>9 DEF Less, a, b, e, f

LEMMA NotLessExceeds ==
    ASSUME NEW p \in Fraction, NEW q \in Fraction, NEW percent \in Nat,
           Exceeds(p, percent), ~Less(q, p)
    PROVE  Exceeds(q, percent)
<1> DEFINE limit == [num |-> percent, den |-> 100]
<1>1. limit \in Fraction
  BY DEF Fraction
<1>2. \A r \in Fraction : Exceeds(r, percent) <=> Less(limit, r)
  <2> TAKE r \in Fraction
  <2>1. r.num \in Nat /\ r.den \in Nat
    BY DEF Fraction
  <2>2. 100 * r.num = r.num * 100
    BY <2>1
  <2> QED
    BY <2>2 DEF Exceeds, Less
<1> HIDE DEF limit
<1>3. ~Less(limit, q) /\ ~Less(q, p) => ~Less(limit, p)
  BY <1>1, NotLessTransitive
<1> QED
  BY <1>2, <1>3

LEMMA ExceedsSome ==
    ASSUME NEW p \in Fraction, NEW percent \in Nat, Exceeds(p, percent)
    PROVE  p.num > 0
<1>1. p.num \in Nat /\ p.den \in Nat
  BY DEF Fraction
<1>2. percent * p.den \in Nat
  BY <1>1
<1>3. 100 * p.num > percent * p.den
  BY DEF Exceeds
<1> QED
  BY <1>1, <1>2, <1>3

\* If there is a line to choose, the best one is.
LEMMA BestLineBest ==
    ASSUME NEW ratio, \A i \in Line : ratio[i] \in Fraction, NEW s, NEW lines,
           NEW m \in Line, Comparable(s, lines[m]), ratio[m].num > 0
    PROVE  /\ BestLine(ratio, s, lines) # NoLine
           /\ \A j \in Line : Comparable(s, lines[j]) /\ ratio[j].num > 0
                                => ~Less(ratio[BestLine(ratio, s, lines)], ratio[j])
<1> DEFINE eligible == {i \in Line : Comparable(s, lines[i]) /\ ratio[i].num > 0}
           best == {i \in eligible : \A j \in eligible : ~Less(ratio[i], ratio[j])}
           R == {jk \in Line \X Line : ~Less(ratio[jk[2]], ratio[jk[1]])}
<1>1. m \in eligible /\ \A i \in eligible : i \in Line /\ ratio[i] \in Fraction
  OBVIOUS
<1>2. \A j, k \in Line : <<j, k>> \in R <=> ~Less(ratio[k], ratio[j])
  OBVIOUS
<1>3. Total(R, eligible)
  <2> SUFFICES ASSUME NEW j \in eligible, NEW k \in eligible
               PROVE  ~Less(ratio[k], ratio[j]) \/ ~Less(ratio[j], ratio[k])
    BY <1>1, <1>2 DEF Total
  <2>1. /\ ratio[j].num \in Nat /\ ratio[j].den \in Nat
        /\ ratio[k].num \in Nat /\ ratio[k].den \in Nat
    BY <1>1 DEF Fraction
  <2>2. ratio[k].num * ratio[j].den \in Int /\ ratio[j].num * ratio[k].den \in Int
    BY <2>1
  <2> QED
    BY <2>2 DEF Less
<1>4. Transitive(R, eligible)
  <2> SUFFICES ASSUME NEW x \in eligible, NEW y \in eligible, NEW z \in eligible,
                      ~Less(ratio[y], ratio[x]), ~Less(ratio[z], ratio[y])
               PROVE  ~Less(ratio[z], ratio[x])
    BY <1>1, <1>2 DEF Transitive
  <2> HIDE DEF eligible
  <2> QED
    BY <1>1, NotLessTransitive
<1> HIDE DEF R
<1>5. eligible \in SUBSET (1 .. CacheSize) /\ CacheSize \in Nat /\ eligible # {}
  BY <1>1, CacheAssumption DEF Line
<1> HIDE DEF eligible
<1>6. \E k \in eligible : \A j \in eligible : <<j, k>> \in R
  BY <1>3, <1>4, <1>5, GreatestByRelation
<1>7. best # {}
  BY <1>1, <1>2, <1>6
<1>8. best \in SUBSET Line
  BY <1>1
<1>9. Min(best) \in best /\ Min(best) \in Line
  <2> HIDE DEF best
  <2> QED
    BY <1>7, <1>8, LineChoice
<1>10. BestLine(ratio, s, lines) = Min(best)
  <2>1. BestLine(ratio, s, lines) = IF best = {} THEN NoLine ELSE Min(best)
    BY DEF BestLine, eligible
  <2> HIDE DEF best
  <2> QED
    BY <1>7, <2>1
<1>11. \A j \in eligible : ~Less(ratio[Min(best)], ratio[j])
  BY <1>9
<1>12. Min(best) # NoLine
  BY <1>9, CacheAssumption DEF Line, NoLine
<1> HIDE DEF best
<1> QED
  BY <1>10, <1>11, <1>12 DEF eligible

\* A line matches exactly if the best one does.
LEMMA BestLineMatches ==
    ASSUME NEW ratio, \A i \in Line : ratio[i] \in Fraction, NEW s, NEW lines,
           NEW percent \in Nat
    PROVE  LET best == BestLine(ratio, s, lines)
               Good(i) == Comparable(s, lines[i]) /\ Exceeds(ratio[i], percent)
           IN  /\ best # NoLine /\ Exceeds(ratio[best], percent) <=> \E i \in Line : Good(i)
               /\ best # NoLine => best \in Line /\ Comparable(s, lines[best])
               /\ best # NoLine => \A i \in Line : Good(i) => ~Less(ratio[best], ratio[i])
<1> DEFINE best == BestLine(ratio, s, lines)
           Good(i) == Comparable(s, lines[i]) /\ Exceeds(ratio[i], percent)
<1>1. best # NoLine => best \in Line /\ Comparable(s, lines[best])
  BY BestLineTyped
<1>2. ASSUME NEW i \in Line, Good(i)
      PROVE  best # NoLine /\ ~Less(ratio[best], ratio[i]) /\ Exceeds(ratio[best], percent)
  <2>1. ratio[i] \in Fraction /\ ratio[i].num > 0
    BY <1>2, ExceedsSome
  <2>2. best # NoLine /\ ~Less(ratio[best], ratio[i])
    BY <1>2, <2>1, BestLineBest
  <2>3. ratio[best] \in Fraction
    BY <1>1, <2>2
  <2> HIDE DEF best
  <2> QED
    BY <1>2, <2>1, <2>2, <2>3, NotLessExceeds
<1> HIDE DEF best
<1> QED
  BY <1>1, <1>2 DEF best

\* What a search of some lines by degrees of match tells.
Finds(found, ratio, s, lines, percent) ==
    LET Good(i) == Comparable(s, lines[i]) /\ Exceeds(ratio[i], percent)
    IN  /\ IsCacheHit(found) <=> \E i \in Line : Good(i)
        /\ IsCacheHit(found) =>
              /\ found.get_from \in Line /\ Good(found.get_from)
              /\ \A i \in Line : Good(i) => ~Less(ratio[found.get_from], ratio[i])

LEMMA ThresholdTyped ==
    ASSUME config \in ConfigRecord, NEW s
    PROVE  ApThreshold(s) \in Nat /\ config.cache_match_all_threshold \in Nat
BY ConfigAssumption DEF ConfigRecord, OptionName, Built, ApThreshold

LEMMA ApMatchFinds ==
    ASSUME config \in ConfigRecord, NEW q \in RequestRecord, ~q.hit,
           NEW lines, \A i \in Line : lines[i].scan \in Held
    PROVE  Finds(ApMatch(q, lines), [i \in Line |-> ApRatio(q.scan, lines[i])],
                 q.scan, lines, ApThreshold(q.scan))
<1> DEFINE ratio == [i \in Line |-> ApRatio(q.scan, lines[i])]
           best == BestLine(ratio, q.scan, lines)
           percent == ApThreshold(q.scan)
           good == best # NoLine /\ Exceeds(ratio[best], percent)
           found == ApMatch(q, lines)
           Good(i) == Comparable(q.scan, lines[i]) /\ Exceeds(ratio[i], percent)
<1>1. \A i \in Line : ratio[i] \in Fraction
  BY RatiosTyped DEF RequestRecord
<1>2. percent \in Nat
  BY ThresholdTyped
<1>3. found = [q EXCEPT !.save_to = ApSaveTo(q.scan, lines),
                        !.get_from = IF good THEN best ELSE 1, !.hit = @ \/ good]
  BY DEF ApMatch
<1> HIDE DEF ratio, percent
<1>4. /\ good <=> \E i \in Line : Good(i)
      /\ best # NoLine => best \in Line /\ Comparable(q.scan, lines[best])
      /\ best # NoLine => \A i \in Line : Good(i) => ~Less(ratio[best], ratio[i])
  BY <1>1, <1>2, BestLineMatches
<1> DEFINE get == IF good THEN best ELSE 1
           save == ApSaveTo(q.scan, lines)
<1>p. good => Exceeds(ratio[best], percent) /\ best # NoLine
  OBVIOUS
<1> HIDE DEF found, best, good
<1>5. (found.hit <=> good) /\ found.get_from = get
  <2>1. found.hit = (q.hit \/ good) /\ found.get_from = get
    BY <1>3 DEF RequestRecord
  <2> HIDE DEF get
  <2> QED
    BY <2>1, Zenon
<1>6. IsCacheHit(found) <=> good
  BY <1>p, <1>5 DEF IsCacheHit
<1> QED
  BY <1>p, <1>4, <1>5, <1>6 DEF Finds, found, ratio, percent

LEMMA CellMatchFinds ==
    ASSUME config \in ConfigRecord, NEW q \in RequestRecord,
           NEW lines, \A i \in Line : lines[i].scan \in Held
    PROVE  Finds(CellMatch(q, lines), [i \in Line |-> CellRatio(q.scan, lines[i])],
                 q.scan, lines, config.cache_match_all_threshold)
<1> DEFINE ratio == [i \in Line |-> CellRatio(q.scan, lines[i])]
           best == BestLine(ratio, q.scan, lines)
           percent == config.cache_match_all_threshold
           good == best # NoLine /\ 100 > percent
           found == CellMatch(q, lines)
           Good(i) == Comparable(q.scan, lines[i]) /\ Exceeds(ratio[i], percent)
<1>1. \A i \in Line : ratio[i] \in Fraction
  BY RatiosTyped DEF RequestRecord
<1>2. percent \in Nat
  BY ThresholdTyped
<1>3. found.hit = good /\ found.get_from = best
  BY DEF CellMatch, RequestRecord
<1>4. best # NoLine => best \in Line /\ ratio[best].num > 0
  <2> HIDE DEF ratio
  <2> QED
    BY BestLineTyped
<1>5. best # NoLine => ratio[best].num = 1 /\ ratio[best].den = 1
  <2>1. \A i \in Line : ratio[i].num > 0 => ratio[i].num = 1 /\ ratio[i].den = 1
    BY DEF CellRatio
  <2> HIDE DEF best, ratio
  <2> QED
    BY <1>4, <2>1
<1> HIDE DEF ratio, percent
<1>6. /\ best # NoLine /\ Exceeds(ratio[best], percent) <=> \E i \in Line : Good(i)
      /\ best # NoLine => best \in Line /\ Comparable(q.scan, lines[best])
      /\ best # NoLine => \A i \in Line : Good(i) => ~Less(ratio[best], ratio[i])
  BY <1>1, <1>2, BestLineMatches
<1> HIDE DEF found, best
<1>7. good <=> best # NoLine /\ Exceeds(ratio[best], percent)
  BY <1>2, <1>5 DEF Exceeds
<1>8. IsCacheHit(found) <=> good
  BY <1>3 DEF IsCacheHit
<1> QED
  BY <1>3, <1>6, <1>7, <1>8 DEF Finds, found, ratio, percent

\* Searching the lines that have not expired finds those that match.
LEMMA ExpiredMatch ==
    ASSUME Typed, NEW s, NEW time \in Nat, NEW i \in Line
    PROVE  /\ ExpireLines(time)[i].scan = cacheline[i].scan
           /\ ApRatio(s, ExpireLines(time)[i]) = ApRatio(s, cacheline[i])
           /\ CellRatio(s, ExpireLines(time)[i]) = CellRatio(s, cacheline[i])
           /\ Comparable(s, ExpireLines(time)[i])
                <=> /\ cacheline[i].time # CACHE_EMPTY
                    /\ time - cacheline[i].time <= config.cache_age_threshold
                    /\ ~ServingCellChanged(s, cacheline[i]) /\ ~CachedGnssWorse(s, cacheline[i])
<1> DEFINE line == cacheline[i]
           kept == ExpireLines(time)[i]
<1>1. line \in LineRecord /\ line.time \in Nat
  BY CacheAssumption DEF Typed, LineRecord, LineTime, CACHE_EMPTY
<1>2. kept = IF Expired(line, time) THEN Cleared(line) ELSE line
  BY DEF ExpireLines
<1>3. Cleared(line).scan = line.scan /\ Cleared(line).time = CACHE_EMPTY
  BY <1>1 DEF Cleared, LineRecord
<1>4. config.cache_age_threshold \in Nat
  BY ConfigAssumption DEF Typed, ConfigRecord, OptionName, Built
<1> HIDE DEF line, kept
<1>5. kept.scan = line.scan
  BY <1>2, <1>3
<1>6. kept.time # CACHE_EMPTY
        <=> line.time # CACHE_EMPTY /\ time - line.time <= config.cache_age_threshold
  BY <1>1, <1>2, <1>3, <1>4 DEF Expired
<1>7. /\ ApRatio(s, kept) = ApRatio(s, line) /\ CellRatio(s, kept) = CellRatio(s, line)
      /\ ServingCellChanged(s, kept) <=> ServingCellChanged(s, line)
      /\ CachedGnssWorse(s, kept) <=> CachedGnssWorse(s, line)
  BY <1>5 DEF ApRatio, CellRatio, ServingCellChanged, CachedGnssWorse
<1> QED
  BY <1>5, <1>6, <1>7 DEF Comparable, line, kept

\* A request that has not been searched for has no hit.
Fresh ==
    /\ Typed
    /\ \A r \in Rctx : rctx[r].searches = 0 => ~rctx[r].hit

LEMMA NextFresh == Fresh /\ [Next]_vars => Fresh'
<1> SUFFICES ASSUME Fresh, [Next]_vars
             PROVE  Fresh'
  OBVIOUS
<1>1. Typed'
  BY NextTyped DEF Fresh
<1>2. ASSUME NEW r \in Rctx, Request(r), NEW s \in Rctx, rctx'[s].searches = 0
      PROVE  ~rctx'[s].hit
  <2>1. rctx \in [Rctx -> RequestRecord] /\ (rctx[s].searches = 0 => ~rctx[s].hit)
    BY DEF Fresh, Typed
  <2>2. ASSUME s # r, rctx'[s] # rctx[s]
        PROVE  FALSE
    <3>1. \E q : rctx' = [rctx EXCEPT ![r] = q]
      BY <1>2
      DEF Request, SkyNewRequest, SkyNewRequestDenied, AddScan, SkySearchCache,
          SkyIgnoreCacheHit, SkySizeofRequestBuf, SkyDecodeResponse, Unanswered
    <3> QED
      BY <2>1, <2>2, <3>1
  <2>3. CASE ~SkySearchCache(r) /\ s = r
    <3>1. CASE SkyNewRequest(r)
      <4>1. rctx'[r] = [IdleRequest EXCEPT !.phase = "building", !.time = Clock]
        BY <2>1, <3>1 DEF SkyNewRequest
      <4> QED
        BY <2>3, <4>1 DEF IdleRequest
    <3>2. CASE SkyNewRequestDenied(r) \/ Unanswered(r)
      <4>1. rctx'[r] = IdleRequest
        BY <2>1, <3>2 DEF SkyNewRequestDenied, Unanswered
      <4> QED
        BY <2>3, <4>1 DEF IdleRequest
    <3>3. CASE \E t \in Scan : AddScan(r, t)
      BY <1>2, <2>1, <2>3, <3>3 DEF AddScan, RequestRecord
    <3>4. CASE SkyIgnoreCacheHit(r)
      BY <1>2, <2>1, <2>3, <3>4 DEF SkyIgnoreCacheHit, RequestRecord
    <3>5. CASE SkySizeofRequestBuf(r)
      <4>1. rctx'[r].searches = rctx[r].searches /\ rctx'[r].hit = rctx[r].hit
        BY <2>1, <2>3, <3>5 DEF SkySizeofRequestBuf, RequestRecord
      <4> QED
        BY <1>2, <2>1, <2>3, <4>1
    <3>6. CASE SkyDecodeResponse(r)
      <4>1. rctx'[r] = IdleRequest \/ rctx'[r] = [rctx[r] EXCEPT !.phase = "building"]
        BY <2>1, <3>6 DEF SkyDecodeResponse
      <4>2. [rctx[r] EXCEPT !.phase = "building"].searches = rctx[r].searches
            /\ [rctx[r] EXCEPT !.phase = "building"].hit = rctx[r].hit
        BY <2>1 DEF RequestRecord
      <4>3. CASE rctx'[r] = IdleRequest
        BY <2>3, <4>3 DEF IdleRequest
      <4>4. CASE rctx'[r] = [rctx[r] EXCEPT !.phase = "building"]
        BY <1>2, <2>1, <2>3, <4>2, <4>4
      <4> QED
        BY <4>1, <4>3, <4>4
    <3> QED
      BY <1>2, <2>3, <3>1, <3>2, <3>3, <3>4, <3>5, <3>6 DEF Request
  <2>4. CASE SkySearchCache(r) /\ s = r
    <3>1. rctx'[r].searches = rctx[r].searches + 1
      BY <2>1, <2>4, SearchStep DEF Fresh
    <3>2. rctx[r].searches \in Nat
      BY <2>1, CacheAssumption DEF RequestRecord
    <3>3. rctx'[r].searches # 0
      BY <3>1, <3>2
    <3> QED
      BY <1>2, <2>4, <3>3
  <2> QED
    BY <1>2, <2>1, <2>2, <2>3, <2>4
<1>3. CASE Reconfigure \/ Tick \/ ClockChange \/ UNCHANGED vars
  <2>1. UNCHANGED rctx
    BY <1>3 DEF Reconfigure, Tick, ClockChange, vars
  <2> QED
    BY <1>1, <2>1 DEF Fresh
<1> QED
  BY <1>1, <1>2, <1>3 DEF Next, Fresh

LEMMA InitFresh == Init => Fresh
BY InitTyped DEF Init, Fresh, IdleRequest

\* The first search of a request tells a hit exactly if a line matches it, and
\* names one that no other matches better, whatever the thresholds are and
\* whatever the other request contexts do to the lines.
THEOREM FindsBestMatch ==
    ASSUME OneSearch
    PROVE  Spec => SearchFindsBestMatch
<1> DEFINE Ratio(s, l) == IF s.aps # {} THEN ApRatio(s, l) ELSE CellRatio(s, l)
           matching(q) == {i \in Line : q.time >= Epoch /\ Matching(q, cacheline[i])}
           Found(r) ==
             Searched(r) =>
                /\ IsCacheHit(rctx'[r]) <=> matching(rctx[r]) # {}
                /\ IsCacheHit(rctx'[r]) =>
                     /\ rctx'[r].get_from \in matching(rctx[r])
                     /\ \A i \in matching(rctx[r]) :
                          ~Less(Ratio(rctx[r].scan, cacheline[rctx'[r].get_from]),
                                Ratio(rctx[r].scan, cacheline[i]))
           Best == \A r \in Rctx : Found(r)
<1>1. ASSUME Fresh, [Next]_vars, NEW r \in Rctx, Searched(r)
      PROVE  SkySearchCache(r)
  <2> SUFFICES ASSUME ~SkySearchCache(r)
               PROVE  FALSE
    OBVIOUS
  <2>1. /\ rctx \in [Rctx -> RequestRecord]
        /\ rctx[r].searches \in Nat /\ rctx'[r].searches = rctx[r].searches + 1
    BY <1>1, CacheAssumption DEF Fresh, Typed, RequestRecord, Searched
  <2>2. rctx'[r].searches \notin {0, rctx[r].searches}
    BY <2>1
  <2>3. rctx'[r] # rctx[r]
    BY <2>2
  <2>4. PICK s \in Rctx : Request(s)
    <3>1. ~UNCHANGED rctx
      BY <2>3
    <3> QED
      BY <1>1, <3>1 DEF Next, Reconfigure, Tick, ClockChange, vars
  <2>5. s = r
    <3>1. \E q : rctx' = [rctx EXCEPT ![s] = q]
      BY <2>4
      DEF Request, SkyNewRequest, SkyNewRequestDenied, AddScan, SkySearchCache,
          SkyIgnoreCacheHit, SkySizeofRequestBuf, SkyDecodeResponse, Unanswered
    <3> QED
      BY <2>1, <2>3, <3>1
  <2>6. CASE SkyNewRequest(r)
    <3>1. rctx'[r] = [IdleRequest EXCEPT !.phase = "building", !.time = Clock]
      BY <2>1, <2>6 DEF SkyNewRequest
    <3> QED
      BY <2>2, <3>1 DEF IdleRequest
  <2>7. CASE SkyNewRequestDenied(r) \/ Unanswered(r)
    <3>1. rctx'[r] = IdleRequest
      BY <2>1, <2>7 DEF SkyNewRequestDenied, Unanswered
    <3> QED
      BY <2>2, <3>1 DEF IdleRequest
  <2>8. CASE \E t \in Scan : AddScan(r, t)
    BY <2>1, <2>2, <2>8 DEF AddScan, RequestRecord
  <2>9. CASE SkyIgnoreCacheHit(r)
    BY <2>1, <2>2, <2>9 DEF SkyIgnoreCacheHit, RequestRecord
  <2>10. CASE SkySizeofRequestBuf(r)
    <3>1. rctx'[r].searches = rctx[r].searches
      BY <2>1, <2>10 DEF SkySizeofRequestBuf, RequestRecord
    <3> QED
      BY <2>2, <3>1
  <2>11. CASE SkyDecodeResponse(r)
    <3>1. rctx'[r] = IdleRequest \/ rctx'[r] = [rctx[r] EXCEPT !.phase = "building"]
      BY <2>1, <2>11 DEF SkyDecodeResponse
    <3>2. [rctx[r] EXCEPT !.phase = "building"].searches = rctx[r].searches
      BY <2>1 DEF RequestRecord
    <3>3. IdleRequest.searches = 0
      BY DEF IdleRequest
    <3> QED
      BY <2>2, <3>1, <3>2, <3>3
  <2> QED
    BY <2>4, <2>5, <2>6, <2>7, <2>8, <2>9, <2>10, <2>11 DEF Request
<1>2. ASSUME Fresh, NEW r \in Rctx, SkySearchCache(r)
      PROVE  Found(r)
  <2> DEFINE q == rctx[r]
             lines == IF q.time >= Epoch THEN ExpireLines(q.time) ELSE cacheline
             found == SearchCache(q, lines)
  <2>1. /\ IsCacheHit(rctx'[r]) <=> IsCacheHit(found)
        /\ rctx'[r].get_from = found.get_from
    BY <1>2, SearchStep DEF Fresh
  <2>2. q \in RequestRecord /\ q.time \in Nat /\ config \in ConfigRecord /\ Typed
    BY <1>2 DEF Fresh, Typed, RequestRecord
  <2>3. ~q.hit
    <3>1. q.searches < 1 /\ q.searches \in Nat
      BY <1>2, <2>2, CacheAssumption DEF SkySearchCache, OneSearch, RequestRecord
    <3>2. q.searches = 0
      BY <3>1
    <3> QED
      BY <1>2, <3>2 DEF Fresh
  <2>4. CASE q.time >= Epoch /\ q.scan.aps # {}
    <3> DEFINE kept == ExpireLines(q.time)
               ratio == [i \in Line |-> ApRatio(q.scan, kept[i])]
               Good(i) == Comparable(q.scan, kept[i]) /\ Exceeds(ratio[i], ApThreshold(q.scan))
    <3>1. found = ApMatch(q, kept)
      BY <2>4 DEF SearchCache
    <3>2. \A i \in Line : kept[i].scan \in Held
      BY <2>2, LinesTyped DEF LineRecord
    <3>3. Finds(found, ratio, q.scan, kept, ApThreshold(q.scan))
      <4> HIDE DEF q, found, kept
      <4> QED
        BY <2>2, <2>3, <3>1, <3>2, ApMatchFinds
    <3>4. \A i \in Line : ratio[i] = Ratio(q.scan, cacheline[i])
      BY <2>2, <2>4, ExpiredMatch
    <3>5. \A i \in Line : Good(i) <=> i \in matching(q)
      BY <2>2, <2>4, ExpiredMatch DEF Matching
    <3>6. \A i \in matching(q) : i \in Line
      OBVIOUS
    <3> HIDE DEF found, q, kept, ratio, matching, Ratio
    <3>7. /\ IsCacheHit(found) <=> matching(q) # {}
          /\ IsCacheHit(found) =>
                /\ found.get_from \in Line /\ found.get_from \in matching(q)
                /\ \A i \in matching(q) : ~Less(ratio[found.get_from], ratio[i])
      BY <3>3, <3>5, <3>6 DEF Finds
    <3>8. IsCacheHit(found) =>
            \A i \in matching(q) : ~Less(Ratio(q.scan, cacheline[found.get_from]),
                                        Ratio(q.scan, cacheline[i]))
      BY <3>4, <3>6, <3>7
    <3> QED
      BY <2>1, <3>7, <3>8 DEF q
  <2>5. CASE q.time >= Epoch /\ q.scan.aps = {} /\ q.scan.cells # <<>>
    <3> DEFINE kept == ExpireLines(q.time)
               ratio == [i \in Line |-> CellRatio(q.scan, kept[i])]
               percent == config.cache_match_all_threshold
               Good(i) == Comparable(q.scan, kept[i]) /\ Exceeds(ratio[i], percent)
    <3>1. found = CellMatch(q, kept)
      BY <2>5 DEF SearchCache
    <3>2. \A i \in Line : kept[i].scan \in Held
      BY <2>2, LinesTyped DEF LineRecord
    <3>3. Finds(found, ratio, q.scan, kept, percent)
      <4> HIDE DEF q, found, kept
      <4> QED
        BY <2>2, <3>1, <3>2, CellMatchFinds
    <3>4. \A i \in Line : ratio[i] = Ratio(q.scan, cacheline[i])
      BY <2>2, <2>5, ExpiredMatch
    <3>5. \A i \in Line : Good(i) <=> i \in matching(q)
      BY <2>2, <2>5, ExpiredMatch DEF Matching
    <3>6. \A i \in matching(q) : i \in Line
      OBVIOUS
    <3> HIDE DEF found, q, kept, ratio, percent, matching, Ratio
    <3>7. /\ IsCacheHit(found) <=> matching(q) # {}
          /\ IsCacheHit(found) =>
                /\ found.get_from \in Line /\ found.get_from \in matching(q)
                /\ \A i \in matching(q) : ~Less(ratio[found.get_from], ratio[i])
      BY <3>3, <3>5, <3>6 DEF Finds
    <3>8. IsCacheHit(found) =>
            \A i \in matching(q) : ~Less(Ratio(q.scan, cacheline[found.get_from]),
                                        Ratio(q.scan, cacheline[i]))
      BY <3>4, <3>6, <3>7
    <3> QED
      BY <2>1, <3>7, <3>8 DEF q
  <2>6. CASE ~(q.time >= Epoch /\ (q.scan.aps # {} \/ q.scan.cells # <<>>))
    <3>1. found = [q EXCEPT !.get_from = NoLine, !.hit = FALSE]
      BY <2>6 DEF SearchCache
    <3>2. ~IsCacheHit(found)
      BY <2>2, <3>1 DEF IsCacheHit, RequestRecord
    <3>3. matching(q) = {}
      BY <2>6 DEF Matching
    <3> HIDE DEF found, matching
    <3> QED
      BY <2>1, <3>2, <3>3
  <2> QED
    BY <2>4, <2>5, <2>6
<1>3. Fresh /\ [Next]_vars => [Best]_vars
  BY <1>1, <1>2
<1> QED
  BY <1>3, InitFresh, NextFresh, PTL DEF Spec, SearchFindsBestMatch
==============================================================================
