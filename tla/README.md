# LibEL: a TLA+ model of the embedded client

TLA+ modules, TLC configurations and TLAPS proofs for LibEL, the C library with
which a device locates itself: it collects the access points (APs) and cells the
device sees into a request, compares them with a client cache, encodes the request
for a location server, decodes the answer, and keeps what it learnt in a buffer that
the application saves in non-volatile memory. The code is under `src/`; paths below
are relative to `src/`, and file names alone stand for those in `src/libel`,
`src/plugins` and `src/sample_client`.

Contents: 1 the system, 2 the modules, 3 what the runs check, 4 what is proved,
5 where the code and its documentation disagree, 6 bounds and fairness, 7 what is not
modelled. `PROJECT.json` holds the same as data, with the source
lines of every definition, the hazards and, for every property, a plausible bug
(a *mutant*) that the run finds.

## 1. The system

LibEL has no threads and does no I/O. It is a set of functions on two kinds of memory
that the application owns:

- the **session context** `Sky_sctx_t`: credentials, token, the code of the last
  authentication failure (`backoff`) and the time of the last response
  (`header.time`), the dynamic configuration, the cachelines and `cache_hits`. The
  application saves it after `sky_close` and passes it to the next `sky_open`;
- a **request context** `Sky_rctx_t` per location request: the time it
  was made, the `auth_state`, the list of beacons, the fix, and the results of the cache search
  (`hit`, `get_from`, `save_to`).

Time comes from a function of the application, which may return anything: a value
below `TIMESTAMP_2019_03_01` means that the clock is not set.

| Component | State | Operations | Hard behaviour | Correct if |
|---|---|---|---|---|
| Session life cycle (`libel.c`, `utilities.c`) | magic, open flag, credentials | `sky_open`, `sky_close`, save and restore by the client | restarts with an old, an empty or an invalid buffer; credentials that change | a session is continued only with the credentials it belongs to, and nothing is lost by a restart but what was not saved |
| Authentication and prohibition (`libel.c`, `protocol/proto.c`) | token, `backoff`, `header.time`, `auth_state` of a request | `sky_new_request`, `sky_encode_request`, `sky_decode_response` | two requests of one session; a clock that is lost; an answer of any kind, or none | no request leaves while a prohibition runs; refusals climb one step at a time; a registered device is not prohibited; an answer is never taken for one of another kind |
| Beacon list (`beacons.c`) | beacons, `num_ap`, limits | `sky_add_ap_beacon`, `sky_add_*_cell_*`; option and response change the limits | any order of additions, duplicates of other age, limits that change between two additions | ordered, no duplicates, trimmed to the limits in force and never beyond its array, and the beacon given up is the right one |
| AP and cell plugins (`ap_plugin_basic.c`, `cell_plugin_basic.c`, `plugin.c`) | none of their own | `equal`, `compare`, `remove_worst`, `match`, `to_cache` | ties, virtual groups, scans over a weak threshold, lists visited from both ends | the choice is the documented one |
| Client cache (`utilities.c`, `ap_plugin_basic.c`, `beacons.c`) | cachelines, `cache_hits`, `get_from`, `save_to`, `hit` | `sky_search_cache`, `sky_ignore_cache_hit`, the substitution in `sky_sizeof_request_buf`, saving in `sky_decode_response` | thresholds change and time passes between search, sizing and saving; requests are abandoned | the best fresh match is found; what is sent is from the same place; the number of hits in a row is limited; locations are not overwritten needlessly |
| Dynamic configuration (`config.h`, `libel.c`, `utilities.c`, `protocol/proto.c`) | options with their ranges, `last_config_time` | `config_defaults`, `apply_config_overrides`, `sky_set_option` | configuration asked for by one request and received by another | it is never used when it is older than its interval |
| Encoding (`protocol/proto.c`, getters of `utilities.c`) | none of its own; the position and its age in a request | `sky_add_gnss`, `serialize_request`, `select_vap`, `apply_used_info_to_ap` | values that are equal, unknown or 0; more virtual APs than may be sent | the server reads what is in the list, the client reads what the server meant |
| Sample client (`sample_client.c`, `send.c`) | the process, the saved session | `locate` with its retries, save, restore | retries after authentication failures, crashes, answers that never come | a call of `locate` returns and does not pester the server |

The components interact only through calls and the two contexts. `sky_new_request`
reads the prohibition, the token and the clock, and clears cachelines;
`sky_add_*` reads the limits and the cachelines (which APs were *used* for a location);
`sky_search_cache` expires and compares lines; `sky_sizeof_request_buf` substitutes a
matching line's beacons and decides whether to ask for configuration;
`sky_encode_request` checks the prohibition again and builds whatever the token now
asks for; `sky_decode_response` stamps the session, applies configuration, token and
prohibition, and saves a line. What goes wrong therefore goes wrong *between* calls:
between two transactions on one session, or between a call that looked at a
shared field and a later one that relies on it.

`PROJECT.json` lists the hazards at their lines.

## 2. The modules

| Module | Models | Of the code |
|---|---|---|
| `ServiceGate` | abstract: the ladder of refusals and the prohibition as the server sees it | what `Session` promises |
| `Session` | life cycle, Token Based Registration, prohibition, time of configuration | `libel.c`, `proto.c`, `utilities.c`, `sample_client.c` |
| `Client` | the sample client as a process over `Session`: restore, open, locate with retries, close, save, crash | `sample_client.c`, `send.c` |
| `BeaconLimits`, `Config` | the compiled in values; every option but the logging level, its range, `sky_set_option`, defaults and overrides | `config.h`, `libel.c`, `utilities.c`, `proto.c` |
| `BeaconList` | abstract: how many APs and cells a request may hold | what `Beacons` promises |
| `Cells` | the ids each `sky_add_cell_*` call makes, and those `validate_beacon` takes | `libel.c`, `utilities.c` |
| `ApPlugin`, `CellPlugin` | the plugins' pure choices as operators | `ap_plugin_basic.c`, `cell_plugin_basic.c` |
| `Beacons` | validation, insertion and trimming under limits that change | `beacons.c`, `libel.c`, `plugin.c` |
| `Wire` | the fields of a request, the position, virtual APs, the used bits of an answer | `proto.c`, `utilities.c`, `libel.c` |
| `Cache` | cachelines, search, hits, saving | `ap_plugin_basic.c`, `cell_plugin_basic.c`, `beacons.c`, `libel.c` |
| `MCSession`, `MCClient`, `MCBeacons`, `MCCache` | values of the constants for TLC | |
| `SessionProofs`, `ClientProofs`, `BeaconListProofs`, `BeaconsProofs`, `WireProofs`, `CacheProofs` | theorems about the components | |
| `CommonProofs`, `ApPluginProofs` | lemmas: least and greatest elements, loops, limits; the choices of the AP plugin | |

```
ServiceGate <--refines-- Session <--EXTENDS-- Client
BeaconLimits <-- Config <-- Cache
                   ^
                   +------- Beacons (with Cells, ApPlugin, CellPlugin) <-- Wire
                               |
                               +--refines--> BeaconList
```

`Session`, `Beacons` and `Cache` share no variable but model the same two contexts,
each the fields its operations read or write; where one needs what another decides it
chooses among all of the other's outcomes (a scan in `Cache` is any set of beacons
`Beacons` could have accepted; a request may be refused, `SkyNewRequestDenied`, as
in `Session`). `Client` composes the session with the process that uses it, `Wire` the
list of beacons with the message and the server that reads it.

**Session.** `sctx` is the buffer the application passes, `saved` its copy in
non-volatile memory, `rctx[r]` the request contexts with their `phase` (idle, built,
sized, sent: the order in which the client must call), `ret` the last call's result.
`sctx.heard` and `ret.status` are history: the real time at which `header.time` was
set and the status the server gave. Actions have the names of the API calls;
`SkyDecodeResponse` is one step, as in the code, with the status, token and
body of the response chosen by the server. `sky_open` has three outcomes, and its failing
ones change the buffer as the code does: an invalid one loses its magic
before `gettime` is checked. A response that asks for authentication leaves the
request context where a client can size and send it again. `Tick` is real time, `ClockChange` makes `timefn()`
follow it or not. `Restart` is a crash or an orderly end: a new process has the saved
buffer, an empty one or (fault `corrupt`) an invalid one.

**Client.** `pc` is the place in `main` or `locate`; each action is one action of
`Session` and what the client makes of its result. `DecodeResponse` goes back to
`retry_after_auth` for every one of the four retry codes, at once, with the same request
context: the delays in the sample are comments, and time may pass between any two
steps. `told` is the error in `locate`'s hands, `refused` counts, for the properties, the
registrations refused in a row in one call. `Crash` ends the process at any point;
`RetrieveSessionContext` finds what was saved, or an empty buffer if the file was cut
short.

**Config.** A configuration is a record with a value per option.
`OptionAccepted` compares the signed argument, `SetOption` stores it unsigned;
`ApplyConfigOverrides` obeys or ignores each override by itself, after
`ConfigDefaults` replaced what is 0.

**Beacons.** `rctx.beacon` is the list, `num_ap` the length of its AP prefix. A scan
is a record with what matters of all kinds: a MAC as a short
sequence of nibbles, because virtual groups are defined by nibbles; the ids of a cell
as in `struct cell`, made by the operators of `Cells` from the arguments of the API. `SkyAddBeacon` is the whole of a
`sky_add_*` call: validation, correction, `insert_beacon` and, if the list grew
past a limit, `remove_worst`. An addition that is refused changes nothing and is a
stutter. `SkySetOption` and `ConfigReceived` change the limits at any time, as
the code does, to any pair the code accepts: also to a `total_beacons` below
`max_ap_beacons`. The cell limit is their unsigned difference, which then wraps and limits
no cell. A list is stopped by `validate_request_ctx` only, which lets a request of
`TOTAL_BEACONS` + 1 beacons take one more: in the code that write is beyond the array, in
the model the list grows as if there were memory to spare.

**Wire.** A message is a record of its fields, of which those not sent have the
protobuf default. `Rq` is the body of a request for a list and a position. As the getters do,
it takes the first `num_ap` beacons for the APs and as many after them as there are cells
for the cells; that these are all of the list is part of what `ServerReadsBeacons` shows.
`AddGnss` is what a call of `sky_add_gnss` leaves of both fix and age;
`SelectVap` the children kept by `select_vap`, which deals them out in rounds
(`Earlier`), and `VapData` the groups that are sent, each with its parent;
`ApplyUsedInfoToAp` what the used bits of an answer set. The server (`ReadAps`,
`ReadCells`, `ServerUsedBytes`) is external: the inverse of what the client's code
relies on. `Wire` has no actions of its own: its properties are evaluated in every
state of `Beacons`.

**Cache.** A line holds its time and its scan; the location of a line is that
of its scan, so that a hit on the wrong line is a location of another place.
`own` is the scan the application reported, `scan` what the request holds, which
a hit replaces. Match ratios are fractions of whole numbers, compared by cross
multiplication. `AddScan` stands for the `sky_add_*` calls and only extends the scan.
`SkyDecodeResponse` is guarded by a scan that is not empty because
`sky_encode_request` refuses a request without beacons; after a response that asks for
authentication the same request is sized and sent again, which counts its hit again.

## 3. What the runs check

Passing runs:

- **`session_faults`** (`MCSession_faults.cfg`): one transaction at a time, every
  fault, with and without an SKU (which is how Token Based Registration is turned on)
  and with partner id 0, for which `sky_open` continues any session.
  `RegisteredNotBlocked`: a device that holds a token is under no sanction, whichever
  refusals, restarts and credentials came before. `ResponsesMatchRequests`: the code
  reports a location exactly if the server located a location request. `TypeOK` fixes the
  types of both contexts, and says nothing of what a restart may forget.
- **`session_concurrent`**: two request contexts of one session, interleaved.
  `ImplementsGate`: the session refines `ServiceGate`: no request leaves while a
  prohibition runs, though another request's answer may start one between sizing and
  encoding; and the ladder is climbed one step at a time. `NewRequestAdmitted`:
  `sky_new_request` turns a device away only while a prohibition runs.
  `ConfigNeverStale`: a request that does not ask for configuration leaves only while
  what it has is recent, although the decision is made when the request is sized and
  another transaction's request, answer and configuration may come before it is encoded. (One
  request context cannot show this: nothing comes between its sizing and its encoding.)
- **`client_locate`**: the sample client, with restarts and crashes, every answer and
  none. `LocateReturns`: a call of `locate` returns although nothing counts its retries,
  because a refused registration climbs the ladder until `sky_encode_request` denies
  the next. It need not return only if the server keeps granting tokens and refusing
  them. `FewRefusals`: one call makes the server refuse at most two registrations
  in a row. What the delayed retries of the sample come to is the subject of
  `client_delay` (section 5).
- **`beacons_filter`**: every order of ten reported beacons (one with an invalid MAC), five
  scan times (unknown, -1, before the epoch, in the past, in the future), two request times
  and limits that change at any time, `total_beacons` below `max_ap_beacons` included. `Ordered`: APs first, by
  strength, then cells by priority, age, type and strength; `remove_worst` of the cells takes the
  last. `NoDuplicates`, although `insert_beacon` looks at the first duplicate only.
  `KeepsNewest`: what a request knows of a beacon never gets older.
  `VirtualGroupsCovered`: an AP given up for its virtual group has a similar one that
  stays. `EvictsLowestPriority`: over lists without weak APs `set_priorities` picks
  the lowest priority, ties by MAC. `ImplementsList`: refinement of `BeaconList`,
  which says what an addition may do to the numbers of APs and cells under limits that fit
  each other and under limits that do not. `RoomKept`: while the limits in force fit each
  other no call uses up the spare element of the array, whatever the limits were before and
  however far the request is above them.
  Of the message: `ServerReadsBeacons`: the common values, the "plus 1" and the fields
  left out lose nothing. `ServerReadsPosition`: of two calls of `sky_add_gnss` every field
  of the last accepted one is sent; the age is, as in the code, that of
  the last call whose time was in range, which need not be the call that gave the fix. `VapsWithinLimit`: the limit on virtual APs is
  kept, no room is wasted and as many groups as possible survive. `UsedReachesRightAp`:
  although client and server count different sets of children, and the test
  of the size comes late (`proto.c:578`), no bit reaches the wrong AP.
- **`cache_search`**: a cache of two lines, six scans, configurations that change, a clock that comes
  and goes, requests that are sent again. `SearchFindsBestMatch` against a definition of a match that is not the
  code's loop. `SentBeaconsFit`: the beacons sent are the application's or from the same
  place, as far as serving cell, fix and common beacons tell. `HitsCounted`: not more
  than the limit of hits in a row, whichever requests are ignored, abandoned or repeated.
  `SavesToEmptyFirst`: no location is overwritten while a line is empty. `TypeOK`
  includes that a line in use was saved while the clock was set.

Runs that find a violation, one disagreement each, are described in section 5.

## 4. What is proved

Eight modules hold proofs, and every property of a passing run has a theorem but
`LocateReturns`. The assumptions that a theorem names are: `SteadyClock` (the clock is never
lost), `SingleTransaction` and `OneRequest` (at most one request context), and
`OneSearch` (a request searches the cache once, as the API documents). `session_clash` and
`cache_stale` show what goes wrong without the second and the fourth. Nothing is assumed of
the limits that the application and the server ask for.

`SessionProofs`, about `Session`, for every value of the constants
that `PeriodAssumption`, `ClockAssumption` and `TokenAssumption` allow: any set of request contexts, SKUs,
credentials and tokens, any increasing periods, any bound on time.

- `TypeCorrect`: `Spec => []TypeOK`.
- `RegistrationLifts` (`RegisteredNotBlocked`) and `AnswersMatch`
  (`ResponsesMatchRequests`), with every fault, under `SingleTransaction`. Neither property is
  inductive: whether an answer leaves a token and a sanction together depends on the request's `auth_state` agreeing with
  the session's token while the request is on its way. The invariant `RegistrationInv` adds exactly this:
  `LiveOnlyOpen` (a request context in use belongs to an open session),
  `AuthCoherent` (its `auth_state` and kind are those of the session's SKU and token)
  and `Unsanctioned` (a token, in the buffer or in its saved copy, without a
  sanction). `SingleTransaction` is necessary: run `session_clash` shows that two
  request contexts break it.
- `AdmittedWhenOpen` (`NewRequestAdmitted`) and `SessionKeepsGate` (`ImplementsGate`),
  for any number of request contexts, under `SteadyClock`.
  The invariant `GateInv` adds `Timed`, which relates `header.time`, a reading of the
  clock, to the real time `heard` of the abstract gate, in the buffer and in its
  copy, and each request's time to the present: `sky_encode_request` compares the
  prohibition with the time the request was *made*, which errs on the safe side.
  `SteadyClock` is necessary: with the clock lost a request has time 0 and the
  prohibition does not end (section 5). `SessionKeepsGate` is the refinement in full:
  initial states map to initial
  states, and every step of `Next` to a step of `ServiceGate` or a stutter.
- `ConfigInDate` (`ConfigNeverStale`), under `SingleTransaction` or `SteadyClock`. The
  decision to ask is made when the request is sized and used when it is encoded; the
  invariant `ConfigInv` says that a sized request either asks or found the
  configuration fresh at the time of the request; a response that comes in between
  dates the configuration anew and can disturb this only if the clock was lost.

`ClientProofs`, about `Client`: `ClientRunsSession` (`ClientSpec => Spec`: the sample
uses the library only as `Session` allows, so every theorem above holds of it), and
under `SteadyClock` `ClientKeepsGate` (`ImplementsGate`), `RefusedTwice` (`FewRefusals`) and
`DeniedAfterDelay`. The last one shows that what `client_delay` finds is general: at every
rung, for any lengths of the periods, every delayed retry is denied. The invariant `ClientInv`
relates the place in `locate`, the rung of the session and the time of the request: a
request context that was refused is not younger than the response that refused it.

`BeaconListProofs`, about the abstract list, from `LimitAssumption`, for every pair of limits
the code accepts: its types hold (`ListTypeCorrect`); the sanity check stops a request two
APs or beacons above the room (`ListBounded`), that is, one beacon beyond the array; under
limits that fit each other a step stays within the room (`ListRoomKept`), so that in a
session whose limits always fit each other (`[]Fit`) the array is never overrun (`ListRoom`).
With `beacons_overrun`, which reaches the bound of `ListBounded`, this says exactly when one
spare element in `Sky_rctx_t.beacon` is enough.

`CommonProofs` holds what several components need: that a `CHOOSE` by the least or the
greatest number, or by any total and transitive relation, finds what is there; that
what holds before a loop and is kept by each iteration holds after it
(`NoLeastNoBad`, by the least counterexample, since induction over data is out of the
prover's reach); and what of the configuration `sky_set_option`, a response and
the defaults keep: its type and the range of the total.

`ApPluginProofs` says what the loops of the AP plugin choose, for lists of any length: an AP of
the list, of the virtual candidates the last one in the order of the code, and by
`set_priorities` the one of lowest priority. `SetPriorities` is a fold over the order
in which the APs are visited, from both ends to the middle. The fold is shown to exist
(`FoldExists`), to visit every AP once (`EachVisited`) and to end with the lowest priority
(`PriorityChosen`); its start value has to be above every priority (`PriorityBound`).

`BeaconsProofs`, about `Beacons`, for every set of scans and every configuration:

- `ListOrdered` (`Ordered`), `BeaconsDistinct` (`NoDuplicates`) and `NewestKept`
  (`KeepsNewest`). All three follow from one invariant, `BeaconsInv`: the list is made of
  beacons with their fields, sorted by a relation that is shown transitive and total, no
  two of them equal, and `num_ap` counts its APs. `NoDuplicates` needs the order of
  arguments: equality of beacons is shown an equivalence, so that removing the first
  duplicate removes the only one.
- `LowestPriorityEvicted` (`EvictsLowestPriority`) and `VirtualGroupKept`
  (`VirtualGroupsCovered`), from the same invariant and the lemmas of `ApPluginProofs`, with
  no assumption on the limits: what is given up is the right AP, whatever limit
  made the list too long.
- `ListImplemented` (`ImplementsList`), `RoomHeld` (`RoomKept`) and `TypeCorrect`
  (`TypeOK`), for every configuration the code accepts. The refinement shows step by step
  that an addition adds one beacon, replaces one or trades one for another, of a kind that
  `BeaconList` allows. The limits in force are not an invariant of the list, since a limit
  that is lowered later does not trim it. The invariants are `ConfigInv` (the configuration
  has its type and a total of 1 to `TOTAL_BEACONS`: all that the ranges of options and overrides
  guarantee) and `RoomInv` (the bound of the sanity check). `RoomHeld` is an action property,
  because the limits that a step meets need not be those the list grew under.

`WireProofs`, about `Wire`, from `WireAssumption`, `BeaconsInv` and `ConfigInv`:

- `PositionRead` (`ServerReadsPosition`), for any two calls of `sky_add_gnss`.
- `BeaconsRead` (`ServerReadsBeacons`), for every list. It rests on the order of the list:
  the APs are its first `num_ap` beacons and the rest are cells (`ListSplit`), or the
  getters would read the wrong element. It also rests on the ranges of `validate_beacon`: no
  valid id is the one value that is sent as 0 (`IdRead`).
- `UsedReachesAp` (`UsedReachesRightAp`). Client and server number different sets of children
  in the same rounds; the argument is that the number of a child depends only on those
  before it (`SamePlace`), that the first *n* places of a set are taken by *n*
  children (`FirstPlaces`), and that what was not sent has a place after all that was
  (`NotSentNotUsed`). The lemma `UsedMeant` is for every set of used APs and any sufficient
  number of bytes, of which the property tries some.
- `VapsLimited` (`VapsWithinLimit`): the children that are sent are counted by a bijection
  with their places, the groups by one with the first round.

`CacheProofs`, about `Cache`: `CacheTypeCorrect` (`TypeOK`) for any number of request
contexts; `CountsHits` (`HitsCounted`) under `OneRequest`; `SendsFittingScan`
(`SentBeaconsFit`) and `SavesWhereEmpty` (`SavesToEmptyFirst`) under `OneRequest` and
`OneSearch`. The invariant `Searching` carries what the search established (the line
it found is in use and comparable, the place to save to was chosen among the empty
lines) through every call that may come between it and the use of its result.
`FindsBestMatch` (`SearchFindsBestMatch`) needs `OneSearch` only, for any number of request
contexts: match ratios are fractions with positive denominators, because a line shares no
more APs with a scan than the scan has, so that their comparison by cross multiplication
is transitive and the greatest exists. The invariant `Fresh` says that a request that was
not searched for has no hit; that a second search keeps the hit of the first
(`cache_stale`) is why `OneSearch` is needed.

Only model-checked: `LocateReturns`, since liveness under fairness, and `ENABLED`, are out of
the prover's reach. The properties of the runs that expect a violation are false and have
no theorem. `MacToInt` is the same fold on both sides of `ServerReadsBeacons`; that two MACs
have different numbers is not stated, being an induction over data.

## 5. Where the code and its documentation disagree

Each has a run that finds it and an entry under `findings`.

1. `session_clash`: `README.md:232` calls the address of a work space the identifier of
   a transaction. Two work spaces of one session: the first one's registration turns
   the second one's request, made as a registration, into a location request
   (`proto.c:446`), whose successful answer is taken for a registration's
   (`proto.c:698`) and reported as an authentication error.
2. `session_server_error`: `README.md:1191` reserves `SKY_AUTH_RETRY_8HR` for failed
   authentication. Any failure of a registration counts, so two server errors in a row
   block the device for eight hours.
3. `beacons_vap`: of several virtual APs the comment promises to remove the worse, the
   condition (`ap_plugin_basic.c:338`) takes the better one.
4. `beacons_overrun`: `beacon` of `Sky_rctx_t` has `TOTAL_BEACONS` + 1 elements
   (`beacons.h:282`) and `validate_request_ctx` calls more "Too many beacons"
   (`utilities.c:240`). With the sizes as shipped, 28 beacons and 20 APs, `sky_set_option` takes a
   `total_beacons` from 6 (`libel.c:1260`) and a response any above 1 (`proto.c:773`). Below
   `max_ap_beacons` the unsigned difference at `beacons.c:277` wraps, cells are
   not limited, and `insert_beacon` writes one beacon beyond the array.
5. `client_delay`: `libel.h:125` says of `SKY_AUTH_RETRY_8H` "Retry operation in 8hr to query
   authentication", and the sample client sleeps 8, 16 or 24 hours and goes to
   `retry_after_auth` (`sample_client.c:551-559`). `sky_encode_request` (`libel.c:1045`)
   compares the time of the *request* with that of the answer, so the retry is denied
   however long the client slept; it has to start a new request.
6. `cache_stale`: a second search that finds nothing leaves `hit` of the first and
   index 0 in `get_from` (`ap_plugin_basic.c:558`).
7. `beacons_pci`: the physical id of a 5G cell is documented as 0-1007
   (`libel.c:708`, `README.md:913`), and `validate_beacon` (`utilities.c:205`) rejects
   what is above 107. The ids of all other calls are accepted as documented or wider.

Disagreements with a document that have no run of their own:

- `libel.c:365` and `README.md:508` give `(time_t)-1` for the time of a scan that is unknown.
  The code compares with `TIME_UNAVAILABLE`, which is 0 (`libel.h:43`), so a scan with -1 is
  rejected as too old (`beacons.c:253`), and `sky_add_gnss` fails in the same way. The scan
  times of `beacons_filter` include it.
- `libel.c:753`, `README.md:917` and `README.md:954` give -156 to -44 as the range of the strength of
  an NR cell, `libel.c:712` -140 to -40; `validate_beacon` takes the latter
  (`utilities.c:191`) and makes the rest unknown.
- `README.md:1218` calls `CONF_TOTAL_BEACONS` the greatest number of beacons in a request; a
  request that holds more when the option is lowered keeps them.
- `ap_plugin_basic.c:689`: "if the weakest AP is below threshold, find the worst weak AP".
  The condition at line 710 takes the last weak AP visited, whatever its priority.
- `libel.c:780` calls the time given to `sky_add_gnss` that of the scan. A call without a
  position, or with one out of range, changes the age of the position held (`libel.c:807`),
  which is then sent with an age that is not its own.

Seen while modelling, without a document that says otherwise: with the clock lost,
`sky_new_request` computes with time 0 and a prohibition does not end until the clock is
set (`libel.c:318`); an AP of unknown
strength (-1) replaces its duplicate of known strength as the stronger one
(`beacons.c:158`); a response that cannot be decoded restarts a prohibition
(`libel.c:1119`); setting the clock after a refusal shortens it, since the recorded time
was the cold clock's; a session is continued for a SKU that is a prefix of its own
(`libel.c:110`); an invalid session is reset without a word (`libel.c:101`); a negative value passes the
upper limit of most options and is stored unsigned (`libel.c:1267`); the SID of a CDMA cell is cut to 16 bits before it is
validated (`libel.c:627`); and a height that is not a number is converted to an
integer, which C leaves undefined (`proto.c:752`).

## 6. Bounds and fairness

Every bound is a constant of a module or a set in an MC module.

| Bound | Why it is enough |
|---|---|
| `Hours8`, `Hours16`, `Hours24` = 1, 2, 3 | only their order matters; the proofs hold for all |
| `MaxNow` = 3 (`concurrent`): the longest period ends; = 1 (`faults`): an interval passes; = 3 (`cache_search`): a line expires twice over; = 4 (`client_locate`, `client_delay`): one period more than the longest | saturates the guards on time |
| two request contexts | every pair of calls of two transactions interleaves; proofs of the gate hold for any number |
| one token, one key, partner ids 0 and 1, an SKU and none | tokens are compared with "unknown" only; changed credentials take the branch a changed SKU takes, and the proofs hold for any |
| `ConfigInterval` = 1 (`concurrent`), 0 (`faults`) | with `MaxNow` 3 and 1, configuration is both in date and out of date |
| `Epoch` = 100 or 10, `ColdClock` 0 or 5 | only the order relative to readings matters; 0 is special in the code |
| `MaxRefused` = 3 | one more than `FewRefusals` allows |
| `TOTAL_BEACONS` = 4, `MAX_AP_BEACONS` = 3 (5 and 4 in `beacons_vap`) | a full list of APs with a virtual pair, and one of cells with a replacement |
| `MinTotal` = 2 (6 in the code; 3 in the Cache runs, where no list is trimmed), `UintMod` = 65536 (2^32) | the least total is below `MAX_AP_BEACONS`, as 6 is below 20, so that the cell limit wraps; the wrapped limit is out of reach of any list in both |
| options 1, 4, 5 for the total and 2, 3, 4 for the APs, overrides (1, 2) and (2, 3) | accepted and refused values, totals above and below the limit for APs; negative values, which a cfg cannot hold, are in the proofs |
| `MAX_VAP_PER_AP` = 2, `MAX_VAP_PER_RQ` = 3, three APs with 2, 2 and 1 children | more children than may be sent, and groups that run out in different rounds |
| `CharBit` = 4 (8) | the bits of a request fill one byte and part of the next |
| `MaxNci` = 2^28 (2^36 - 1) | integers in TLC have 32 bits; the id is only compared with its limit |
| MACs of two or three nibbles (twelve) | nibbles are compared by position; one or two positions that differ are all `mac_similar` tells apart |
| `CacheSize` = 2, `MaxHits` = 2 (127), `MaxSearches` = 1 (2 in `cache_stale`) | lines that compete, that expire or are empty; the count saturates after two hits |

Two restrictions of `Cache` are not bounds of size. `cache_search` has one request context: with two, a
line one of them has found may be replaced before its beacons are substituted, and both
count into the same `cache_hits`, which
the code does not guard against. In `Cache`, similarity of MACs is an
equivalence (`Group`), while `mac_similar` need not be transitive.

The library itself never has to take a step, as every step of it is a call: `Session`,
`Beacons` and `Cache` assume no fairness. `ClientSpec` assumes weak fairness of `Locate`,
the steps inside one call of `locate`: the client is one thread, no call of the library blocks, and
`send_request` waits for the server 10 seconds at most (`send.c:80-82`), so the next step
is taken unless the process crashes. Nothing is assumed of the server, the environment,
or of whether `locate` is called at all. The deadlock check is on
in every run: the application may always call something.

## 7. What is not modelled

- The protobuf bytes, AES and the sizes of buffers: data formats. Which fields a message
  has, what is in them, and what a response changes, is modelled.
- The premium plugins, which decide which virtual APs an AP has (a constant, `Children`),
  and `ap_beacon_in_vg`, which only they call. The cache hit path does not select virtual
  APs again after `max_vap_per_rq` was lowered.
- What a write beyond the array of beacons destroys (the fix, the result of the search, the
  pointer to the session): `beacons_overrun` shows that it happens, and the model continues
  with the longer list.
- Logging, string helpers, version and device id getters, CRC, the unit tests, vendored code.
- Failure to register plugins, device id and country code in `sky_open`. The table of
  plugins does not change afterwards.
- The logging level, which `sky_set_option` sets too; the sample's configuration file and
  the scans it adds; the location in a response other than the scan it belongs to.
- Overflow of an age in 32 bits (`ap_plugin_basic.c:475`): options of more than a million
  hours.
- Two request contexts in `Cache`: modelled (`Rctx` is a set), not checked; the properties
  do not hold there, as section 6 says, and no document promises them.
