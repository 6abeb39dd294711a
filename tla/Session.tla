------------------------------ MODULE Session ------------------------------
(***************************************************************************)
(* The session context of LibEL: the life cycle of the buffer (sky_open,   *)
(* sky_close, saving and restoring it), Token Based Registration, the      *)
(* prohibition periods that follow authentication failures, and the time   *)
(* at which dynamic configuration was last received.                       *)
(*                                                                         *)
(* Each action is one API call on this part of the state: sctx holds the   *)
(* fields of Sky_sctx_t that these calls read or write, rctx those of      *)
(* Sky_rctx_t.  The beacons of a request are in Beacons, cachelines in     *)
(* Cache, and the configuration each of them uses with it.                 *)
(*                                                                         *)
(* now is real time; timefn() returns Clock, which follows now only while  *)
(* the device's clock is set.  One unit is the granularity of the three    *)
(* prohibition periods.                                                    *)
(***************************************************************************)
EXTENDS Integers, SequencesExt

CONSTANTS
    Rctx,             \* work spaces the application runs transactions in
    Sku,              \* product families it may open with; <<>> is none
    Partner, Key,     \* credentials it may open with
    Token,            \* token ids the server may grant
    Hours8, Hours16, Hours24,   \* the prohibition periods
    ConfigInterval,   \* CONFIG_REQUEST_INTERVAL
    Epoch,            \* TIMESTAMP_2019_03_01
    ColdClock,        \* what timefn() returns while the clock is not set
    Faults,           \* environment faults: "restart", "corrupt", "clock"
    MaxNow            \* bound on real time

ASSUME PeriodAssumption ==
    /\ Hours8 \in Nat \ {0} /\ Hours16 \in Nat /\ Hours24 \in Nat
    /\ Hours8 < Hours16 /\ Hours16 < Hours24
ASSUME ClockAssumption ==
    /\ Epoch \in Nat \ {0} /\ ColdClock \in Nat /\ ColdClock < Epoch
    /\ ConfigInterval \in Nat
    /\ MaxNow \in Nat
ASSUME TokenAssumption == Token \subseteq Nat \ {0}

VARIABLES
    now,        \* real time
    clockSet,   \* the device's clock shows real time
    sctx,       \* the session context the application passes to the library
    saved,      \* the copy of it in non-volatile storage
    rctx,       \* the request contexts
    ret         \* what the last API call returned

vars == <<now, clockSet, sctx, saved, rctx, ret>>

Clock == IF clockSet THEN Epoch + now ELSE ColdClock

TBR_TOKEN_UNKNOWN == 0
TIME_UNAVAILABLE == 0
CONFIG_UPDATE_DUE == 0

\* Codes that are kept in sctx->backoff, in the order they are entered.
BackoffCode == {"SKY_ERROR_NONE", "SKY_AUTH_RETRY", "SKY_AUTH_RETRY_8H",
                "SKY_AUTH_RETRY_16H", "SKY_AUTH_RETRY_1D"}

\* sctx is zero-filled: the state sky_open treats as a new buffer.  heard is
\* a history field: the real time at which the code last set header.time.
EmptySession ==
    [magic |-> "empty", open |-> FALSE, sku |-> <<>>, partner |-> 0,
     key |-> "zero", token |-> TBR_TOKEN_UNKNOWN, backoff |-> "SKY_ERROR_NONE",
     time |-> TIME_UNAVAILABLE, last_config_time |-> CONFIG_UPDATE_DUE,
     heard |-> 0]

CorruptSession == [EmptySession EXCEPT !.magic = "corrupt"]

IdleRequest == [phase |-> "idle", time |-> 0, auth |-> "DISABLED", kind |-> "none"]

Returned(fn, err, status) == [fn |-> fn, err |-> err, status |-> status]

Init ==
    /\ now = 0
    /\ clockSet \in IF "clock" \in Faults THEN BOOLEAN ELSE {TRUE}
    /\ sctx = EmptySession
    /\ saved = EmptySession
    /\ rctx = [r \in Rctx |-> IdleRequest]
    /\ ret = Returned("none", "SKY_ERROR_NONE", "none")

----------------------------------------------------------------------------
\* Opening, closing, saving and restoring the session.

\* The buffer holds a valid session that the new credentials may continue.
\* memcmp looks at the length of the new sku only, and partner_id 0 skips
\* the comparison.
Restorable(sku, partner, key) ==
    /\ sctx.magic = "valid"
    /\ \/ partner = 0
       \/ /\ IsPrefix(sku, sctx.sku)
          /\ partner = sctx.partner
          /\ key = sctx.key

\* The session sky_open goes on with: the restored one or a fresh one.
OpenBase(sku, partner, key) ==
    IF Restorable(sku, partner, key)
    THEN sctx
    ELSE [EmptySession EXCEPT !.magic = "valid", !.time = Clock, !.heard = now]

SkyOpenRefused ==
    /\ sctx.magic = "valid" /\ sctx.open
    /\ ret' = Returned("open", "SKY_ERROR_ALREADY_OPEN", "none")
    /\ UNCHANGED <<now, clockSet, sctx, saved, rctx>>

\* A NULL gettime is noticed after a session that cannot be continued has
\* lost its magic; a NULL device id only after the buffer was initialised.
SkyOpenBadParameters(sku, partner, key) ==
    /\ ~(sctx.magic = "valid" /\ sctx.open)
    /\ \/ sctx' = IF Restorable(sku, partner, key)
                  THEN sctx ELSE [sctx EXCEPT !.magic = "empty"]
       \/ sctx' = OpenBase(sku, partner, key)
    /\ ret' = Returned("open", "SKY_ERROR_BAD_PARAMETERS", "none")
    /\ UNCHANGED <<now, clockSet, saved, rctx>>

SkyOpenAccepted(sku, partner, key) ==
    /\ ~(sctx.magic = "valid" /\ sctx.open)
    /\ sctx' = [OpenBase(sku, partner, key) EXCEPT
                  !.open = TRUE,
                  !.sku = IF sku # <<>> THEN sku ELSE @,
                  !.partner = partner,
                  !.key = key]
    /\ ret' = Returned("open", "SKY_ERROR_NONE", "none")
    /\ UNCHANGED <<now, clockSet, saved, rctx>>

SkyOpen ==
    \/ SkyOpenRefused
    \/ \E sku \in Sku, partner \in Partner, key \in Key :
          \/ SkyOpenBadParameters(sku, partner, key)
          \/ SkyOpenAccepted(sku, partner, key)

\* The application abandons its transactions when it closes the library.
SkyClose ==
    /\ IF sctx.open
       THEN /\ sctx' = [sctx EXCEPT !.open = FALSE]
            /\ rctx' = [r \in Rctx |-> IdleRequest]
            /\ ret' = Returned("close", "SKY_ERROR_NONE", "none")
       ELSE /\ ret' = Returned("close", "SKY_ERROR_NEVER_OPEN", "none")
            /\ UNCHANGED <<sctx, rctx>>
    /\ UNCHANGED <<now, clockSet, saved>>

\* save_session_context() runs once the library is closed, and saves
\* nothing when sky_sizeof_session_ctx() finds no valid header.
SaveSession ==
    /\ ~sctx.open
    /\ sctx.magic = "valid"
    /\ saved' = sctx
    /\ UNCHANGED <<now, clockSet, sctx, rctx, ret>>

\* The process ends, in good order or in a crash, and a new one passes the
\* saved session, an empty buffer or (uninitialised memory) an invalid one.
Restart ==
    /\ "restart" \in Faults
    /\ \/ sctx' \in {saved, EmptySession}
       \/ "corrupt" \in Faults /\ sctx' = CorruptSession
    /\ rctx' = [r \in Rctx |-> IdleRequest]
    /\ ret' = Returned("none", "SKY_ERROR_NONE", "none")
    /\ UNCHANGED <<now, clockSet, saved>>

----------------------------------------------------------------------------
\* One location transaction.

\* Mutant: the last instant of a period is still prohibited.
BackoffViolationInclusive(t) ==
    LET duration == t - sctx.time IN
    \/ sctx.backoff = "SKY_AUTH_RETRY_8H" /\ duration <= Hours8
    \/ sctx.backoff = "SKY_AUTH_RETRY_16H" /\ duration <= Hours16
    \/ sctx.backoff = "SKY_AUTH_RETRY_1D" /\ duration <= Hours24

BackoffViolation(t) ==
    LET duration == t - sctx.time IN
    \/ sctx.backoff = "SKY_AUTH_RETRY_8H" /\ duration < Hours8
    \/ sctx.backoff = "SKY_AUTH_RETRY_16H" /\ duration < Hours16
    \/ sctx.backoff = "SKY_AUTH_RETRY_1D" /\ duration < Hours24

IsTbrEnabled == sctx.sku # <<>>

AuthState ==
    IF ~IsTbrEnabled THEN "DISABLED"
    ELSE IF sctx.token = TBR_TOKEN_UNKNOWN THEN "UNREGISTERED"
    ELSE "REGISTERED"

\* A request context is initialised before the prohibition period is
\* looked at; an application that is refused (NULL) does not use it.
SkyNewRequest(r) ==
    LET t == IF Clock < Epoch THEN TIME_UNAVAILABLE ELSE Clock
        fresh == [phase |-> "built", time |-> Clock, auth |-> AuthState,
                  kind |-> "none"]
    IN
    /\ \/ /\ ~sctx.open
          /\ ret' = Returned("new", "SKY_ERROR_NEVER_OPEN", "none")
          /\ UNCHANGED rctx
       \/ /\ sctx.open /\ BackoffViolation(t)
          /\ rctx' = [rctx EXCEPT ![r] = [fresh EXCEPT !.phase = "idle"]]
          /\ ret' = Returned("new", "SKY_ERROR_SERVICE_DENIED", "none")
       \/ /\ sctx.open /\ ~BackoffViolation(t)
          /\ rctx' = [rctx EXCEPT ![r] = fresh]
          /\ ret' = Returned("new", "SKY_ERROR_NONE", "none")
    /\ UNCHANGED <<now, clockSet, sctx, saved>>

\* Decides whether the request will ask for new configuration, and notes it
\* in the session, where serialize_request finds it.
SkySizeofRequestBuf(r) ==
    LET due == \/ sctx.last_config_time = CONFIG_UPDATE_DUE
               \/ rctx[r].time = TIME_UNAVAILABLE
               \/ rctx[r].time - sctx.last_config_time > ConfigInterval
    IN
    /\ rctx[r].phase = "built"
    /\ sctx' = [sctx EXCEPT !.last_config_time = IF due THEN CONFIG_UPDATE_DUE ELSE @]
    /\ rctx' = [rctx EXCEPT ![r].phase = "sized"]
    /\ ret' = Returned("sizeof", "SKY_ERROR_NONE", "none")
    /\ UNCHANGED <<now, clockSet, saved>>

\* What serialize_request builds.
RequestKind ==
    IF ~IsTbrEnabled THEN "legacy"
    ELSE IF sctx.token = TBR_TOKEN_UNKNOWN THEN "registration"
    ELSE "tbr"

\* Mutant: the prohibition is left to sky_new_request.
SkyEncodeRequestUngated(r) ==
    /\ rctx[r].phase = "sized"
    /\ rctx' = [rctx EXCEPT ![r].phase = "sent", ![r].kind = RequestKind]
    /\ ret' = Returned("encode", "SKY_ERROR_NONE", "none")
    /\ UNCHANGED <<now, clockSet, sctx, saved>>

SkyEncodeRequest(r) ==
    /\ rctx[r].phase = "sized"
    /\ \/ /\ BackoffViolation(rctx[r].time)
          /\ ret' = Returned("encode", "SKY_ERROR_SERVICE_DENIED", "none")
          /\ UNCHANGED rctx
       \/ /\ ~BackoffViolation(rctx[r].time)
          /\ \E err \in {"SKY_ERROR_NO_BEACONS", "SKY_ERROR_BAD_PARAMETERS",
                         "SKY_ERROR_ENCODE_ERROR"} :
                ret' = Returned("encode", err, "none")
          /\ UNCHANGED rctx
       \/ /\ ~BackoffViolation(rctx[r].time)
          /\ rctx' = [rctx EXCEPT ![r].phase = "sent", ![r].kind = RequestKind]
          /\ ret' = Returned("encode", "SKY_ERROR_NONE", "none")
    /\ UNCHANGED <<now, clockSet, sctx, saved>>

\* The request or its response is lost; the application still holds the
\* request context and may encode again.
NoResponse(r) ==
    /\ rctx[r].phase = "sent"
    /\ rctx' = [rctx EXCEPT ![r].phase = "built", ![r].kind = "none"]
    /\ UNCHANGED <<now, clockSet, sctx, saved, ret>>

----------------------------------------------------------------------------
\* Responses.

Status == {"SUCCESS", "AUTH_ERROR", "BAD_PARTNER_ID_ERROR", "DECODE_ERROR",
           "UNABLE_TO_LOCATE", "SERVER_ERROR"}

\* What the server may answer: any status, with or without an encrypted
\* body, and a token only in the body of an answer to a registration.
ServerResponse(kind) ==
    {rsp \in [status : Status, body : BOOLEAN, token : Token \cup {TBR_TOKEN_UNKNOWN}] :
        rsp.token # TBR_TOKEN_UNKNOWN => rsp.body /\ kind = "registration"}

\* Mutant: a registration answer keeps the status the server gave.
DeserializedAsLocation(q, rsp) ==
    IF q.auth = "REGISTERED" /\ rsp.status = "AUTH_ERROR"
    THEN [auth |-> "UNREGISTERED", token |-> TBR_TOKEN_UNKNOWN, status |-> "AUTH_ERROR"]
    ELSE [auth   |-> IF rsp.token = TBR_TOKEN_UNKNOWN THEN q.auth ELSE "REGISTERED",
          token  |-> IF rsp.token = TBR_TOKEN_UNKNOWN THEN sctx.token ELSE rsp.token,
          status |-> rsp.status]

\* Mutant: a refused location request leaves the token in the session.
DeserializedKeepsToken(q, rsp) ==
    [auth   |-> IF rsp.token # TBR_TOKEN_UNKNOWN THEN "REGISTERED"
                ELSE IF rsp.status = "AUTH_ERROR" THEN "UNREGISTERED" ELSE q.auth,
     token  |-> IF rsp.token = TBR_TOKEN_UNKNOWN THEN sctx.token ELSE rsp.token,
     status |-> IF q.auth = "UNREGISTERED" THEN "AUTH_ERROR" ELSE rsp.status]

\* deserialize_response: the new auth_state of the request context, the
\* session's token and the status the caller sees.
Deserialized(q, rsp) ==
    IF q.auth = "UNREGISTERED"
    THEN [auth   |-> IF rsp.token = TBR_TOKEN_UNKNOWN THEN "UNREGISTERED" ELSE "REGISTERED",
          token  |-> IF rsp.token = TBR_TOKEN_UNKNOWN THEN sctx.token ELSE rsp.token,
          status |-> "AUTH_ERROR"]
    ELSE IF q.auth = "REGISTERED" /\ rsp.status = "AUTH_ERROR"
    THEN [auth |-> "UNREGISTERED", token |-> TBR_TOKEN_UNKNOWN, status |-> "AUTH_ERROR"]
    ELSE [auth   |-> q.auth,
          token  |-> sctx.token,
          status |-> IF rsp.status = "AUTH_ERROR" THEN "BAD_PARTNER_ID_ERROR" ELSE rsp.status]

\* Mutant: only a device that is delayed already climbs.
NextBackoffPatient(backoff) ==
    CASE backoff \in {"SKY_ERROR_NONE", "SKY_AUTH_RETRY"} -> "SKY_AUTH_RETRY"
      [] backoff = "SKY_AUTH_RETRY_8H" -> "SKY_AUTH_RETRY_16H"
      [] OTHER -> "SKY_AUTH_RETRY_1D"

NextBackoff(backoff) ==
    CASE backoff = "SKY_ERROR_NONE" -> "SKY_AUTH_RETRY"
      [] backoff = "SKY_AUTH_RETRY" -> "SKY_AUTH_RETRY_8H"
      [] backoff = "SKY_AUTH_RETRY_8H" -> "SKY_AUTH_RETRY_16H"
      [] OTHER -> "SKY_AUTH_RETRY_1D"

\* Mutant: the error of every failed response is kept as the backoff code.
OutcomeKeptAsBackoff(d) ==
    LET err == CASE d.status = "SUCCESS" -> "SKY_ERROR_NONE"
                 [] d.status = "AUTH_ERROR" -> NextBackoff(sctx.backoff)
                 [] OTHER -> "SKY_ERROR_AUTH"
    IN [backoff |-> err, err |-> err]

\* The prohibition state and the error code sky_decode_response ends with.
Outcome(d) ==
    CASE d.status = "SUCCESS" ->
            [backoff |-> "SKY_ERROR_NONE", err |-> "SKY_ERROR_NONE"]
      [] d.status = "AUTH_ERROR" /\ d.auth = "DISABLED" ->
            [backoff |-> sctx.backoff, err |-> "SKY_ERROR_AUTH"]
      [] d.status = "AUTH_ERROR" /\ d.auth = "REGISTERED" ->
            [backoff |-> "SKY_ERROR_NONE", err |-> "SKY_AUTH_RETRY"]
      [] d.status = "AUTH_ERROR" /\ d.auth = "UNREGISTERED" ->
            [backoff |-> NextBackoff(sctx.backoff), err |-> NextBackoff(sctx.backoff)]
      [] d.status \in {"BAD_PARTNER_ID_ERROR", "DECODE_ERROR"} ->
            [backoff |-> sctx.backoff, err |-> "SKY_ERROR_AUTH"]
      [] d.status = "UNABLE_TO_LOCATE" ->
            [backoff |-> sctx.backoff, err |-> "SKY_ERROR_LOCATION_UNKNOWN"]
      [] OTHER ->
            [backoff |-> sctx.backoff, err |-> "SKY_ERROR_SERVER_ERROR"]

\* Any response, even an undecodable one, is timed in the session first.
SkyDecodeGarbage(r) ==
    /\ rctx[r].phase = "sent"
    /\ sctx' = [sctx EXCEPT !.time = Clock, !.heard = now]
    /\ rctx' = [rctx EXCEPT ![r].phase = "built", ![r].kind = "none"]
    /\ ret' = Returned("decode", "SKY_ERROR_DECODE_ERROR", "garbage")
    /\ UNCHANGED <<now, clockSet, saved>>

\* Mutant: the configuration is dated before the session is.
ConfigTimeOfLastResponse(rsp) ==
    IF rsp.body /\ sctx.last_config_time = CONFIG_UPDATE_DUE
    THEN sctx.time ELSE sctx.last_config_time

\* The body of a response, to whichever request, brings configuration if that is
\* due: it is dated with the time of the response, which the session has by now.
ConfigTime(rsp) ==
    IF rsp.body /\ sctx.last_config_time = CONFIG_UPDATE_DUE
    THEN Clock ELSE sctx.last_config_time

SkyDecodeResponse(r) ==
    /\ rctx[r].phase = "sent"
    /\ \E rsp \in ServerResponse(rctx[r].kind) :
          LET d == Deserialized(rctx[r], rsp) IN
          /\ sctx' = [sctx EXCEPT
                        !.time = Clock,
                        !.heard = now,
                        !.last_config_time = ConfigTime(rsp),
                        !.token = d.token,
                        !.backoff = Outcome(d).backoff]
          /\ rctx' = [rctx EXCEPT
                        ![r].phase = IF d.status = "SUCCESS" THEN "idle" ELSE "built",
                        ![r].kind = "none",
                        ![r].auth = d.auth]
          /\ ret' = Returned("decode", Outcome(d).err, rsp.status)
    /\ UNCHANGED <<now, clockSet, saved>>

----------------------------------------------------------------------------
\* The environment's clock.

Tick ==
    /\ now < MaxNow
    /\ now' = now + 1
    /\ UNCHANGED <<clockSet, sctx, saved, rctx, ret>>

ClockChange ==
    /\ "clock" \in Faults
    /\ clockSet' = ~clockSet
    /\ UNCHANGED <<now, sctx, saved, rctx, ret>>

Request(r) ==
    \/ SkyNewRequest(r)
    \/ SkySizeofRequestBuf(r)
    \/ SkyEncodeRequest(r)
    \/ NoResponse(r)
    \/ SkyDecodeGarbage(r)
    \/ SkyDecodeResponse(r)

Next ==
    \/ Tick
    \/ ClockChange
    \/ SkyOpen
    \/ SkyClose
    \/ SaveSession
    \/ Restart
    \/ \E r \in Rctx : Request(r)

Spec == Init /\ [][Next]_vars

----------------------------------------------------------------------------
\* Properties.

Errno == BackoffCode \cup
    {"SKY_ERROR_NEVER_OPEN", "SKY_ERROR_ALREADY_OPEN", "SKY_ERROR_BAD_PARAMETERS",
     "SKY_ERROR_SERVICE_DENIED", "SKY_ERROR_NO_BEACONS", "SKY_ERROR_ENCODE_ERROR",
     "SKY_ERROR_DECODE_ERROR", "SKY_ERROR_AUTH", "SKY_ERROR_LOCATION_UNKNOWN",
     "SKY_ERROR_SERVER_ERROR"}

TbrState == {"DISABLED", "UNREGISTERED", "REGISTERED"}

SessionRecord ==
    [magic : {"empty", "valid", "corrupt"}, open : BOOLEAN, sku : Sku \cup {<<>>},
     partner : Partner \cup {0}, key : Key \cup {"zero"},
     token : Token \cup {TBR_TOKEN_UNKNOWN}, backoff : BackoffCode,
     time : Nat, last_config_time : Nat, heard : Nat]

RequestRecord ==
    [phase : {"idle", "built", "sized", "sent"}, time : Nat, auth : TbrState,
     kind : {"none", "legacy", "registration", "tbr"}]

\* Every field of the session and request contexts has the values its C type
\* is used for.
TypeOK ==
    /\ now \in Nat
    /\ clockSet \in BOOLEAN
    /\ sctx \in SessionRecord
    /\ saved \in SessionRecord
    /\ rctx \in [Rctx -> RequestRecord]
    /\ ret \in [fn : {"none", "open", "close", "new", "sizeof", "encode", "decode"},
                err : Errno, status : Status \cup {"none", "garbage"}]

Rung(code) ==
    CASE code = "SKY_ERROR_NONE" -> 0
      [] code = "SKY_AUTH_RETRY" -> 1
      [] code = "SKY_AUTH_RETRY_8H" -> 2
      [] code = "SKY_AUTH_RETRY_16H" -> 3
      [] OTHER -> 4

Period == [l \in 0..4 |->
    IF l = 2 THEN Hours8 ELSE IF l = 3 THEN Hours16 ELSE IF l = 4 THEN Hours24 ELSE 0]

\* Real time at which the prohibition the session is under ends, 0 if none.
ProhibitedUntil ==
    LET p == Period[Rung(sctx.backoff)] IN IF p = 0 THEN 0 ELSE sctx.heard + p

Gate == INSTANCE ServiceGate WITH
    Client <- Rctx,
    Delay <- Period,
    time <- now,
    level <- Rung(sctx.backoff),
    until <- ProhibitedUntil,
    outstanding <- {r \in Rctx : rctx[r].phase = "sent"}

\* The session keeps the promise of ServiceGate: no request is encoded by any
\* request context while a prohibition period runs (backoff_violation called
\* by sky_new_request and sky_encode_request), and refusals climb the ladder
\* of sky_decode_response one rung at a time.
ImplementsGate == Gate!Spec

\* A device that holds a token is under no sanction: a registration that
\* succeeds lifts whatever earlier refusals left behind, and a refusal takes
\* the token away before it starts the ladder.
RegisteredNotBlocked ==
    sctx.magic = "valid" /\ sctx.token # TBR_TOKEN_UNKNOWN
        => sctx.backoff = "SKY_ERROR_NONE"

\* sky_decode_response reports a location if and only if the server located
\* a location request: the answer to a registration is never taken for a
\* location, nor the answer to a location request for a registration.
ResponsesMatchRequests ==
    [][\A r \in Rctx :
         SkyDecodeResponse(r)
           => (ret'.err = "SKY_ERROR_NONE" <=>
                 rctx[r].kind # "registration" /\ ret'.status = "SUCCESS")]_vars

\* sky_new_request turns a device away only while a prohibition runs.
NewRequestAdmitted ==
    [][\A r \in Rctx :
         SkyNewRequest(r) /\ ret'.err = "SKY_ERROR_SERVICE_DENIED"
           => now < ProhibitedUntil]_vars

\* A request that does not ask for new configuration leaves only while the
\* configuration is at most ConfigInterval older than the request, although it
\* was sized before another request of the session was, or before the answer
\* to another one dated the configuration anew.
ConfigNeverStale ==
    [][\A r \in Rctx :
         rctx[r].phase = "sized" /\ rctx'[r].phase = "sent"
           /\ sctx.last_config_time # CONFIG_UPDATE_DUE
           => rctx[r].time - sctx.last_config_time <= ConfigInterval]_vars

----------------------------------------------------------------------------
\* What the documentation says, and the code does not do.

\* "Server indicated that authentication failed. Service is blocked for 8
\* hours": a delay is reported only after the server refused authentication.
BlockedOnlyByAuthFailure ==
    [][ret'.err \in {"SKY_AUTH_RETRY_8H", "SKY_AUTH_RETRY_16H", "SKY_AUTH_RETRY_1D"}
         => ret'.status = "AUTH_ERROR"]_ret

=============================================================================
