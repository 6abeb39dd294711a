------------------------------- MODULE Client -------------------------------
(***************************************************************************)
(* The sample client (sample_client.c, send.c): a process that restores    *)
(* the session, opens it, locates itself a number of times, closes the     *)
(* session and saves it.  It may crash at any point and start again.       *)
(*                                                                         *)
(* Each step is one API call, an action of Session, and what the client    *)
(* makes of its result.  The beacons it adds are in Beacons and Cache.     *)
(***************************************************************************)
EXTENDS Session

CONSTANT MaxRefused    \* bound on the count of refusals

ASSUME ClientAssumption ==
    /\ \E r \in Rctx : Rctx = {r}
    /\ "restart" \in Faults
    /\ MaxRefused \in Nat /\ MaxRefused > 2

VARIABLES
    pc,        \* what the client does next
    told,      \* the error of the last response in this call of locate()
    refused    \* history: registrations refused in a row in this call

clientVars == <<vars, pc, told, refused>>

Retry == {"SKY_AUTH_RETRY", "SKY_AUTH_RETRY_8H", "SKY_AUTH_RETRY_16H", "SKY_AUTH_RETRY_1D"}

Delay == Retry \ {"SKY_AUTH_RETRY"}

ClientInit ==
    /\ Init
    /\ pc = "off"
    /\ told = "SKY_ERROR_NONE"
    /\ refused = 0

Goto(label) == pc' = label /\ UNCHANGED <<told, refused>>

----------------------------------------------------------------------------
\* main().

\* retrieve_session_context(): what was saved, or an empty buffer if it cannot
\* be read or was cut short by a crash in save_session_context().
RetrieveSessionContext ==
    /\ pc = "off"
    /\ Restart
    /\ Goto("open")

Open ==
    /\ pc = "open"
    /\ SkyOpen
    /\ Goto(IF ret'.err = "SKY_ERROR_NONE" THEN "main" ELSE "off")

Close ==
    /\ pc = "main"
    /\ SkyClose
    /\ Goto("save")

SaveSessionContext ==
    /\ pc = "save"
    /\ SaveSession \/ UNCHANGED vars
    /\ Goto("off")

----------------------------------------------------------------------------
\* locate().

\* sky_new_request() and the calls that add beacons and search the cache.
NewRequest ==
    /\ pc = "main"
    /\ \E r \in Rctx : SkyNewRequest(r)
    /\ pc' = IF ret'.err = "SKY_ERROR_NONE" THEN "retry_after_auth" ELSE "main"
    /\ told' = "SKY_ERROR_NONE"
    /\ refused' = 0

\* The client returns if there is no memory for the request.
SizeofRequest ==
    /\ pc = "retry_after_auth"
    /\ \/ (\E r \in Rctx : SkySizeofRequestBuf(r)) /\ Goto("encode")
       \/ UNCHANGED vars /\ Goto("main")

EncodeRequest ==
    /\ pc = "encode"
    /\ \E r \in Rctx : SkyEncodeRequest(r)
    /\ Goto(IF ret'.err = "SKY_ERROR_NONE" THEN "send" ELSE "main")

\* send_request() fails or times out, or there is no memory for the response.
SendFailed ==
    /\ pc = "send"
    /\ \E r \in Rctx : NoResponse(r)
    /\ Goto("main")

RefusedOnce(err) == err \in Retry /\ sctx'.backoff = err

\* Mutant: every error is a reason to try again.
DecodeResponseRetries ==
    /\ pc = "send"
    /\ \E r \in Rctx : SkyDecodeGarbage(r) \/ SkyDecodeResponse(r)
    /\ pc' = IF ret'.err # "SKY_ERROR_NONE" THEN "retry_after_auth" ELSE "main"
    /\ told' = ret'.err
    /\ refused' = 0

\* Whatever retry code the client is told, it retries at once: the delays are
\* left to the reader of the sample.
DecodeResponse ==
    /\ pc = "send"
    /\ \E r \in Rctx : SkyDecodeGarbage(r) \/ SkyDecodeResponse(r)
    /\ pc' = IF ret'.err \in Retry THEN "retry_after_auth" ELSE "main"
    /\ told' = ret'.err
    /\ refused' = IF ~RefusedOnce(ret'.err) THEN 0
                  ELSE IF refused < MaxRefused THEN refused + 1 ELSE refused

----------------------------------------------------------------------------

Crash ==
    /\ pc # "off"
    /\ UNCHANGED vars
    /\ Goto("off")

\* Time passes, also while a developer's client sleeps before it retries.
Environment ==
    /\ Tick \/ ClockChange
    /\ Goto(pc)

Locate == SizeofRequest \/ EncodeRequest \/ SendFailed \/ DecodeResponse

ClientNext ==
    \/ RetrieveSessionContext \/ Open \/ NewRequest \/ Locate
    \/ Close \/ SaveSessionContext \/ Crash \/ Environment

\* The client is one thread that goes on by itself: no call of the library
\* blocks, and a response is waited for 10 seconds at most.  Nothing says that
\* it calls locate() again, nor that the server answers.
ClientSpec == ClientInit /\ [][ClientNext]_clientVars /\ WF_clientVars(Locate)

----------------------------------------------------------------------------
\* Properties.

Locating == pc \in {"retry_after_auth", "encode", "send"}

\* The server refuses a location request, and with it the token.
TokenRefused ==
    \E r \in Rctx : rctx[r].auth = "REGISTERED" /\ rctx'[r].auth = "UNREGISTERED"

\* A call of locate() returns, whatever is lost, refused or not decoded and
\* however often it goes to retry_after_auth, unless the server keeps granting
\* tokens that it then refuses.
LocateReturns == (Locating ~> ~Locating) \/ []<><<TokenRefused>>_clientVars

\* A client that is told to delay, sleeps for the period and retries is
\* admitted: "Retry operation in 8hr to query authentication" (libel.h:125),
\* which the sample does by "sleep 8 hours" and "goto retry_after_auth"
\* (sample_client.c:551).
DelayedRetryAdmitted ==
    [][EncodeRequest /\ told \in Delay /\ now >= ProhibitedUntil
         => ret'.err # "SKY_ERROR_SERVICE_DENIED"]_clientVars

\* What the code does instead: sky_encode_request() looks at the time of the
\* request and not at the clock, so that a retry with the same request context
\* is denied service at once, however long the client slept.
DelayedRetryDenied ==
    [][EncodeRequest /\ told \in Delay => ret'.err = "SKY_ERROR_SERVICE_DENIED"]_clientVars

\* However its session was left, one call of locate() makes the server refuse
\* at most two registrations in a row.
FewRefusals == refused <= 2
=============================================================================
