---------------------------- MODULE ClientProofs ----------------------------
(***************************************************************************)
(* Theorems about Client, for every choice of credentials and every length *)
(* of the prohibition periods.                                             *)
(*                                                                         *)
(*   ClientRunsSession     the client is one of the applications Session   *)
(*                         allows for                                      *)
(*   ClientKeepsGate       so it keeps the prohibition periods             *)
(*   DeniedAfterDelay      a retry after a delay is denied, which makes    *)
(*                         DelayedRetryAdmitted fail for every client      *)
(*   RefusedTwice          one call of locate() makes the server refuse    *)
(*                         two registrations in a row at most              *)
(*                                                                         *)
(* The last two rest on Patient: what the client was told is in the        *)
(* session, and its request is not younger than the answer that told it.   *)
(***************************************************************************)
EXTENDS Client, SessionProofs

\* The client's safety, without its fairness.
ClientSafety == ClientInit /\ [][ClientNext]_clientVars

(***************************************************************************)
(* The client uses the session as Session allows.                          *)
(***************************************************************************)

\* Every step of the client is an API call, the environment's, or none.
LEMMA ClientStep == [ClientNext]_clientVars => [Next]_vars
BY DEF ClientNext, RetrieveSessionContext, Open, Close, SaveSessionContext, NewRequest,
       Locate, SizeofRequest, EncodeRequest, SendFailed, DecodeResponse, Crash,
       Environment, clientVars, Next, Request

\* The sample client does nothing an application of Session may not do, so
\* that what is proved of every session holds of its own.
THEOREM ClientRunsSession == ClientSpec => Spec
<1>1. ClientInit => Init
  BY DEF ClientInit
<1>2. ClientSpec => ClientSafety
  BY PTL DEF ClientSpec, ClientSafety
<1> QED
  BY <1>1, <1>2, ClientStep, PTL DEF ClientSafety, Spec

\* While the clock is set, the sample client sends nothing to the server
\* during a prohibition, although it retries without a delay.
THEOREM ClientKeepsGate ==
    ASSUME SteadyClock
    PROVE  ClientSpec => ImplementsGate
BY SessionKeepsGate, ClientRunsSession, PTL

(***************************************************************************)
(* The client is patient.                                                  *)
(***************************************************************************)

\* Every request there is would violate the prohibition.
Delayed ==
    /\ sctx.backoff \in Delay
    /\ \A r \in Rctx : rctx[r].time <= sctx.time

\* What the client was told is in the session, and after two refusals it may
\* not send.
Patient ==
    /\ refused \in 0 .. 2
    /\ pc \in {"retry_after_auth", "encode"} /\ (told \in Delay \/ refused = 2) => Delayed
    /\ Locating /\ refused # 0 => sctx.backoff # "SKY_ERROR_NONE"
    /\ pc = "send" => refused # 2

ClientInv == GateInv /\ Patient

\* A delayed request is refused by backoff_violation(), whatever the delay.
LEMMA DelayedIsViolation ==
    ASSUME GateInv, Delayed, NEW r \in Rctx
    PROVE  BackoffViolation(rctx[r].time)
<1>1. rctx[r].time \in Nat /\ sctx.time \in Nat /\ rctx[r].time <= sctx.time
  BY DEF GateInv, TypeOK, RequestRecord, SessionRecord, Delayed
<1>2. rctx[r].time - sctx.time <= 0
  BY <1>1
<1>3. sctx.backoff \in {"SKY_AUTH_RETRY_8H", "SKY_AUTH_RETRY_16H", "SKY_AUTH_RETRY_1D"}
  BY DEF Delayed, Delay, Retry
<1> QED
  BY <1>1, <1>2, <1>3, PeriodAssumption DEF BackoffViolation

\* A code to retry that is kept in the session is one more rung, and a delay is
\* always kept.
LEMMA OutcomeRefused ==
    ASSUME NEW d, sctx.backoff \in BackoffCode, Outcome(d).err \in Retry
    PROVE  /\ Outcome(d).err \in Delay => Outcome(d).backoff = Outcome(d).err
           /\ Outcome(d).backoff = Outcome(d).err /\ sctx.backoff # "SKY_ERROR_NONE"
                => Outcome(d).err \in Delay
BY DEF Outcome, NextBackoff, Retry, Delay, BackoffCode

\* A response that is decoded leaves the client patient.
LEMMA DecodePatient ==
    ASSUME ClientInv, DecodeResponse
    PROVE  Patient'
<1>t. /\ sctx \in SessionRecord /\ rctx \in [Rctx -> RequestRecord]
      /\ sctx.backoff \in BackoffCode /\ now \in Nat
  BY DEF ClientInv, GateInv, TypeOK, SessionRecord
<1>c. Clock = Epoch + now /\ \A r \in Rctx : rctx[r].time <= Epoch + now
  BY DEF ClientInv, GateInv, Timed, Clock
<1>p. /\ pc = "send" /\ refused \in {0, 1}
      /\ refused # 0 => sctx.backoff # "SKY_ERROR_NONE"
      /\ told' = ret'.err
      /\ pc' = IF ret'.err \in Retry THEN "retry_after_auth" ELSE "main"
  BY DEF DecodeResponse, ClientInv, Patient, Locating
<1>r. refused' = IF ret'.err \in Retry /\ sctx'.backoff = ret'.err THEN refused + 1 ELSE 0
  BY <1>p, ClientAssumption DEF DecodeResponse, RefusedOnce
<1>1. CASE ret'.err \notin Retry
  BY <1>1, <1>p, <1>r DEF Patient, Locating
<1>2. CASE ret'.err \in Retry
  <2>1. ASSUME NEW r \in Rctx, SkyDecodeGarbage(r)
        PROVE  FALSE
    BY <1>2, <2>1 DEF SkyDecodeGarbage, Returned, Retry
  <2>2. PICK r \in Rctx : SkyDecodeResponse(r)
    BY <2>1 DEF DecodeResponse
  <2>3. PICK rsp \in ServerResponse(rctx[r].kind) :
          LET d == Deserialized(rctx[r], rsp)
          IN  /\ sctx' = [sctx EXCEPT
                    !.time = Clock,
                    !.heard = now,
                    !.last_config_time = ConfigTime(rsp),
                    !.token = d.token,
                    !.backoff = Outcome(d).backoff]
              /\ rctx' = [rctx EXCEPT
                    ![r].phase = IF d.status = "SUCCESS" THEN "idle" ELSE "built",
                    ![r].kind = "none",
                    ![r].auth = d.auth]
              /\ ret' = Returned("decode", Outcome(d).err, rsp.status)
    BY <2>2 DEF SkyDecodeResponse
  <2> DEFINE d == Deserialized(rctx[r], rsp)
  <2>4. sctx'.time = Clock /\ sctx'.backoff = Outcome(d).backoff /\ ret'.err = Outcome(d).err
    BY <2>3, <1>t DEF SessionRecord, Returned
  <2>5. \A s \in Rctx : rctx'[s].time = rctx[s].time
    BY <2>3, <1>t DEF RequestRecord
  <2>6. \A s \in Rctx : rctx'[s].time <= sctx'.time
    BY <2>4, <2>5, <1>c
  <2>7. /\ ret'.err \in Delay => sctx'.backoff = ret'.err
        /\ sctx'.backoff = ret'.err /\ sctx.backoff # "SKY_ERROR_NONE" => ret'.err \in Delay
    BY <2>4, <1>2, <1>t, OutcomeRefused
  <2>8. refused' = 2 => sctx'.backoff \in Delay
    BY <1>p, <1>r, <2>7
  <2>9. told' \in Delay => sctx'.backoff \in Delay
    BY <1>p, <2>7
  <2>10. refused' # 0 => sctx'.backoff # "SKY_ERROR_NONE"
    BY <1>p, <1>r DEF Retry
  <2>11. (told' \in Delay \/ refused' = 2) => Delayed'
    BY <2>6, <2>8, <2>9 DEF Delayed
  <2> QED
    BY <1>2, <1>p, <1>r, <2>10, <2>11 DEF Patient, Locating
<1> QED
  BY <1>1, <1>2

\* Every other step does.
LEMMA NextPatient ==
    ASSUME ClientInv, ClientNext
    PROVE  Patient'
<1>p. Patient /\ GateInv
  BY DEF ClientInv
<1>t. sctx \in SessionRecord /\ rctx \in [Rctx -> RequestRecord]
  BY DEF ClientInv, GateInv, TypeOK
<1>q. ASSUME pc' \notin {"retry_after_auth", "encode", "send"}, refused' \in 0 .. 2
      PROVE  Patient'
  BY <1>q DEF Patient, Locating
<1>1. CASE RetrieveSessionContext \/ Open \/ Close \/ SaveSessionContext \/ Crash \/ SendFailed
  BY <1>1, <1>p, <1>q
  DEF RetrieveSessionContext, Open, Close, SaveSessionContext, Crash, SendFailed, Goto, Patient
<1>2. CASE NewRequest
  BY <1>2, <1>q DEF NewRequest, Patient, Locating, Delay, Retry
<1>3. CASE SizeofRequest
  <2>1. CASE pc' = "main"
    BY <1>3, <2>1, <1>p, <1>q DEF SizeofRequest, Goto, Patient
  <2>2. CASE pc' # "main"
    <3>1. PICK r \in Rctx : SkySizeofRequestBuf(r)
      BY <1>3, <2>2 DEF SizeofRequest, Goto
    <3>2. sctx'.backoff = sctx.backoff /\ sctx'.time = sctx.time
      BY <3>1, <1>t DEF SkySizeofRequestBuf, SessionRecord
    <3>3. \A s \in Rctx : rctx'[s].time = rctx[s].time
      BY <3>1, <1>t DEF SkySizeofRequestBuf, RequestRecord
    <3>4. /\ pc = "retry_after_auth" /\ pc' = "encode"
          /\ UNCHANGED <<told, refused>>
      BY <1>3, <2>2 DEF SizeofRequest, Goto
    <3> QED
      BY <3>2, <3>3, <3>4, <1>p DEF Patient, Locating, Delayed
  <2> QED
    BY <2>1, <2>2
<1>4. CASE EncodeRequest
  <2>1. CASE pc' = "main"
    BY <1>4, <2>1, <1>p, <1>q DEF EncodeRequest, Goto, Patient
  <2>2. CASE pc' # "main"
    <3>1. PICK r \in Rctx : SkyEncodeRequest(r)
      BY <1>4 DEF EncodeRequest
    <3>2. /\ pc = "encode" /\ pc' = "send" /\ ret'.err = "SKY_ERROR_NONE"
          /\ UNCHANGED <<told, refused>>
      BY <1>4, <2>2 DEF EncodeRequest, Goto
    <3>3. ~BackoffViolation(rctx[r].time) /\ sctx' = sctx
      BY <3>1, <3>2 DEF SkyEncodeRequest, Returned
    <3>4. ~Delayed
      BY <3>3, <1>p, DelayedIsViolation
    <3> QED
      BY <3>2, <3>3, <3>4, <1>p DEF Patient, Locating
  <2> QED
    BY <2>1, <2>2
<1>5. CASE DecodeResponse
  BY <1>5, DecodePatient
<1>6. CASE Environment
  <2>1. UNCHANGED <<sctx, rctx, pc, told, refused>>
    BY <1>6 DEF Environment, Tick, ClockChange, Goto
  <2> QED
    BY <2>1, <1>p DEF Patient, Locating, Delayed
<1> QED
  BY <1>1, <1>2, <1>3, <1>4, <1>5, <1>6 DEF ClientNext, Locate

\* ClientInv is inductive.
LEMMA NextClientInv ==
    ASSUME SteadyClock
    PROVE  ClientInv /\ [ClientNext]_clientVars => ClientInv'
<1> SUFFICES ASSUME ClientInv, [ClientNext]_clientVars
             PROVE  ClientInv'
  OBVIOUS
<1>1. GateInv'
  BY ClientStep, NextGateInv DEF ClientInv
<1>2. CASE ClientNext
  BY <1>1, <1>2, NextPatient DEF ClientInv
<1>3. CASE UNCHANGED clientVars
  BY <1>1, <1>3 DEF ClientInv, Patient, Locating, Delayed, clientVars, vars
<1> QED
  BY <1>2, <1>3

\* A process that has not started yet is patient.
LEMMA InitClientInv ==
    ASSUME SteadyClock
    PROVE  ClientInit => ClientInv
BY InitGateInv DEF ClientInit, ClientInv, Patient, Locating

\* While the clock is set, a client that was told to delay and comes back with
\* the same request context is denied service, however long it waited: what
\* the documentation promises it, DelayedRetryAdmitted, fails at every rung and
\* for all lengths of the periods, not only in the run that refutes it.
THEOREM DeniedAfterDelay ==
    ASSUME SteadyClock
    PROVE  ClientSpec => DelayedRetryDenied
<1>1. ASSUME ClientInv, EncodeRequest, told \in Delay
      PROVE  ret'.err = "SKY_ERROR_SERVICE_DENIED"
  <2>1. PICK r \in Rctx : SkyEncodeRequest(r)
    BY <1>1 DEF EncodeRequest
  <2>2. Delayed /\ GateInv
    BY <1>1 DEF EncodeRequest, ClientInv, Patient
  <2>3. BackoffViolation(rctx[r].time)
    BY <2>2, DelayedIsViolation
  <2> QED
    BY <2>1, <2>3 DEF SkyEncodeRequest, Returned
<1>2. ClientInv /\ [ClientNext]_clientVars =>
        [EncodeRequest /\ told \in Delay => ret'.err = "SKY_ERROR_SERVICE_DENIED"]_clientVars
  BY <1>1
<1>3. ClientSpec => ClientSafety
  BY PTL DEF ClientSpec, ClientSafety
<1> QED
  BY <1>2, <1>3, InitClientInv, NextClientInv, PTL DEF ClientSafety, DelayedRetryDenied

\* While the clock is set, no call of locate() makes the server refuse more
\* than two registrations in a row.
THEOREM RefusedTwice ==
    ASSUME SteadyClock
    PROVE  ClientSpec => []FewRefusals
<1>1. ClientInv => FewRefusals
  BY DEF ClientInv, Patient, FewRefusals
<1>2. ClientSpec => ClientSafety
  BY PTL DEF ClientSpec, ClientSafety
<1> QED
  BY <1>1, <1>2, InitClientInv, NextClientInv, PTL DEF ClientSafety
=============================================================================
